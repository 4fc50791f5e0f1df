--------------------------- MODULE DashboardProofs ---------------------------
(* Proofs about Dashboard, for every number of handlers and of batches.    *)
EXTENDS Dashboard, TLAPS

UI == [batches : SUBSET Batch, currentBatchId : Batch \cup {None},
       currentBatch : Batch \cup {None}, activeTab : Tab, isLoading : BOOLEAN,
       error : BOOLEAN, explaining : BOOLEAN]
View == [of : Batch \cup {None}, loading : BOOLEAN, error : BOOLEAN]

LEMMA IdleTyped == Idle \in Invocation /\ Done \in Invocation
  BY DEF Idle, Done, Invocation, Handler, Loaders, Step

LEMMA InitTyped == Init => TypeOK
<1> SUFFICES ASSUME Init PROVE TypeOK OBVIOUS
<1>1. task \in [Task -> Invocation]
  BY DEF Init, Idle, Invocation, Handler, Loaders, Step
<1>2. ui \in UI
  BY DEF Init, BlankPage, UI, Tab
<1>3. panel \in [Panel -> View]
  BY DEF Init, Blank, View
<1> QED BY <1>1, <1>2, <1>3 DEF Init, TypeOK, UI, View

LEMMA InvocationFacts ==
  ASSUME NEW r \in Invocation
  PROVE  /\ r.batch \in Batch \cup {None} /\ r.list \in SUBSET Batch
         /\ r.handler \in Handler
         /\ \A reply \in {"sent", "ok", "failed"} : [r EXCEPT !.reply = reply] \in Invocation
         /\ \A step \in Step : [r EXCEPT !.step = step, !.reply = "sent"] \in Invocation
         /\ \A b \in Batch : [r EXCEPT !.reply = "ok", !.batch = b] \in Invocation
         /\ \A list \in SUBSET Batch : [r EXCEPT !.reply = "ok", !.list = list] \in Invocation
  BY DEF Invocation

LEMMA NewInvocation ==
  ASSUME NEW handler \in Handler, NEW step \in Step,
         NEW b \in Batch \cup {None}, NEW seen \in Batch \cup {None}
  PROVE  /\ [Idle EXCEPT !.handler = handler, !.step = step, !.batch = b] \in Invocation
         /\ [Idle EXCEPT !.handler = handler, !.step = step, !.batch = b, !.seen = seen]
              \in Invocation
  BY DEF Idle, Invocation

LEMMA TaskUpdate ==
  ASSUME NEW f \in [Task -> Invocation], NEW t \in Task, NEW r \in Invocation
  PROVE  [f EXCEPT ![t] = r] \in [Task -> Invocation]
  OBVIOUS

\* What serving a request does to the server and to the handler.
LEMMA ServeTyped ==
  ASSUME TypeOK, NEW t \in Task, Serve(t)
  PROVE  /\ stored' \subseteq created' /\ created' \subseteq Batch /\ UNCHANGED late
         /\ task' \in [Task -> Invocation]
<1>1. stored \subseteq created /\ created \subseteq Batch
  BY DEF TypeOK
<1>2. task \in [Task -> Invocation] /\ task[t] \in Invocation
  BY DEF TypeOK
<1>3. ASSUME NEW how \in {"ok", "failed"}, Reply(t, how)
      PROVE  task' \in [Task -> Invocation]
  <2>1. [task[t] EXCEPT !.reply = how] \in Invocation BY <1>2, <1>3, InvocationFacts
  <2> QED BY <1>2, <1>3, <2>1, TaskUpdate DEF Reply
<1>4. CASE ServeRun(t)
  <2>1. PICK b \in Batch : /\ Create(task[t].handler, task[t].batch, b)
                           /\ task' = [task EXCEPT ![t].reply = "ok", ![t].batch = b]
    BY <1>4 DEF ServeRun
  <2>2. [task[t] EXCEPT !.reply = "ok", !.batch = b] \in Invocation
    BY <1>2, InvocationFacts
  <2>3. task' = [task EXCEPT ![t] = [task[t] EXCEPT !.reply = "ok", !.batch = b]]
    BY <1>2, <2>1
  <2>4. task' \in [Task -> Invocation] BY <1>2, <2>2, <2>3, TaskUpdate
  <2> QED BY <1>1, <1>4, <2>1, <2>4 DEF ServeRun, Create
<1>5. CASE ServeList(t)
  <2>1. task' = [task EXCEPT ![t] = [task[t] EXCEPT !.reply = "ok", !.list = stored]]
    BY <1>2, <1>5 DEF ServeList
  <2>2. [task[t] EXCEPT !.reply = "ok", !.list = stored] \in Invocation
    BY <1>1, <1>2, InvocationFacts
  <2>3. task' \in [Task -> Invocation] BY <1>2, <2>1, <2>2, TaskUpdate
  <2> QED BY <1>1, <1>5, <2>3 DEF ServeList, server
<1>6. CASE ServeGet(t) BY <1>1, <1>3, <1>6 DEF ServeGet, server
<1>7. CASE ServeDelete(t) BY <1>1, <1>3, <1>7 DEF ServeDelete, Remove
<1>8. CASE NotFound(t) BY <1>1, <1>3, <1>8 DEF NotFound, server
<1> QED BY <1>4, <1>5, <1>6, <1>7, <1>8 DEF Serve

LEMMA LoadingTyped == \A u \in UI : Loading(u) \in UI
  BY DEF UI, Loading

LEMMA ClickTyped ==
  ASSUME TypeOK, NEW t \in Task, Click(t)
  PROVE  task' \in [Task -> Invocation] /\ ui' \in UI /\ calm' \in BOOLEAN
<1>1. task \in [Task -> Invocation] /\ ui \in UI BY DEF TypeOK, UI
<1>2. ui.currentBatchId \in Batch \cup {None} /\ ui.batches \subseteq Batch
  BY <1>1 DEF UI
<1>3. ASSUME NEW handler \in {"load", "delete", "demo", "run", "rerun"},
             NEW step \in Step, NEW b \in Batch \cup {None}, Begin(t, handler, step, b)
      PROVE  task' \in [Task -> Invocation]
  <2>1. handler \in Handler BY DEF Handler, Loaders
  <2>2. [Idle EXCEPT !.handler = handler, !.step = step, !.batch = b,
                     !.seen = ui.currentBatchId] \in Invocation
    BY <1>2, <2>1, NewInvocation
  <2> QED BY <1>1, <1>3, <2>2, TaskUpdate DEF Begin
<1>4. ui' \in UI /\ calm' \in BOOLEAN
  BY <1>1, LoadingTyped
  DEF Click, Select, handleDeleteBatch, handleLoadDemo, handleRunConfiguredBatch, handleExecute
<1>5. task' \in [Task -> Invocation]
  BY <1>2, <1>3
  DEF Click, Select, handleDeleteBatch, handleLoadDemo, handleRunConfiguredBatch,
      handleExecute, Step
<1> QED BY <1>4, <1>5

LEMMA BrowseTyped ==
  ASSUME TypeOK, Browse
  PROVE  task' \in [Task -> Invocation] /\ ui' \in UI /\ calm' \in BOOLEAN
  BY DEF TypeOK, Browse, UI, Tab

LEMMA ShowTyped ==
  ASSUME NEW u \in UI, NEW b \in Batch \cup {None}
  PROVE  Show(u, b) \in UI
  BY DEF UI, Show

LEMMA ResumeTyped ==
  ASSUME TypeOK, NEW t \in Task, Resume(t)
  PROVE  task' \in [Task -> Invocation] /\ ui' \in UI
<1> DEFINE listed == [ui EXCEPT !.batches = task[t].list]
<1>1. task \in [Task -> Invocation] /\ task[t] \in Invocation /\ ui \in UI
  BY DEF TypeOK, UI
<1>2. task[t].batch \in Batch \cup {None} /\ task[t].list \in SUBSET Batch
  BY <1>1, InvocationFacts
<1>3. listed \in UI BY <1>1, <1>2 DEF UI
<1>4. ASSUME NEW step \in {"list", "get"}, Send(t, step)
      PROVE  task' \in [Task -> Invocation]
  <2>1. [task[t] EXCEPT !.step = step, !.reply = "sent"] \in Invocation
    BY <1>1, InvocationFacts DEF Step
  <2>2. task' = [task EXCEPT ![t] = [task[t] EXCEPT !.step = step, !.reply = "sent"]]
    BY <1>1, <1>4 DEF Send
  <2> QED BY <1>1, <2>1, <2>2, TaskUpdate
<1>5. ASSUME End(t) PROVE task' \in [Task -> Invocation]
  BY <1>1, <1>5, IdleTyped, TaskUpdate DEF End
<1>6. ASSUME LoadOne(t, task[t].list) PROVE task' \in [Task -> Invocation]
  <2>1. PICK b \in task[t].list :
          task' = [task EXCEPT ![t] = [Idle EXCEPT !.handler = "load", !.step = "get",
                                                   !.batch = b]]
    BY <1>6 DEF LoadOne
  <2>2. [Idle EXCEPT !.handler = "load", !.step = "get", !.batch = b] \in Invocation
    BY <1>2, NewInvocation DEF Handler, Loaders, Step
  <2> QED BY <1>1, <2>1, <2>2, TaskUpdate
<1>7. CASE Proceed(t) BY <1>1, <1>4, <1>7 DEF Proceed
<1>8. CASE ShowBatch(t)
  <2>1. Show(ui, task[t].batch) \in UI BY <1>1, <1>2, ShowTyped
  <2>2. ui' \in UI BY <1>8, <2>1 DEF ShowBatch, UI, Tab
  <2> QED BY <1>4, <1>5, <1>8, <2>2 DEF ShowBatch
<1>9. CASE Fail(t)
  <2>1. ui' \in UI BY <1>1, <1>9 DEF Fail, UI, Tab
  <2> QED BY <1>5, <1>9, <2>1 DEF Fail
<1>10. CASE ListForInit(t)
  BY <1>1, <1>3, <1>5, <1>6, <1>10, LoadingTyped DEF ListForInit
<1>11. CASE ListForRun(t)
  BY <1>3, <1>4, <1>11, LoadingTyped DEF ListForRun
<1>12. CASE ListForRerun(t)
  <2>1. ui' \in UI BY <1>1, <1>2, <1>12 DEF ListForRerun, UI
  <2> QED BY <1>5, <1>12, <2>1 DEF ListForRerun
<1>13. CASE ListForDelete(t)
  <2>1. Show(listed, None) \in UI BY <1>3, ShowTyped
  <2> QED BY <1>3, <1>5, <1>6, <1>13, <2>1, LoadingTyped DEF ListForDelete
<1> QED BY <1>7, <1>8, <1>9, <1>10, <1>11, <1>12, <1>13 DEF Resume

LEMMA RenderTyped ==
  ASSUME TypeOK, Render, ui' \in UI
  PROVE  /\ panel' \in [Panel -> View] /\ crashed' \in BOOLEAN
         /\ fetches' \subseteq [panel : Panel, of : Batch, mounted : BOOLEAN]
<1>1. crashed' \in BOOLEAN BY DEF Render, Crashes
<1>2. ASSUME NEW p \in Panel PROVE Fetched(p) \in View
  BY DEF TypeOK, View, Fetched, Blank
<1>3. panel' \in [Panel -> View] BY <1>2 DEF Render
<1>4. fetches' \subseteq [panel : Panel, of : Batch, mounted : BOOLEAN]
  <2> SUFFICES ASSUME NEW g \in fetches'
               PROVE  g \in [panel : Panel, of : Batch, mounted : BOOLEAN]
    OBVIOUS
  <2>1. CASE \E f \in fetches : g = [f EXCEPT !.mounted = @ /\ ~Cleanup(f.panel)]
    <3>1. PICK f \in fetches : g = [f EXCEPT !.mounted = @ /\ ~Cleanup(f.panel)]
      BY <2>1
    <3>2. f \in [panel : Panel, of : Batch, mounted : BOOLEAN] BY DEF TypeOK
    <3>3. (f.mounted /\ ~Cleanup(f.panel)) \in BOOLEAN OBVIOUS
    <3> QED BY <3>1, <3>2, <3>3
  <2>2. CASE \E p \in Panel : /\ ui'.currentBatchId # None
                             /\ g = [panel |-> p, of |-> ui'.currentBatchId, mounted |-> TRUE]
    BY <2>2 DEF UI
  <2> QED BY <2>1, <2>2 DEF Render
<1> QED BY <1>1, <1>3, <1>4

LEMMA ReceiveTyped ==
  ASSUME TypeOK, Receive
  PROVE  /\ panel' \in [Panel -> View]
         /\ fetches' \subseteq [panel : Panel, of : Batch, mounted : BOOLEAN]
<1>1. panel \in [Panel -> View] BY DEF TypeOK, View
<1>2. PICK f \in fetches : Receive!1!(f)
  BY DEF Receive
<1>3. f \in [panel : Panel, of : Batch, mounted : BOOLEAN] BY DEF TypeOK
<1>4. [of |-> f.of, loading |-> FALSE, error |-> FALSE] \in View
  BY <1>3 DEF View
<1>5. [panel[f.panel] EXCEPT !.loading = FALSE, !.error = TRUE] \in View
  BY <1>1, <1>3 DEF View
<1>6. panel' \in [Panel -> View]
  BY <1>1, <1>2, <1>3, <1>4, <1>5 DEF Received
<1> QED BY <1>2, <1>6 DEF TypeOK

LEMMA NextTyped ==
  ASSUME TypeOK, [Next]_vars
  PROVE  TypeOK'
<1> USE DEF server
<1>1. CASE \E t \in Task : Browser(t)
  BY <1>1, ResumeTyped, RenderTyped DEF Browser, TypeOK, UI, View
<1>2. CASE \E t \in Task : Server(t)
  BY <1>2, ServeTyped DEF Server, TypeOK
<1>3. CASE \E t \in Task : Broken(t)
  <2>1. PICK t \in Task : Broken(t) BY <1>3
  <2>2. task' \in [Task -> Invocation]
    BY <2>1 DEF Broken, Lose, Reply, TypeOK, Invocation
  <2>3. late' \subseteq [handler : Handler, batch : Batch \cup {None}]
    <3>1. task[t].handler \in Handler /\ task[t].batch \in Batch \cup {None}
      BY DEF TypeOK, Invocation
    <3> QED BY <2>1, <3>1 DEF Broken, Lose, TypeOK
  <2> QED BY <2>1, <2>2, <2>3 DEF Broken, Lose, TypeOK
<1>4. CASE User
  <2>1. task' \in [Task -> Invocation] /\ ui' \in UI /\ calm' \in BOOLEAN
    BY <1>4, ClickTyped, BrowseTyped DEF User
  <2> QED BY <1>4, <2>1, RenderTyped DEF User, TypeOK, UI, View
<1>5. CASE Receive /\ UNCHANGED <<server, crashed, calm>>
  BY <1>5, ReceiveTyped DEF Receive, TypeOK, View
<1>6. CASE ServeLate /\ UNCHANGED <<ui, panel, fetches, crashed, calm>>
  BY <1>6 DEF ServeLate, Create, Remove, TypeOK
<1>7. CASE UNCHANGED vars
  BY <1>7 DEF vars, TypeOK
<1> QED BY <1>1, <1>2, <1>3, <1>4, <1>5, <1>6, <1>7 DEF Next

\* The type invariant of the dashboard's state and of the server's.
THEOREM DashboardTypeCorrect == Spec => []TypeOK
<1>1. TypeOK /\ [Next]_vars => TypeOK' BY NextTyped
<1> QED BY InitTyped, <1>1, PTL DEF Spec

-----------------------------------------------------------------------------
(* The spinner.                                                            *)

LoaderRuns(t) == task[t].handler \in Loaders
SpinnerInv == ui.isLoading => \E t \in Task : LoaderRuns(t)

LEMMA OthersRun ==
  ASSUME TypeOK, NEW t \in Task, SpinnerInv, ui.isLoading, ~LoaderRuns(t), NEW r,
         task' = [task EXCEPT ![t] = r]
  PROVE  \E u \in Task : LoaderRuns(u)'
  BY DEF TypeOK, SpinnerInv, LoaderRuns

LEMMA SpinnerResume ==
  ASSUME TypeOK, SpinnerInv, NEW t \in Task, Resume(t)
  PROVE  SpinnerInv'
<1>1. task \in [Task -> Invocation] /\ ui \in UI BY DEF TypeOK, UI
<1>2. SUFFICES ASSUME ui'.isLoading PROVE \E u \in Task : LoaderRuns(u)'
  BY DEF SpinnerInv
<1>3. ASSUME NEW step, Send(t, step)
      PROVE  \A u \in Task : LoaderRuns(u)' <=> LoaderRuns(u)
  BY <1>1, <1>3 DEF Send, LoaderRuns, Invocation
<1>4. ASSUME NEW list, LoadOne(t, list) PROVE LoaderRuns(t)'
  BY <1>1, <1>4 DEF LoadOne, LoaderRuns, Loaders, Idle
<1>5. CASE Proceed(t) BY <1>2, <1>3, <1>5 DEF Proceed, SpinnerInv
<1>6. CASE ShowBatch(t)
  <2>1. task[t].handler = "rerun" BY <1>1, <1>2, <1>6 DEF ShowBatch, Show, UI
  <2> QED BY <1>3, <1>6, <2>1 DEF ShowBatch, LoaderRuns, Loaders
<1>7. CASE Fail(t)
  <2>1. ~LoaderRuns(t) /\ ui.isLoading
    BY <1>1, <1>2, <1>7 DEF Fail, UI, LoaderRuns, Loaders
  <2> QED BY <1>7, <2>1, OthersRun DEF Fail, End
<1>8. CASE ListForInit(t)
  <2>1. ~LoaderRuns(t) BY <1>8 DEF ListForInit, LoaderRuns, Loaders
  <2> QED BY <1>2, <1>4, <1>8, <2>1, OthersRun DEF ListForInit, End
<1>9. CASE ListForRun(t)
  <2>1. LoaderRuns(t) BY <1>9 DEF ListForRun, LoaderRuns, Loaders
  <2> QED BY <1>3, <1>9, <2>1 DEF ListForRun
<1>10. CASE ListForRerun(t) BY <1>1, <1>2, <1>10 DEF ListForRerun, UI
<1>11. CASE ListForDelete(t)
  <2>1. ~LoaderRuns(t) BY <1>11 DEF ListForDelete, LoaderRuns, Loaders
  <2>2. CASE LoadOne(t, task[t].list) BY <1>4, <2>2
  <2>3. CASE End(t) /\ ui'.isLoading = ui.isLoading
    BY <1>2, <2>1, <2>3, OthersRun DEF End
  <2> QED BY <1>1, <1>11, <2>2, <2>3 DEF ListForDelete, Show, UI
<1> QED BY <1>5, <1>6, <1>7, <1>8, <1>9, <1>10, <1>11 DEF Resume

\* Serving and losing requests changes no handler's kind.
LEMMA SpinnerElsewhere ==
  ASSUME TypeOK, SpinnerInv, NEW t \in Task, Serve(t) \/ Lose(t), UNCHANGED ui
  PROVE  SpinnerInv'
<1>1. task \in [Task -> Invocation] BY DEF TypeOK
<1>2. \A u \in Task : task'[u].handler = task[u].handler
  BY <1>1 DEF Serve, ServeRun, ServeList, ServeGet, ServeDelete, NotFound, Lose, Reply,
              Invocation
<1> QED BY <1>2 DEF SpinnerInv, LoaderRuns

LEMMA SpinnerUser ==
  ASSUME TypeOK, SpinnerInv, User
  PROVE  SpinnerInv'
<1>1. task \in [Task -> Invocation] /\ ui \in UI BY DEF TypeOK, UI
<1>2. ASSUME NEW t \in Task, NEW handler \in Loaders, NEW step, NEW b,
             Begin(t, handler, step, b)
      PROVE  LoaderRuns(t)'
  BY <1>1, <1>2 DEF Begin, LoaderRuns, Idle
<1>3. ASSUME NEW t \in Task, handleDeleteBatch(t) PROVE SpinnerInv'
  <2>1. ~LoaderRuns(t) BY <1>3 DEF handleDeleteBatch, Begin, LoaderRuns, Loaders
  <2> QED BY <1>3, <2>1, OthersRun DEF handleDeleteBatch, Begin, SpinnerInv
<1>4. ASSUME NEW t \in Task, Select(t) \/ handleLoadDemo(t) \/ handleRunConfiguredBatch(t)
                             \/ handleExecute(t)
      PROVE  SpinnerInv'
  <2>1. LoaderRuns(t)'
    BY <1>2, <1>4
    DEF Select, handleLoadDemo, handleRunConfiguredBatch, handleExecute, Loaders
  <2> QED BY <2>1 DEF SpinnerInv
<1>5. CASE Browse
  <2>1. ui'.isLoading = ui.isLoading BY <1>1, <1>5 DEF Browse, UI
  <2> QED BY <1>5, <2>1 DEF Browse, SpinnerInv, LoaderRuns
<1> QED BY <1>3, <1>4, <1>5 DEF User, Click

\* The page shows its spinner only while a handler that takes it away runs.
THEOREM SpinnerIsTakenAway == Spec => []SpinnerHasCause
<1>1. Init => SpinnerInv BY DEF Init, SpinnerInv, BlankPage
<1>2. TypeOK /\ SpinnerInv /\ [Next]_vars => SpinnerInv'
  <2> SUFFICES ASSUME TypeOK, SpinnerInv, [Next]_vars PROVE SpinnerInv'
    OBVIOUS
  <2>1. CASE \E t \in Task : Browser(t) BY <2>1, SpinnerResume DEF Browser
  <2>2. CASE \E t \in Task : Server(t) \/ Broken(t)
    BY <2>2, SpinnerElsewhere DEF Server, Broken
  <2>3. CASE User BY <2>3, SpinnerUser
  <2>4. CASE UNCHANGED <<task, ui>> BY <2>4 DEF SpinnerInv, LoaderRuns
  <2> QED BY <2>1, <2>2, <2>3, <2>4 DEF Next, Receive, ServeLate, vars
<1>3. TypeOK /\ SpinnerInv => SpinnerHasCause
  BY DEF SpinnerInv, SpinnerHasCause, LoaderRuns, Busy, Loaders
<1> QED BY <1>1, <1>2, <1>3, DashboardTypeCorrect, PTL DEF Spec

-----------------------------------------------------------------------------
(* The views that fetch for themselves.                                    *)

OneBatch == ui.currentBatch = ui.currentBatchId

\* A fetch whose answer will be used is for the batch of a view that waits.
FetchesCurrent ==
  \A f \in fetches : f.mounted => Mounted(f.panel, ui) /\ f.of = ui.currentBatchId

PanelsCurrent ==
  \A p \in Panel :
    Mounted(p, ui) /\ ui.currentBatchId # None /\ ~panel[p].loading /\ ~panel[p].error
      => panel[p].of = ui.currentBatchId

PanelInv == OneBatch /\ FetchesCurrent /\ PanelsCurrent

LEMMA OneBatchKept ==
  ASSUME TypeOK, OneBatch, Browse \/ \E t \in Task : Resume(t) \/ Click(t)
  PROVE  OneBatch'
<1>1. ui \in UI BY DEF TypeOK, UI
<1>2. ASSUME NEW u \in UI, NEW b \in Batch \cup {None}, NEW list
      PROVE  /\ Show(u, b).currentBatch = Show(u, b).currentBatchId
             /\ Loading(u).currentBatch = u.currentBatch
             /\ Loading(u).currentBatchId = u.currentBatchId
             /\ [u EXCEPT !.batches = list].currentBatch = u.currentBatch
             /\ [u EXCEPT !.batches = list].currentBatchId = u.currentBatchId
  BY DEF UI, Show, Loading
<1>3. CASE \E t \in Task : Resume(t)
  <2>1. PICK t \in Task : Resume(t) BY <1>3
  <2>2. task[t].batch \in Batch \cup {None} /\ task[t].list \in SUBSET Batch
    BY InvocationFacts DEF TypeOK
  <2> DEFINE listed == [ui EXCEPT !.batches = task[t].list]
  <2>3. listed \in UI BY <1>1, <2>2 DEF UI
  <2>4. Show(listed, None) \in UI BY <2>3, ShowTyped
  <2>5. /\ listed.currentBatch = listed.currentBatchId
        /\ Loading(listed).currentBatch = Loading(listed).currentBatchId
    BY <1>1, <2>2, <2>3 DEF UI, Loading, OneBatch
  <2>6. CASE Proceed(t) BY <2>6 DEF Proceed, OneBatch
  <2>7. CASE ShowBatch(t)
    <3> DEFINE shown == Show(ui, task[t].batch)
    <3>1. shown \in UI /\ shown.currentBatch = shown.currentBatchId
      BY <1>1, <1>2, <2>2, ShowTyped
    <3>2. ui' = shown \/ \E tab : ui' = [shown EXCEPT !.isLoading = FALSE, !.activeTab = tab]
      BY <2>7 DEF ShowBatch
    <3> HIDE DEF shown
    <3> QED BY <3>1, <3>2 DEF OneBatch, UI
  <2>8. CASE Fail(t) BY <1>1, <2>8 DEF Fail, OneBatch, UI
  <2>9. CASE ListForInit(t) \/ ListForRun(t) \/ ListForRerun(t)
    <3>1. CASE UNCHANGED ui BY <3>1 DEF OneBatch
    <3>2. CASE ui' = Loading(listed) BY <2>5, <3>2 DEF OneBatch
    <3>3. CASE ListForRerun(t) BY <1>1, <3>3 DEF ListForRerun, OneBatch, UI
    <3> QED BY <2>9, <3>1, <3>2, <3>3 DEF ListForInit, ListForRun
  <2>10. CASE ListForDelete(t)
    <3> DEFINE cleared == Show(listed, None)
    <3>1. /\ cleared.currentBatch = cleared.currentBatchId
          /\ Loading(cleared).currentBatch = Loading(cleared).currentBatchId
      BY <1>2, <2>3, <2>4
    <3>2. ui' = listed \/ ui' = cleared \/ ui' = Loading(cleared)
      BY <2>10 DEF ListForDelete
    <3> HIDE DEF listed, cleared
    <3> QED BY <2>5, <3>1, <3>2 DEF OneBatch
  <2> QED BY <2>1, <2>6, <2>7, <2>8, <2>9, <2>10 DEF Resume
<1>4. CASE \E t \in Task : Click(t)
  BY <1>1, <1>4
  DEF Click, Select, handleDeleteBatch, handleLoadDemo, handleRunConfiguredBatch,
      handleExecute, Loading, UI, OneBatch
<1>5. CASE Browse BY <1>1, <1>5 DEF Browse, UI, OneBatch
<1> QED BY <1>3, <1>4, <1>5

\* A commit starts a fetch for every view that shows another batch, and the
\* fetches that go on being used are those of views that show the same.
LEMMA RenderKeeps ==
  ASSUME TypeOK, PanelInv, Render
  PROVE  FetchesCurrent' /\ PanelsCurrent'
<1>1. FetchesCurrent'
  <2> SUFFICES ASSUME NEW g \in fetches', g.mounted
               PROVE  Mounted(g.panel, ui') /\ g.of = ui'.currentBatchId
    BY DEF FetchesCurrent, Mounted
  <2>1. CASE \E f \in fetches : g = [f EXCEPT !.mounted = @ /\ ~Cleanup(f.panel)]
    <3>1. PICK f \in fetches : g = [f EXCEPT !.mounted = @ /\ ~Cleanup(f.panel)]
      BY <2>1
    <3>2. f \in [panel : Panel, of : Batch, mounted : BOOLEAN] BY DEF TypeOK
    <3>3. g.panel = f.panel /\ g.of = f.of /\ f.mounted /\ ~Cleanup(f.panel)
      BY <3>1, <3>2
    <3> QED BY <3>3 DEF PanelInv, FetchesCurrent, Cleanup
  <2>2. CASE \E p \in Panel : /\ Effect(p)
                             /\ g = [panel |-> p, of |-> ui'.currentBatchId, mounted |-> TRUE]
    BY <2>2 DEF Effect
  <2> QED BY <2>1, <2>2 DEF Render
<1>2. ASSUME NEW p \in Panel, Mounted(p, ui'), ui'.currentBatchId # None,
             ~Fetched(p).loading, ~Fetched(p).error
      PROVE  Fetched(p).of = ui'.currentBatchId
  <2>1. panel[p] \in View BY DEF TypeOK, View
  <2>2. Blank \in View BY DEF Blank, View
  <2>3. ~Effect(p) BY <1>2, <2>1, <2>2 DEF Fetched, View
  <2>4. Mounted(p, ui) /\ ui.currentBatchId = ui'.currentBatchId
    BY <1>2, <2>3 DEF Effect
  <2>5. Fetched(p) = panel[p] BY <1>2, <2>3, <2>4 DEF Fetched
  <2> QED BY <1>2, <2>4, <2>5 DEF PanelInv, PanelsCurrent
<1>3. PanelsCurrent' BY <1>2 DEF Render, PanelsCurrent, Mounted
<1> QED BY <1>1, <1>3

LEMMA ReceiveKeeps ==
  ASSUME TypeOK, PanelInv, Receive
  PROVE  PanelInv'
<1>1. UNCHANGED ui BY DEF Receive
<1>2. PICK f \in fetches : Receive!1!(f)
  BY DEF Receive
<1>3. f \in [panel : Panel, of : Batch, mounted : BOOLEAN] BY DEF TypeOK
<1>4. panel \in [Panel -> View] BY DEF TypeOK, View
<1>5. FetchesCurrent'
  BY <1>1, <1>2 DEF PanelInv, FetchesCurrent, Mounted
<1>6. CASE ~f.mounted
  BY <1>1, <1>2, <1>5, <1>6 DEF Received, PanelInv, OneBatch, PanelsCurrent, Mounted
<1>7. CASE f.mounted /\ panel' = [panel EXCEPT ![f.panel] =
                                     [of |-> f.of, loading |-> FALSE, error |-> FALSE]]
  <2>1. f.of = ui.currentBatchId BY <1>7 DEF PanelInv, FetchesCurrent
  <2>2. PanelsCurrent'
    BY <1>1, <1>3, <1>4, <1>7, <2>1 DEF PanelInv, PanelsCurrent, Mounted
  <2> QED BY <1>1, <1>5, <2>2 DEF PanelInv, OneBatch
<1>8. CASE f.mounted /\ panel' = [panel EXCEPT ![f.panel] =
                            [panel[f.panel] EXCEPT !.loading = FALSE, !.error = TRUE]]
  <2>1. panel'[f.panel].error BY <1>3, <1>4, <1>8 DEF View
  <2>2. \A p \in Panel \ {f.panel} : panel'[p] = panel[p] BY <1>3, <1>4, <1>8
  <2>3. PanelsCurrent'
    BY <1>1, <2>1, <2>2 DEF PanelInv, PanelsCurrent, Mounted
  <2> QED BY <1>1, <1>5, <2>3 DEF PanelInv, OneBatch
<1> QED BY <1>2, <1>6, <1>7, <1>8 DEF Received

\* Page and fetches agree on the batch.
LEMMA PanelsStay == Spec => []PanelInv
<1>1. Init => PanelInv
  BY DEF Init, PanelInv, OneBatch, FetchesCurrent, PanelsCurrent, BlankPage
<1>2. TypeOK /\ PanelInv /\ [Next]_vars => PanelInv'
  <2> SUFFICES ASSUME TypeOK, PanelInv, [Next]_vars PROVE PanelInv'
    OBVIOUS
  <2>1. CASE \E t \in Task : Browser(t)
    BY <2>1, OneBatchKept, RenderKeeps DEF Browser, PanelInv
  <2>2. CASE User
    <3>1. OneBatch' BY <2>2, OneBatchKept DEF User, PanelInv
    <3> QED BY <2>2, <3>1, RenderKeeps DEF User, PanelInv
  <2>3. CASE Receive BY <2>3, ReceiveKeeps
  <2>4. CASE UNCHANGED <<ui, panel, fetches>>
    BY <2>4 DEF PanelInv, OneBatch, FetchesCurrent, PanelsCurrent, Mounted
  <2> QED BY <2>1, <2>2, <2>3, <2>4 DEF Next, Server, Broken, vars
<1> QED BY <1>1, <1>2, DashboardTypeCorrect, PTL DEF Spec

\* The audit trail and the explanation on the page are of the batch on it.
THEOREM PanelsShowTheBatch == Spec => []PanelsMatch
<1>1. PanelInv => PanelsMatch
  BY DEF PanelInv, OneBatch, PanelsCurrent, PanelsMatch
<1> QED BY <1>1, PanelsStay, PTL

-----------------------------------------------------------------------------
(* The calm page.  While nothing fails and handlers run one at a time, the *)
(* one at work knows what the server has, and when none is the page does.  *)

Fresh ==
  /\ ui.batches = stored
  /\ IF stored = {} THEN ui.currentBatchId = None ELSE ui.currentBatchId \in stored
  /\ ~ui.isLoading

\* Where a handler is, and what page and server are like there.
Due(t) ==
  /\ task[t].reply # "failed"
  /\ task[t].step = "list" /\ task[t].reply = "ok" => task[t].list = stored
  /\ task[t].handler = "init" =>
       /\ task[t].step = "list"
       /\ ui.batches = {} /\ ui.currentBatchId = None /\ ~ui.isLoading
  /\ task[t].handler = "load" =>
       task[t].step = "get" /\ task[t].batch \in stored /\ ui.batches = stored
  /\ task[t].handler = "delete" =>
       /\ task[t].step \in {"delete", "list"}
       /\ task[t].seen = ui.currentBatchId /\ ~ui.isLoading
       /\ IF task[t].step = "delete" /\ task[t].reply = "sent"
          THEN task[t].batch \in stored /\ task[t].seen \in stored
          ELSE task[t].seen \in stored \cup {task[t].batch}
  /\ task[t].handler \in {"run", "demo"} =>
       /\ task[t].step \in {"run", "list", "get"}
       /\ (task[t].step = "run" /\ task[t].reply = "sent") \/ task[t].batch \in stored
       /\ task[t].step = "get" => ui.batches = stored
  /\ task[t].handler = "rerun" =>
       /\ task[t].step \in {"rerun", "get", "list"}
       /\ task[t].step = "list" => ui.currentBatchId \in stored
       /\ task[t].step # "list" => task[t].batch \in stored

CalmInv ==
  calm =>
    /\ late = {} /\ ~ui.error
    /\ \A t, u \in Task : Busy(t) /\ Busy(u) => t = u
    /\ \A t \in Task : Busy(t) => Due(t)
    /\ Quiet => Fresh

\* The only handler at work takes a step, or the first one starts.
LEMMA OneHandler ==
  ASSUME TypeOK, CalmInv, calm, NEW t \in Task, Busy(t) \/ Quiet,
         NEW r, task' = [task EXCEPT ![t] = r],
         late' = {}, ~ui'.error,
         r.handler \notin {"unused", "done"} => Due(t)',
         r.handler \in {"unused", "done"} => Fresh'
  PROVE  CalmInv'
<1>1. task'[t] = r /\ \A u \in Task \ {t} : task'[u] = task[u]
  BY DEF TypeOK
<1>2. \A u \in Task \ {t} : ~Busy(u)
  BY DEF CalmInv, Quiet
<1>3. \A u \in Task \ {t} : ~Busy(u)'
  BY <1>1, <1>2 DEF Busy
<1>4. Busy(t)' <=> r.handler \notin {"unused", "done"}
  BY <1>1 DEF Busy
<1> QED BY <1>3, <1>4 DEF CalmInv, Quiet

LEMMA CalmServe ==
  ASSUME TypeOK, CalmInv, calm, NEW t \in Task, Serve(t), UNCHANGED ui
  PROVE  CalmInv'
<1>1. task \in [Task -> Invocation] /\ task[t] \in Invocation /\ ui \in UI
  BY DEF TypeOK, UI
<1>2. Busy(t) /\ task[t].reply = "sent"
  BY DEF Serve, ServeRun, ServeList, ServeGet, ServeDelete, NotFound, Sent
<1>3. Due(t) /\ late = {} /\ ~ui.error
  BY <1>2 DEF CalmInv
<1>4. CASE ServeRun(t)
  <2>1. PICK b \in Batch : /\ Create(task[t].handler, task[t].batch, b)
                           /\ task' = [task EXCEPT ![t].reply = "ok", ![t].batch = b]
    BY <1>4 DEF ServeRun
  <2> DEFINE r == [task[t] EXCEPT !.reply = "ok", !.batch = b]
  <2>2. task' = [task EXCEPT ![t] = r] /\ stored' = stored \cup {b} /\ late' = {}
    BY <1>1, <1>3, <1>4, <2>1 DEF ServeRun, Create
  <2>3. /\ r.handler = task[t].handler /\ r.step = task[t].step /\ r.batch = b
        /\ r.reply = "ok" /\ r.step \in {"run", "rerun"} /\ task'[t] = r
    BY <1>1, <1>4, <2>2 DEF Invocation, ServeRun, Sent
  <2> HIDE DEF r
  <2>4. Due(t)'
    BY <1>3, <2>2, <2>3 DEF Due
  <2> QED BY <1>2, <1>3, <2>2, <2>3, <2>4, OneHandler DEF Busy
<1>5. CASE ServeList(t)
  <2> DEFINE r == [task[t] EXCEPT !.reply = "ok", !.list = stored]
  <2>1. task' = [task EXCEPT ![t] = r] /\ UNCHANGED <<stored, late>>
    BY <1>1, <1>5 DEF ServeList, server
  <2>2. /\ r.handler = task[t].handler /\ r.step = "list" /\ r.batch = task[t].batch
        /\ r.seen = task[t].seen /\ r.reply = "ok" /\ r.list = stored /\ task'[t] = r
    BY <1>1, <1>5, <2>1 DEF Invocation, ServeList, Sent
  <2> HIDE DEF r
  <2>3. Due(t)'
    BY <1>3, <1>5, <2>1, <2>2 DEF Due, ServeList, Sent
  <2> QED BY <1>2, <1>3, <2>1, <2>2, <2>3, OneHandler DEF Busy
<1>6. ASSUME NEW how, Reply(t, how), late' = late
      PROVE  /\ task' = [task EXCEPT ![t] = [task[t] EXCEPT !.reply = how]] /\ late' = {}
             /\ task'[t].handler = task[t].handler /\ task'[t].step = task[t].step
             /\ task'[t].batch = task[t].batch /\ task'[t].seen = task[t].seen
             /\ task'[t].reply = how
             /\ [task[t] EXCEPT !.reply = how].handler = task[t].handler
  BY <1>1, <1>3, <1>6 DEF Reply, Invocation
<1>7. CASE ServeGet(t)
  <2>1. Due(t)'
    BY <1>3, <1>6, <1>7 DEF ServeGet, server, Due, Sent
  <2> QED BY <1>2, <1>3, <1>6, <1>7, <2>1, OneHandler DEF Busy, ServeGet, server
<1>8. CASE ServeDelete(t)
  <2>1. task[t].handler = "delete" /\ stored' = stored \ {task[t].batch}
    BY <1>1, <1>2, <1>3, <1>8
    DEF ServeDelete, Remove, Sent, Due, Busy, Invocation, Handler, Loaders
  <2>2. Due(t)'
    BY <1>2, <1>3, <1>6, <1>8, <2>1 DEF ServeDelete, Due, Sent
  <2> QED BY <1>2, <1>3, <1>6, <1>8, <2>1, <2>2, OneHandler DEF Busy, ServeDelete
<1>9. CASE NotFound(t)
  BY <1>1, <1>2, <1>3, <1>9
  DEF NotFound, Sent, Due, Busy, Invocation, Handler, Loaders
<1> QED BY <1>4, <1>5, <1>7, <1>8, <1>9 DEF Serve

LEMMA CalmResume ==
  ASSUME TypeOK, CalmInv, calm, NEW t \in Task, Resume(t), UNCHANGED <<stored, late>>
  PROVE  CalmInv'
<1> DEFINE listed == [ui EXCEPT !.batches = task[t].list]
<1>1. task \in [Task -> Invocation] /\ task[t] \in Invocation /\ ui \in UI
  BY DEF TypeOK, UI
<1>2. Busy(t)
  BY DEF Resume, Proceed, ShowBatch, Fail, ListForInit, ListForRun, ListForRerun,
         ListForDelete, Answered
<1>3. Due(t) /\ late' = {} /\ ~ui.error
  BY <1>2 DEF CalmInv
<1>4. ASSUME NEW step \in {"list", "get"}, Send(t, step), ~ui'.error, Due(t)'
      PROVE  CalmInv'
  <2> DEFINE r == [task[t] EXCEPT !.step = step, !.reply = "sent"]
  <2>1. task' = [task EXCEPT ![t] = r] /\ r.handler = task[t].handler
    BY <1>1, <1>4 DEF Send, Invocation
  <2> HIDE DEF r
  <2> QED BY <1>2, <1>3, <1>4, <2>1, OneHandler DEF Busy
<1>5. ASSUME NEW step \in {"list", "get"}, Send(t, step)
      PROVE  /\ task'[t].handler = task[t].handler /\ task'[t].batch = task[t].batch
             /\ task'[t].seen = task[t].seen /\ task'[t].step = step
             /\ task'[t].reply = "sent"
  BY <1>1, <1>5 DEF Send, Invocation
<1>6. ASSUME End(t), ~ui'.error, Fresh' PROVE CalmInv'
  BY <1>2, <1>3, <1>6, OneHandler DEF End, Done, Idle
<1>7. ASSUME LoadOne(t, stored), ui'.batches = stored, ~ui'.error PROVE CalmInv'
  <2>1. PICK b \in stored :
          task' = [task EXCEPT ![t] = [Idle EXCEPT !.handler = "load", !.step = "get",
                                                   !.batch = b]]
    BY <1>7 DEF LoadOne
  <2> DEFINE r == [Idle EXCEPT !.handler = "load", !.step = "get", !.batch = b]
  <2>2. /\ task'[t] = r /\ r.handler = "load" /\ r.step = "get" /\ r.batch = b
        /\ r.reply = "sent" /\ task' = [task EXCEPT ![t] = r]
    BY <1>1, <2>1 DEF Idle
  <2> HIDE DEF r
  <2>3. Due(t)' BY <1>7, <2>2 DEF Due
  <2> QED BY <1>2, <1>3, <1>7, <2>2, <2>3, OneHandler
<1>8. CASE Proceed(t)
  <2>1. CASE (Answered(t, "run") \/ Answered(t, "delete")) /\ Send(t, "list") /\ UNCHANGED ui
    <3>1. Due(t)' BY <1>3, <1>5, <2>1 DEF Due, Answered
    <3> QED BY <1>3, <1>4, <2>1, <3>1
  <2>2. CASE Answered(t, "rerun") /\ Send(t, "get") /\ UNCHANGED ui
    <3>1. Due(t)' BY <1>3, <1>5, <2>2 DEF Due, Answered
    <3> QED BY <1>3, <1>4, <2>2, <3>1
  <2> QED BY <1>8, <2>1, <2>2 DEF Proceed
<1>9. CASE ShowBatch(t)
  <2>1. Answered(t, "get") BY <1>9 DEF ShowBatch
  <2>2. task[t].handler \in Loaders /\ task[t].batch \in stored
    BY <1>1, <1>2, <1>3, <2>1
    DEF Due, Answered, Busy, Invocation, Handler, Loaders
  <2>3. CASE task[t].handler = "rerun"
    <3>1. Send(t, "list") /\ ui' = Show(ui, task[t].batch) BY <1>9, <2>3 DEF ShowBatch
    <3>2. ui'.currentBatchId = task[t].batch /\ ~ui'.error
      BY <1>1, <1>3, <3>1 DEF Show, UI
    <3>3. Due(t)' BY <1>5, <2>2, <2>3, <3>1, <3>2 DEF Due
    <3> QED BY <1>4, <3>1, <3>2, <3>3
  <2>4. CASE task[t].handler # "rerun"
    <3>1. ui.batches = stored BY <1>3, <2>1, <2>2, <2>4 DEF Due, Answered, Loaders
    <3> DEFINE shown == Show(ui, task[t].batch)
    <3>2. /\ shown \in UI /\ shown.batches = stored /\ ~shown.error
          /\ shown.currentBatchId = task[t].batch
      BY <1>1, <1>3, <2>2, <3>1 DEF Show, UI, TypeOK
    <3>3. End(t) /\ \E tab : ui' = [shown EXCEPT !.isLoading = FALSE, !.activeTab = tab]
      BY <1>9, <2>4 DEF ShowBatch
    <3> HIDE DEF shown
    <3>4. Fresh' /\ ~ui'.error BY <2>2, <3>2, <3>3 DEF Fresh, UI
    <3> QED BY <1>6, <3>3, <3>4
  <2> QED BY <2>3, <2>4
<1>10. CASE Fail(t) BY <1>3, <1>10 DEF Fail, Due
<1>11. ASSUME Answered(t, "list")
       PROVE  /\ task[t].list = stored /\ listed \in UI /\ listed.batches = stored
              /\ listed.currentBatchId = ui.currentBatchId /\ ~listed.error
              /\ listed.isLoading = ui.isLoading
  <2>1. task[t].list = stored BY <1>3, <1>11 DEF Due, Answered
  <2> QED BY <1>1, <1>3, <2>1 DEF UI, TypeOK
<1>12. CASE ListForInit(t)
  <2>1. CASE stored = {}
    <3>1. End(t) /\ UNCHANGED ui BY <1>11, <1>12, <2>1 DEF ListForInit
    <3>2. Fresh' BY <1>3, <1>12, <2>1, <3>1 DEF ListForInit, Due, Fresh
    <3> QED BY <1>3, <1>6, <3>1, <3>2
  <2>2. CASE stored # {}
    <3>1. LoadOne(t, stored) /\ ui' = Loading(listed)
      BY <1>11, <1>12, <2>2 DEF ListForInit
    <3>2. ui'.batches = stored /\ ~ui'.error
      BY <1>11, <1>12, <3>1 DEF ListForInit, Loading, UI
    <3> QED BY <1>7, <3>1, <3>2
  <2> QED BY <2>1, <2>2
<1>13. CASE ListForRun(t)
  <2>1. Send(t, "get") /\ ui' = Loading(listed) BY <1>13 DEF ListForRun
  <2>2. ui'.batches = stored /\ ~ui'.error
    BY <1>11, <1>13, <2>1 DEF ListForRun, Loading, UI
  <2>3. Due(t)' BY <1>3, <1>5, <1>13, <2>1, <2>2 DEF Due, ListForRun, Answered
  <2> QED BY <1>4, <2>1, <2>2, <2>3
<1>14. CASE ListForRerun(t)
  <2>1. End(t) /\ ui.currentBatchId \in stored
    BY <1>3, <1>14 DEF ListForRerun, Due, Answered
  <2>2. Fresh' /\ ~ui'.error
    <3>1. ui' = [listed EXCEPT !.isLoading = FALSE] BY <1>1, <1>14 DEF ListForRerun, UI
    <3>2. /\ listed \in UI /\ listed.batches = stored /\ ~listed.error
          /\ listed.currentBatchId = ui.currentBatchId
      BY <1>11, <1>14 DEF ListForRerun
    <3> HIDE DEF listed
    <3> QED BY <2>1, <3>1, <3>2 DEF Fresh, UI
  <2> QED BY <1>6, <2>1, <2>2
<1>15. CASE ListForDelete(t)
  <2>1. Answered(t, "list") /\ task[t].handler = "delete" BY <1>15 DEF ListForDelete
  <2>2. /\ task[t].seen = ui.currentBatchId /\ ~ui.isLoading
        /\ task[t].seen \in stored \cup {task[t].batch}
    BY <1>3, <2>1 DEF Due, Answered
  <2>3. CASE task[t].seen # task[t].batch
    <3>1. End(t) /\ ui' = listed BY <1>15, <2>3 DEF ListForDelete
    <3>2. Fresh' /\ ~ui'.error BY <1>11, <2>1, <2>2, <2>3, <3>1 DEF Fresh
    <3> QED BY <1>6, <3>1, <3>2
  <2> DEFINE cleared == Show(listed, None)
  <2>4. /\ cleared \in UI /\ cleared.batches = stored /\ cleared.currentBatchId = None
        /\ ~cleared.error /\ ~cleared.isLoading
    <3>1. listed \in UI /\ listed.batches = stored /\ ~listed.error /\ ~listed.isLoading
      BY <1>11, <2>1, <2>2
    <3> HIDE DEF listed
    <3> QED BY <3>1, ShowTyped DEF Show, UI
  <2>5. CASE task[t].seen = task[t].batch /\ stored = {}
    <3>1. End(t) /\ ui' = cleared BY <1>11, <1>15, <2>1, <2>5 DEF ListForDelete
    <3> HIDE DEF cleared
    <3>2. Fresh' /\ ~ui'.error BY <2>4, <2>5, <3>1 DEF Fresh
    <3> QED BY <1>6, <3>1, <3>2
  <2>6. CASE task[t].seen = task[t].batch /\ stored # {}
    <3>1. LoadOne(t, stored) /\ ui' = Loading(cleared)
      BY <1>11, <1>15, <2>1, <2>6 DEF ListForDelete
    <3> HIDE DEF cleared
    <3>2. ui'.batches = stored /\ ~ui'.error BY <2>4, <3>1 DEF Loading, UI
    <3> QED BY <1>7, <3>1, <3>2
  <2> QED BY <2>3, <2>5, <2>6
<1> QED BY <1>8, <1>9, <1>10, <1>12, <1>13, <1>14, <1>15 DEF Resume

LEMMA CalmUser ==
  ASSUME TypeOK, CalmInv, User
  PROVE  CalmInv'
<1>1. task \in [Task -> Invocation] /\ ui \in UI BY DEF TypeOK, UI
<1>2. UNCHANGED <<stored, late>> BY DEF User, server
<1>3. CASE Browse
  <2>1. ui'.batches = ui.batches /\ ui'.currentBatchId = ui.currentBatchId
        /\ ui'.isLoading = ui.isLoading /\ (~ui.error => ~ui'.error)
    BY <1>1, <1>3 DEF Browse, UI
  <2>2. UNCHANGED <<task, calm>> BY <1>3 DEF Browse
  <2> QED BY <1>2, <2>1, <2>2 DEF CalmInv, Quiet, Busy, Due, Fresh
<1>4. ASSUME NEW t \in Task, Click(t), calm' PROVE CalmInv'
  <2>1. calm /\ Quiet /\ Fresh /\ late' = {} /\ ~ui.error
    BY <1>2, <1>4 DEF Click, CalmInv
  <2>2. ASSUME NEW handler \in {"load", "delete", "demo", "run", "rerun"},
               NEW step \in {"get", "delete", "run", "rerun"}, NEW b,
               Begin(t, handler, step, b)
        PROVE  /\ \E r : /\ task' = [task EXCEPT ![t] = r]
                         /\ r.handler \notin {"unused", "done"}
               /\ task'[t].handler = handler /\ task'[t].step = step
               /\ task'[t].batch = b /\ task'[t].seen = ui.currentBatchId
               /\ task'[t].reply = "sent"
    <3> DEFINE r == [Idle EXCEPT !.handler = handler, !.step = step,
                                 !.batch = b, !.seen = ui.currentBatchId]
    <3>1. task' = [task EXCEPT ![t] = r] BY <2>2 DEF Begin
    <3>2. /\ r.handler = handler /\ r.step = step /\ r.batch = b
          /\ r.seen = ui.currentBatchId /\ r.reply = "sent"
      BY DEF Idle
    <3> HIDE DEF r
    <3> QED BY <1>1, <3>1, <3>2
  <2>3. Loading(ui).batches = ui.batches /\ ~Loading(ui).error
    BY <1>1 DEF Loading, UI
  <2>4. ASSUME Due(t)', ~ui'.error,
               NEW r, task' = [task EXCEPT ![t] = r], r.handler \notin {"unused", "done"}
        PROVE  CalmInv'
    BY <2>1, <2>4, OneHandler
  <2>5. CASE Select(t)
    <3>1. PICK b \in ui.batches : Begin(t, "load", "get", b) BY <2>5 DEF Select
    <3>2. Due(t)' BY <1>2, <2>1, <2>2, <2>3, <2>5, <3>1 DEF Due, Select, Fresh
    <3> QED BY <2>2, <2>3, <2>4, <2>5, <3>1, <3>2 DEF Select
  <2>6. CASE handleDeleteBatch(t)
    <3>1. PICK b \in ui.batches : Begin(t, "delete", "delete", b)
      BY <2>6 DEF handleDeleteBatch
    <3>2. Due(t)' BY <1>2, <2>1, <2>2, <2>6, <3>1 DEF Due, handleDeleteBatch, Fresh
    <3> QED BY <2>1, <2>2, <2>4, <2>6, <3>1, <3>2 DEF handleDeleteBatch
  <2>7. CASE handleLoadDemo(t)
    <3>1. CASE \E b \in ui.batches : Begin(t, "load", "get", b)
      <4>1. PICK b \in ui.batches : Begin(t, "load", "get", b) BY <3>1
      <4>2. Due(t)' BY <1>2, <2>1, <2>2, <2>3, <2>7, <4>1 DEF Due, handleLoadDemo, Fresh
      <4> QED BY <2>2, <2>3, <2>4, <2>7, <4>1, <4>2 DEF handleLoadDemo
    <3>2. CASE Begin(t, "demo", "run", None)
      <4>1. Due(t)' BY <2>2, <3>2 DEF Due
      <4> QED BY <2>2, <2>3, <2>4, <2>7, <3>2, <4>1 DEF handleLoadDemo
    <3> QED BY <2>7, <3>1, <3>2 DEF handleLoadDemo
  <2>8. CASE handleRunConfiguredBatch(t)
    <3>1. Due(t)' BY <2>2, <2>8 DEF Due, handleRunConfiguredBatch
    <3> QED BY <2>2, <2>3, <2>4, <2>8, <3>1 DEF handleRunConfiguredBatch
  <2>9. CASE handleExecute(t)
    <3>1. Due(t)' BY <1>2, <2>1, <2>2, <2>9 DEF Due, handleExecute, Fresh
    <3> QED BY <2>2, <2>3, <2>4, <2>9, <3>1 DEF handleExecute
  <2> QED BY <1>4, <2>5, <2>6, <2>7, <2>8, <2>9 DEF Click
<1>5. CASE ~calm' BY <1>5 DEF CalmInv
<1> QED BY <1>3, <1>4, <1>5 DEF User

LEMMA CalmNext ==
  ASSUME TypeOK, CalmInv, [Next]_vars
  PROVE  CalmInv'
<1> USE DEF server
<1>1. CASE \E t \in Task : Browser(t)
  BY <1>1, CalmResume DEF Browser, CalmInv
<1>2. CASE \E t \in Task : Server(t)
  BY <1>2, CalmServe DEF Server, CalmInv
<1>3. CASE \E t \in Task : Broken(t)
  BY <1>3 DEF Broken, CalmInv
<1>4. CASE User BY <1>4, CalmUser
<1>5. CASE ServeLate /\ UNCHANGED <<ui, panel, fetches, crashed, calm>>
  BY <1>5 DEF ServeLate, CalmInv
<1>6. CASE UNCHANGED <<task, ui, stored, late, calm>>
  BY <1>6 DEF CalmInv, Quiet, Busy, Due, Fresh
<1> QED BY <1>1, <1>2, <1>3, <1>4, <1>5, <1>6 DEF Next, Receive, vars

\* To a user who waits for each handler to end, while nothing fails, the page
\* shows the batches there are, one of them if there is any, and no spinner
\* and no error.
THEOREM QuietIsFresh == Spec => []QuietMeansFresh
<1>1. Init => CalmInv
  <2> SUFFICES ASSUME Init PROVE CalmInv OBVIOUS
  <2>1. PICK t \in Task :
          task = [x \in Task |-> IF x = t THEN [Idle EXCEPT !.handler = "init"] ELSE Idle]
    BY DEF Init
  <2>2. \A u \in Task \ {t} : ~Busy(u) BY <2>1 DEF Busy, Idle
  <2>3. Busy(t) /\ Due(t) BY <2>1 DEF Busy, Due, Idle, Init, BlankPage
  <2> QED BY <2>2, <2>3 DEF Init, BlankPage, CalmInv, Quiet
<1>2. TypeOK /\ CalmInv /\ [Next]_vars => CalmInv' BY CalmNext
<1>3. PanelInv /\ CalmInv => QuietMeansFresh
  BY DEF PanelInv, OneBatch, CalmInv, Fresh, QuietMeansFresh
<1> QED BY <1>1, <1>2, <1>3, PanelsStay, DashboardTypeCorrect, PTL DEF Spec

=============================================================================
