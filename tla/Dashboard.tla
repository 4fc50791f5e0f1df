------------------------------ MODULE Dashboard ------------------------------
(***************************************************************************)
(* The browser dashboard (frontend/src/App.tsx).  Its handlers are         *)
(* asynchronous: each sends requests one after the other, other handlers   *)
(* run while it waits, and answers come in any order or not at all.  Every *)
(* resumption of a handler is one commit of React's (version 18 batches    *)
(* the updates made between two awaits), and the effects of a commit on    *)
(* the mounted views are part of the step.                                 *)
(*                                                                         *)
(* A batch's data is its id: a stored batch never changes, re-runs get an  *)
(* id of their own.  The server answers a request in one step here         *)
(* (BatchStore has the detail) and this dashboard is its only client.  The *)
(* order of the list of batches is left open.                              *)
(***************************************************************************)
EXTENDS Naturals, FiniteSets

CONSTANTS
  Task,      \* invocations of handlers
  Batch,     \* identifiers of the batches there may be
  DemoBatch, \* those with the 370 transactions of the demo split
  MaxFetches, \* bound: fetches in flight when a view is opened
  None

ASSUME DashboardAssumption == None \notin Batch /\ DemoBatch \subseteq Batch
                              /\ MaxFetches \in Nat

VARIABLES
  stored,   \* batches on the server
  created,  \* ids it has given out
  late,     \* requests the client gave up, still on their way
  task,     \* handler invocations
  ui,       \* the state of App
  panel,    \* the state of the views that fetch for themselves
  fetches,  \* their requests
  crashed,  \* React has unmounted the page after an error in a render
  calm      \* nothing failed and no two handlers ran at a time

server == <<stored, created, late>>
vars == <<server, task, ui, panel, fetches, crashed, calm>>

Tab == {"overview", "execution", "plan", "audit"}
Panel == {"audit", "explain"}
Step == {"list", "get", "run", "rerun", "delete"}

\* Handlers, and loadBatchById when nothing of its caller is left to do.
Loaders == {"load", "demo", "run", "rerun"}
Handler == Loaders \cup {"unused", "init", "delete", "done"}

Idle == [handler |-> "unused", step |-> "list", batch |-> None, seen |-> None,
         reply |-> "sent", list |-> {}]
Done == [Idle EXCEPT !.handler = "done"]
Invocation ==
  [handler : Handler, step : Step,
   batch : Batch \cup {None},          \* the batch it is about
   seen : Batch \cup {None},           \* currentBatchId in its closure
   reply : {"sent", "ok", "failed"}, list : SUBSET Batch]

Busy(t) == task[t].handler \notin {"unused", "done"}
Quiet == \A t \in Task : ~Busy(t)

BlankPage == [batches |-> {}, currentBatchId |-> None, currentBatch |-> None,
              activeTab |-> "overview", isLoading |-> FALSE, error |-> FALSE,
              explaining |-> FALSE]
Blank == [of |-> None, loading |-> FALSE, error |-> FALSE]

\* The mount effect of App has asked for the list.
Init ==
  /\ stored \in SUBSET Batch /\ created = stored /\ late = {}
  /\ \E t \in Task : task = [x \in Task |-> IF x = t THEN [Idle EXCEPT !.handler = "init"] ELSE Idle]
  /\ ui = BlankPage
  /\ panel = [p \in Panel |-> Blank]
  /\ fetches = {}
  /\ crashed = FALSE /\ calm = TRUE

-----------------------------------------------------------------------------
(* The server.                                                             *)

Sent(t, step) == Busy(t) /\ task[t].step = step /\ task[t].reply = "sent"
Reply(t, how) == task' = [task EXCEPT ![t].reply = how]

\* Fault: an id is given out again.
CreateAgain(handler, of, b) ==
  /\ stored' = stored \cup {b}
  /\ UNCHANGED created

\* The transactions of a re-run are those of the batch it re-runs.
Create(handler, of, b) ==
  /\ b \notin created
  /\ handler = "demo" => b \in DemoBatch
  /\ handler = "rerun" => of \in stored /\ (b \in DemoBatch <=> of \in DemoBatch)
  /\ created' = created \cup {b}
  /\ stored' = stored \cup {b}

Remove(b) ==
  /\ b \in stored
  /\ stored' = stored \ {b}
  /\ UNCHANGED created

ServeRun(t) ==
  /\ Sent(t, "run") \/ Sent(t, "rerun")
  /\ \E b \in Batch :
       /\ Create(task[t].handler, task[t].batch, b)
       /\ task' = [task EXCEPT ![t].reply = "ok", ![t].batch = b]
  /\ UNCHANGED late

ServeList(t) ==
  /\ Sent(t, "list")
  /\ task' = [task EXCEPT ![t].reply = "ok", ![t].list = stored]
  /\ UNCHANGED server

ServeGet(t) ==
  /\ Sent(t, "get") /\ task[t].batch \in stored
  /\ Reply(t, "ok")
  /\ UNCHANGED server

ServeDelete(t) ==
  /\ Sent(t, "delete") /\ Remove(task[t].batch)
  /\ Reply(t, "ok")
  /\ UNCHANGED late

NotFound(t) ==
  /\ \E step \in {"get", "rerun", "delete"} : Sent(t, step)
  /\ task[t].batch \notin stored
  /\ Reply(t, "failed")
  /\ UNCHANGED server

Serve(t) ==
  ServeRun(t) \/ ServeList(t) \/ ServeGet(t) \/ ServeDelete(t) \/ NotFound(t)

\* The server refuses, the 45 seconds are over or the connection breaks: the
\* client sees an error whether or not the server does what it was asked to.
Lose(t) ==
  /\ Busy(t) /\ task[t].reply # "failed"
  /\ Reply(t, "failed")
  /\ \/ UNCHANGED late
     \/ /\ task[t].reply = "sent" /\ task[t].step \in {"run", "rerun", "delete"}
        /\ late' = late \cup {[handler |-> task[t].handler, batch |-> task[t].batch]}
  /\ UNCHANGED <<stored, created>>

ServeLate ==
  /\ \E r \in late :
       /\ late' = late \ {r}
       /\ \/ r.handler = "delete" /\ Remove(r.batch)
          \/ r.handler # "delete" /\ \E b \in Batch : Create(r.handler, r.batch, b)
  /\ UNCHANGED task

-----------------------------------------------------------------------------
(* What the user does.                                                     *)

Loading(u) == [u EXCEPT !.isLoading = TRUE, !.error = FALSE]

Begin(t, handler, step, b) ==
  /\ task[t].handler = "unused"
  /\ task' = [task EXCEPT ![t] = [Idle EXCEPT !.handler = handler, !.step = step,
                                              !.batch = b, !.seen = ui.currentBatchId]]

\* The batch menu of the Navbar.
Select(t) ==
  /\ \E b \in ui.batches : Begin(t, "load", "get", b)
  /\ ui' = Loading(ui)

handleDeleteBatch(t) ==
  /\ \E b \in ui.batches : Begin(t, "delete", "delete", b)
  /\ ui' = ui

\* The buttons below are disabled while the page is loading.
handleLoadDemo(t) ==
  /\ ~ui.isLoading
  /\ IF ui.batches \cap DemoBatch # {}
     THEN \E b \in ui.batches \cap DemoBatch : Begin(t, "load", "get", b)
     ELSE Begin(t, "demo", "run", None)
  /\ ui' = Loading(ui)

\* A data set's split or a CSV file.
handleRunConfiguredBatch(t) ==
  /\ ~ui.isLoading
  /\ Begin(t, "run", "run", None)
  /\ ui' = Loading(ui)

\* "Re-run Comparison" and "Run Simulation".
handleExecute(t) ==
  /\ ~ui.isLoading /\ ui.activeTab = "execution"
  /\ ui.currentBatch # None /\ ui.currentBatchId # None
  /\ Begin(t, "rerun", "rerun", ui.currentBatchId)
  /\ ui' = Loading(ui)

Click(t) ==
  /\ \/ Select(t) \/ handleDeleteBatch(t) \/ handleLoadDemo(t)
     \/ handleRunConfiguredBatch(t) \/ handleExecute(t)
  /\ calm' = (calm /\ Quiet)

\* The views that send requests of their own.
Mounted(p, u) ==
  CASE p = "audit" -> ~u.isLoading /\ u.activeTab = "audit"
    [] p = "explain" -> u.explaining /\ u.currentBatchId # None

\* The tabs, "Explain" in the plan, closing the explanation, the error.
Browse ==
  /\ \/ \E tab \in Tab \ {ui.activeTab} :
        /\ tab = "audit" => Cardinality(fetches) < MaxFetches
        /\ ui' = [ui EXCEPT !.activeTab = tab]
     \/ /\ Cardinality(fetches) < MaxFetches
        /\ ui.activeTab = "plan" /\ ~ui.isLoading /\ ui.currentBatch # None
        /\ ~ui.explaining
        /\ ui' = [ui EXCEPT !.explaining = TRUE]
     \/ Mounted("explain", ui) /\ ui' = [ui EXCEPT !.explaining = FALSE]
     \/ ui.error /\ ui' = [ui EXCEPT !.error = FALSE]
  /\ UNCHANGED <<task, calm>>

-----------------------------------------------------------------------------
(* Handlers resume when their request is answered.                         *)

Answered(t, step) == Busy(t) /\ task[t].step = step /\ task[t].reply = "ok"
Send(t, step) == task' = [task EXCEPT ![t].step = step, ![t].reply = "sent"]
End(t) == task' = [task EXCEPT ![t] = Done]

Show(u, b) == [u EXCEPT !.currentBatchId = b, !.currentBatch = b]
LoadOne(t, list) ==
  \E b \in list :
    task' = [task EXCEPT ![t] = [Idle EXCEPT !.handler = "load", !.step = "get", !.batch = b]]

\* The list is asked for whatever became of the current batch.
Proceed(t) ==
  \/ (Answered(t, "run") \/ Answered(t, "delete")) /\ Send(t, "list") /\ UNCHANGED ui
  \/ Answered(t, "rerun") /\ Send(t, "get") /\ UNCHANGED ui

ShowBatch(t) ==
  /\ Answered(t, "get")
  /\ IF task[t].handler = "rerun"
     THEN Send(t, "list") /\ ui' = Show(ui, task[t].batch)
     ELSE /\ End(t)
          /\ ui' = [Show(ui, task[t].batch) EXCEPT !.isLoading = FALSE,
                      !.activeTab = IF task[t].handler = "run" THEN "overview" ELSE @]

ListForInit(t) ==
  /\ Answered(t, "list") /\ task[t].handler = "init"
  /\ IF task[t].list = {} THEN End(t) /\ UNCHANGED ui
     ELSE /\ LoadOne(t, task[t].list)
          /\ ui' = Loading([ui EXCEPT !.batches = task[t].list])

ListForRun(t) ==
  /\ Answered(t, "list") /\ task[t].handler \in {"run", "demo"}
  /\ Send(t, "get")
  /\ ui' = Loading([ui EXCEPT !.batches = task[t].list])

\* Fault: no "finally".
ListForRerunOnly(t) ==
  /\ Answered(t, "list") /\ task[t].handler = "rerun"
  /\ End(t)
  /\ ui' = [ui EXCEPT !.batches = task[t].list]

ListForRerun(t) ==
  /\ Answered(t, "list") /\ task[t].handler = "rerun"
  /\ End(t)
  /\ ui' = [ui EXCEPT !.batches = task[t].list, !.isLoading = FALSE]

\* Fault: the batch on the page is not looked at.
ListForDeleteOnly(t) ==
  /\ Answered(t, "list") /\ task[t].handler = "delete"
  /\ End(t)
  /\ ui' = [ui EXCEPT !.batches = task[t].list]

ListForDelete(t) ==
  /\ Answered(t, "list") /\ task[t].handler = "delete"
  /\ LET listed == [ui EXCEPT !.batches = task[t].list]
     IN IF task[t].seen # task[t].batch THEN End(t) /\ ui' = listed
        ELSE IF task[t].list = {} THEN End(t) /\ ui' = Show(listed, None)
        ELSE LoadOne(t, task[t].list) /\ ui' = Loading(Show(listed, None))

\* Fault: an error leaves the spinner.
FailLoading(t) ==
  /\ Busy(t) /\ task[t].reply = "failed"
  /\ End(t)
  /\ ui' = [ui EXCEPT !.error = TRUE]

\* Only the mount effect ignores what fails (Promise.allSettled).
Fail(t) ==
  /\ Busy(t) /\ task[t].reply = "failed"
  /\ End(t)
  /\ ui' = IF task[t].handler = "init" THEN ui
           ELSE [ui EXCEPT !.error = TRUE,
                   !.isLoading = IF task[t].handler \in Loaders THEN FALSE ELSE @,
                   !.activeTab = IF task[t].handler = "run" /\ task[t].step = "get"
                                 THEN "overview" ELSE @]

Resume(t) ==
  \/ Proceed(t) \/ ShowBatch(t) \/ Fail(t)
  \/ ListForInit(t) \/ ListForRun(t) \/ ListForRerun(t) \/ ListForDelete(t)

-----------------------------------------------------------------------------
(* The views that depend on the new state of App.                          *)

\* RecoveryPlanView calls useMemo only after "if (!batch) return": a batch
\* that comes or goes while it is mounted changes the number of its hooks,
\* which React answers with an error that no boundary catches.
PlanMounted(u) == ~u.isLoading /\ u.activeTab = "plan"
Crashes ==
  /\ PlanMounted(ui) /\ PlanMounted(ui')
  /\ (ui.currentBatch = None) # (ui'.currentBatch = None)

\* The effect of AuditTrailView and DecisionExplanationModal: cleaned up and
\* run again whenever the batch is another one.
Effect(p) ==
  Mounted(p, ui') /\ (Mounted(p, ui) => ui.currentBatchId # ui'.currentBatchId)
Cleanup(p) ==
  Mounted(p, ui) /\ (Mounted(p, ui') => ui.currentBatchId # ui'.currentBatchId)

Fetched(p) ==
  LET old == IF Mounted(p, ui) THEN panel[p] ELSE Blank
  IN IF ~Mounted(p, ui') THEN Blank
     ELSE IF Effect(p) /\ ui'.currentBatchId # None
     THEN [old EXCEPT !.loading = TRUE, !.error = FALSE]
     ELSE old

Render ==
  /\ crashed' = Crashes
  /\ panel' = [p \in Panel |-> Fetched(p)]
  /\ fetches' = {[f EXCEPT !.mounted = @ /\ ~Cleanup(f.panel)] : f \in fetches}
                \cup {[panel |-> p, of |-> ui'.currentBatchId, mounted |-> TRUE] :
                        p \in {q \in Panel : Effect(q) /\ ui'.currentBatchId # None}}

\* Fault: no "if (mounted)".
ReceivedAnyway(f, content) == [panel EXCEPT ![f.panel] = content]

\* An answer for an effect that was cleaned up is dropped.
Received(f, content) ==
  IF f.mounted THEN [panel EXCEPT ![f.panel] = content] ELSE panel

\* Another batch may lack the transaction to be explained.
Receive ==
  /\ \E f \in fetches :
       /\ fetches' = fetches \ {f}
       /\ \/ /\ f.of \in stored
             /\ panel' = Received(f, [of |-> f.of, loading |-> FALSE, error |-> FALSE])
          \/ panel' = Received(f, [panel[f.panel] EXCEPT !.loading = FALSE, !.error = TRUE])
  /\ UNCHANGED <<task, ui>>

-----------------------------------------------------------------------------
Browser(t) == ~crashed /\ Resume(t) /\ Render /\ UNCHANGED <<server, calm>>
Server(t) == Serve(t) /\ UNCHANGED <<ui, panel, fetches, crashed, calm>>
Broken(t) == Lose(t) /\ calm' = FALSE /\ UNCHANGED <<ui, panel, fetches, crashed>>

User ==
  /\ ~crashed
  /\ Browse \/ \E t \in Task : Click(t)
  /\ Render /\ UNCHANGED server

Next ==
  \/ \E t \in Task : Browser(t) \/ Server(t) \/ Broken(t)
  \/ User
  \/ ~crashed /\ Receive /\ UNCHANGED <<server, crashed, calm>>
  \/ ServeLate /\ UNCHANGED <<ui, panel, fetches, crashed, calm>>

(* A request ends, with an answer or after 45 seconds with an error, and   *)
(* then the handler that waits for it goes on.                             *)
Ends(t) == task[t].reply = "sent" /\ (Server(t) \/ Broken(t))
Spec ==
  /\ Init /\ [][Next]_vars
  /\ \A t \in Task : WF_vars(Browser(t)) /\ WF_vars(Ends(t))

-----------------------------------------------------------------------------
(* Properties.                                                             *)

TypeOK ==
  /\ stored \subseteq created /\ created \subseteq Batch
  /\ late \subseteq [handler : Handler, batch : Batch \cup {None}]
  /\ task \in [Task -> Invocation]
  /\ ui \in [batches : SUBSET Batch, currentBatchId : Batch \cup {None},
             currentBatch : Batch \cup {None}, activeTab : Tab, isLoading : BOOLEAN,
             error : BOOLEAN, explaining : BOOLEAN]
  /\ panel \in [Panel -> [of : Batch \cup {None}, loading : BOOLEAN, error : BOOLEAN]]
  /\ fetches \subseteq [panel : Panel, of : Batch, mounted : BOOLEAN]
  /\ crashed \in BOOLEAN /\ calm \in BOOLEAN

\* The page shows its spinner, which hides every view and disables the
\* buttons, only while a handler is at work that will take it away: an error,
\* a lost answer or a batch that is gone never leaves it behind (App.tsx).
SpinnerHasCause ==
  ui.isLoading => \E t \in Task : Busy(t) /\ task[t].handler \in Loaders

\* A view that shows what it fetched for itself, without an error, shows it of
\* the batch that the other views show, in whatever order the answers came
\* and batches changed (AuditTrailView.tsx, DecisionExplanationModal.tsx).
PanelsMatch ==
  \A p \in Panel :
    Mounted(p, ui) /\ ui.currentBatchId # None /\ ~panel[p].loading /\ ~panel[p].error
      => panel[p].of = ui.currentBatch

\* To a user who waits for each handler to end, while nothing fails, the page
\* shows what there is: the batches stored, one of them if there is any, no
\* spinner and no error.
QuietMeansFresh ==
  calm /\ Quiet =>
    /\ ui.batches = stored
    /\ IF stored = {} THEN ui.currentBatchId = None ELSE ui.currentBatchId \in stored
    /\ ui.currentBatch = ui.currentBatchId
    /\ ~ui.isLoading /\ ~ui.error

\* The spinner goes away, whatever is lost and whatever else the user starts,
\* unless the page itself is gone.
SpinnerEnds == ui.isLoading ~> (~ui.isLoading \/ crashed)

\* Every view has a text for the time when there is no batch ("No batch
\* loaded."): a batch that comes or goes never takes the page down.
NeverCrashes == ~crashed
=============================================================================
