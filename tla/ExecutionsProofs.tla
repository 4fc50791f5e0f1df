--------------------------- MODULE ExecutionsProofs ---------------------------
(* Theorems about Executions, for any executions, connections, requests,   *)
(* jobs and schemas.                                                       *)
EXTENDS Executions, TLAPS

(* What a transition may make of a row.                                    *)
Moves(a, b) ==
  \E target \in State :
    /\ target \in AllowedTransitions[a.state]
    /\ target = "EXECUTING" => a.met = Flag
    /\ b.state = target /\ b.met = a.met \cup SetsFlag(target)
    /\ b.key = a.key /\ b.job = a.job /\ b.txn = a.txn

(* The inductive invariant: what a session knows of the row it works on.   *)
Creating(s) == pc[s] # "idle" /\ call[s].request # None
Inserted(s) == pc[s] = "commit" /\ call[s].request # None
Holds(s) == pc[s] \in {"locked", "commit"}

CallOf(s) ==
  /\ pc[s] = "idle" => call[s] = None
  /\ pc[s] # "idle" => call[s] \in Call
  /\ pc[s] = "insert" => call[s].request # None /\ row[call[s].x] = None
  /\ pc[s] \in {"lock", "locked"} => call[s].request = None

DraftOf(s) ==
  /\ pc[s] = "locked" => row[call[s].x] \in Row /\ draft[s] = row[call[s].x]
  /\ Inserted(s) =>
       row[call[s].x] = None /\ draft[s] = Planned(call[s].request)
  /\ (pc[s] = "commit" /\ call[s].request = None) =>
       /\ row[call[s].x] \in Row /\ draft[s] \in Row
       /\ Moves(row[call[s].x], draft[s])

Apart(s, o) ==
  /\ Holds(s) /\ Holds(o) => call[s].x # call[o].x
  /\ Creating(s) /\ Creating(o) => call[s].x # call[o].x
  /\ Inserted(s) /\ Inserted(o) => ~Clash(draft[s], draft[o])

Unclashing(s) ==
  Inserted(s) => \A x \in Execution : row[x] # None => ~Clash(row[x], draft[s])

Cleared(r) ==
  /\ "policy_allowed" \in r.met => "policy_allowed" \in schema.defaults
  /\ r.state \in {"PLANNED", "AUTHORIZED"} /\ "resources_reserved" \in r.met =>
       "resources_reserved" \in schema.defaults
  /\ r.state \in {"EXECUTING", "SUCCEEDED", "FAILED"} =>
       /\ "authorized" \in r.met
       /\ {"policy_allowed", "resources_reserved"} \subseteq schema.defaults

Inv ==
  /\ TypeOK
  /\ \A s \in Session : CallOf(s) /\ DraftOf(s) /\ Unclashing(s)
  /\ \A s, o \in Session : s # o => Apart(s, o)
  /\ OneExecutionPerRequest
  /\ \A x \in Execution : row[x] # None => Cleared(row[x])

-----------------------------------------------------------------------------
(* Rows.                                                                   *)

LEMMA States ==
  /\ State = {"PLANNED", "AUTHORIZED", "EXECUTING", "SUCCEEDED", "FAILED", "BLOCKED",
              "CANCELLED"}
  /\ Flag = {"policy_allowed", "authorized", "resources_reserved"}
  /\ AllowedTransitions =
       [from \in State |->
          CASE from = "PLANNED" -> {"AUTHORIZED", "BLOCKED", "CANCELLED"}
            [] from = "AUTHORIZED" -> {"EXECUTING", "BLOCKED", "CANCELLED"}
            [] from = "EXECUTING" -> {"SUCCEEDED", "FAILED", "BLOCKED"}
            [] OTHER -> {}]
BY DEF State, Flag, AllowedTransitions, Machine!State, Machine!Precondition,
       Machine!AllowedTransitions

LEMMA NoneIsNothing ==
  /\ \A r \in Row : r # None
  /\ \A r \in Requests : r # None
  /\ \A c \in Call : c # None
BY ExecutionsAssumption

LEMMA SetsFlags ==
  ASSUME NEW target \in State
  PROVE  SetsFlag(target) \subseteq Flag
BY States DEF SetsFlag

LEMMA PlannedRow ==
  ASSUME schema \in Schemas, NEW req \in Requests
  PROVE  /\ Planned(req) \in Row
         /\ Planned(req).key = req.key /\ Planned(req).job = req.job
         /\ Planned(req).txn = req.txn
         /\ Planned(req).state = "PLANNED" /\ Planned(req).met = schema.defaults
<1>1. req \in Request /\ schema \in Schema /\ schema.defaults \in SUBSET Flag
  BY ExecutionsAssumption DEF Schema
<1> QED
  BY <1>1, States DEF Planned, Row, Request

LEMMA UpdatedRow ==
  ASSUME NEW r \in Row, NEW target \in State, Permitted(r, target)
  PROVE  Updated(r, target) \in Row /\ Moves(r, Updated(r, target))
<1> DEFINE new == Updated(r, target)
<1>1. r.met \cup SetsFlag(target) \in SUBSET Flag
  BY SetsFlags DEF Row
<1>2. new \in Row
  BY <1>1 DEF Row, Updated
<1>3. /\ new.state = target /\ new.met = r.met \cup SetsFlag(target)
      /\ new.key = r.key /\ new.job = r.job /\ new.txn = r.txn
  BY DEF Row, Updated
<1>4. /\ target \in AllowedTransitions[r.state]
      /\ target = "EXECUTING" => r.met = Flag
  BY DEF Permitted
<1> HIDE DEF new
<1>5. Moves(r, new)
  BY <1>3, <1>4 DEF Moves
<1> QED
  BY <1>2, <1>5 DEF new

LEMMA MovesCleared ==
  ASSUME NEW a \in Row, NEW b \in Row, Moves(a, b), Cleared(a)
  PROVE  Cleared(b)
<1>1. PICK target \in State :
        /\ target \in AllowedTransitions[a.state]
        /\ target = "EXECUTING" => a.met = Flag
        /\ b.state = target /\ b.met = a.met \cup SetsFlag(target)
  BY DEF Moves
<1>2. a.state \in State
  BY DEF Row
<1>3. target \in {"EXECUTING", "SUCCEEDED", "FAILED"} =>
        a.state \in {"AUTHORIZED", "EXECUTING"}
  BY <1>1, <1>2, States
<1>4. target = "EXECUTING" => a.state = "AUTHORIZED"
  BY <1>1, <1>2, States
<1>5. target \in {"SUCCEEDED", "FAILED"} => a.state = "EXECUTING"
  BY <1>1, <1>2, States
<1>6. target # "PLANNED" /\ (target = "AUTHORIZED" => a.state = "PLANNED")
  BY <1>1, <1>2, States
<1>7. SetsFlag(target) = CASE target = "AUTHORIZED" -> {"authorized"}
                           [] target = "EXECUTING" -> {"resources_reserved"}
                           [] OTHER -> {}
  BY DEF SetsFlag
<1>8. CASE target = "AUTHORIZED"
  BY <1>1, <1>6, <1>7, <1>8 DEF Cleared
<1>9. CASE target = "EXECUTING"
  BY <1>1, <1>4, <1>7, <1>9, States DEF Cleared
<1>10. CASE target \in {"SUCCEEDED", "FAILED"}
  BY <1>1, <1>5, <1>7, <1>10 DEF Cleared
<1>11. CASE target \in {"BLOCKED", "CANCELLED"}
  BY <1>1, <1>7, <1>11 DEF Cleared
<1> QED
  BY <1>6, <1>8, <1>9, <1>10, <1>11, States

LEMMA PlannedCleared ==
  ASSUME schema \in Schemas, NEW req \in Requests
  PROVE  Cleared(Planned(req))
BY PlannedRow DEF Cleared

LEMMA ClashSymmetric ==
  ASSUME NEW a, NEW b, Clash(a, b)
  PROVE  Clash(b, a)
BY DEF Clash

-----------------------------------------------------------------------------
(* Initially.                                                              *)

LEMMA InitInv == Init => Inv
BY ExecutionsAssumption
   DEF Init, Inv, TypeOK, CallOf, DraftOf, Unclashing, Apart, Holds, Creating, Inserted,
       OneExecutionPerRequest

-----------------------------------------------------------------------------
(* A step of one connection that commits nothing concerns it alone.        *)

Others(s) ==
  \A o \in Session \ {s} : pc'[o] = pc[o] /\ call'[o] = call[o] /\ draft'[o] = draft[o]

LEMMA StepsAlone ==
  ASSUME Inv, TypeOK', NEW s \in Session, Others(s), UNCHANGED <<row, schema>>,
         CallOf(s)', DraftOf(s)', Unclashing(s)',
         \A o \in Session \ {s} : Apart(s, o)'
  PROVE  Inv'
<1>1. ASSUME NEW o \in Session \ {s} PROVE CallOf(o)' /\ DraftOf(o)' /\ Unclashing(o)'
  <2>1. CallOf(o) /\ DraftOf(o) /\ Unclashing(o)
    BY DEF Inv
  <2>2. /\ pc'[o] = pc[o] /\ call'[o] = call[o] /\ draft'[o] = draft[o]
        /\ row' = row /\ schema' = schema
    BY DEF Others
  <2>3. Planned(call[o].request)' = Planned(call[o].request)
    BY <2>2 DEF Planned
  <2>4. Moves(row[call[o].x], draft[o])' <=> Moves(row[call[o].x], draft[o])
    BY <2>2
  <2>5. CallOf(o)'
    BY <2>1, <2>2 DEF CallOf
  <2>6. DraftOf(o)'
    BY <2>1, <2>2, <2>3, <2>4 DEF DraftOf, Inserted
  <2>7. Unclashing(o)'
    BY <2>1, <2>2 DEF Unclashing, Inserted
  <2> QED
    BY <2>5, <2>6, <2>7
<1>2. ASSUME NEW o \in Session, NEW p \in Session, o # p PROVE Apart(o, p)'
  <2>1. CASE o = s
    BY <1>2, <2>1
  <2>2. CASE p = s
    <3>1. Apart(s, o)'
      BY <1>2, <2>2
    <3> QED
      BY <2>2, <3>1 DEF Apart, Clash
  <2>3. CASE o # s /\ p # s
    <3>1. Apart(o, p)
      BY <1>2 DEF Inv
    <3> QED
      BY <2>3, <3>1 DEF Apart, Others, Holds, Creating, Inserted
  <2> QED
    BY <2>1, <2>2, <2>3
<1>3. OneExecutionPerRequest'
  BY DEF Inv, OneExecutionPerRequest
<1>4. \A x \in Execution : row'[x] # None => Cleared(row[x])'
  BY DEF Inv, Cleared
<1> QED
  BY <1>1, <1>2, <1>3, <1>4 DEF Inv

(* A step gives one connection new values; the types survive it.           *)
Becomes(s, p, c, d) ==
  /\ pc' = [pc EXCEPT ![s] = p] /\ call' = [call EXCEPT ![s] = c]
  /\ draft' = [draft EXCEPT ![s] = d]
  /\ p \in {"idle", "insert", "lock", "locked", "commit"}
  /\ c \in Call \cup {None} /\ d \in Row \cup {None}
  /\ row' = row /\ schema' = schema
  /\ clock' \in 0..MaxTime /\ calls' \in 0..MaxCalls

LEMMA TypesStep ==
  ASSUME Inv, NEW s \in Session, NEW p, NEW c, NEW d, Becomes(s, p, c, d)
  PROVE  /\ TypeOK' /\ Others(s)
         /\ pc'[s] = p /\ call'[s] = c /\ draft'[s] = d
BY DEF Becomes, Inv, TypeOK, Others

(* What is unchanged keeps its type.                                       *)
LEMMA Kept ==
  ASSUME Inv, NEW s \in Session
  PROVE  /\ call[s] \in Call \cup {None} /\ call = [call EXCEPT ![s] = call[s]]
         /\ draft[s] \in Row \cup {None} /\ draft = [draft EXCEPT ![s] = draft[s]]
         /\ clock \in 0..MaxTime /\ calls \in 0..MaxCalls
BY DEF Inv, TypeOK

LEMMA BeginStep ==
  ASSUME Inv, NEW s \in Session, NEW c \in Call, NEW p \in {"insert", "lock"},
         Begin(s, c, p),
         p = "insert" => c.request # None /\ Fresh(c.x),
         p = "lock" => c.request = None
  PROVE  Inv'
<1>1. /\ pc' = [pc EXCEPT ![s] = p] /\ call' = [call EXCEPT ![s] = c]
      /\ UNCHANGED <<schema, row, draft, clock>> /\ calls' \in 0..MaxCalls
  BY ExecutionsAssumption DEF Begin, Goto, Inv, TypeOK
<1>2. Becomes(s, p, c, draft[s])
  BY <1>1, Kept DEF Becomes
<1>3. TypeOK' /\ Others(s) /\ pc'[s] = p /\ call'[s] = c
  BY <1>2, TypesStep
<1>4. CallOf(s)' /\ DraftOf(s)' /\ Unclashing(s)'
  BY <1>1, <1>3 DEF CallOf, DraftOf, Unclashing, Inserted, Fresh
<1>5. ASSUME NEW o \in Session \ {s} PROVE Apart(s, o)'
  <2>1. pc'[o] = pc[o] /\ call'[o] = call[o]
    BY <1>3 DEF Others
  <2>2. pc[o] # "idle" => call[o] # None
    BY NoneIsNothing DEF Inv, CallOf
  <2> QED
    BY <1>3, <2>1, <2>2 DEF Apart, Holds, Creating, Inserted, Fresh
<1> QED
  BY <1>1, <1>3, <1>4, <1>5, StepsAlone

LEMMA RollbackStep ==
  ASSUME Inv, NEW s \in Session, Rollback(s)
  PROVE  Inv'
<1>1. /\ pc' = [pc EXCEPT ![s] = "idle"] /\ call' = [call EXCEPT ![s] = None]
      /\ draft' = [draft EXCEPT ![s] = None]
      /\ UNCHANGED <<schema, row, clock, calls>>
  BY DEF Rollback, Close, Goto
<1>2. Becomes(s, "idle", None, None)
  BY <1>1, Kept DEF Becomes
<1>3. TypeOK' /\ Others(s) /\ pc'[s] = "idle" /\ call'[s] = None
  BY <1>2, TypesStep
<1>4. CallOf(s)' /\ DraftOf(s)' /\ Unclashing(s)'
  BY <1>3 DEF CallOf, DraftOf, Unclashing, Inserted
<1>5. \A o \in Session \ {s} : Apart(s, o)'
  BY <1>3 DEF Apart, Holds, Creating, Inserted
<1> QED
  BY <1>1, <1>3, <1>4, <1>5, StepsAlone

LEMMA InsertStep ==
  ASSUME Inv, NEW s \in Session, Insert(s)
  PROVE  Inv'
<1> DEFINE req == call[s].request
           new == Planned(req)
<1>1. /\ pc[s] = "insert" /\ MayInsert(s) /\ ~Duplicate(req)
      /\ pc' = [pc EXCEPT ![s] = "commit"] /\ draft' = [draft EXCEPT ![s] = new]
      /\ UNCHANGED <<schema, row, call, clock, calls>>
  BY DEF Insert, Goto, MayInsert
<1>2. /\ call[s] \in Call /\ req # None /\ row[call[s].x] = None
      /\ schema \in Schemas
  BY <1>1 DEF Inv, CallOf, TypeOK
<1>3. req \in Requests
  BY <1>2 DEF Call
<1>4. new \in Row /\ new.key = req.key /\ new.job = req.job /\ new.txn = req.txn
  BY <1>2, <1>3, PlannedRow
<1> HIDE DEF new
<1>5. Becomes(s, "commit", call[s], new)
  BY <1>1, <1>4, Kept DEF Becomes
<1>6. /\ TypeOK' /\ Others(s) /\ pc'[s] = "commit" /\ call'[s] = call[s]
      /\ draft'[s] = new
  BY <1>5, TypesStep
<1>7. new' = new
  BY <1>1 DEF new, Planned
<1>8. CallOf(s)' /\ DraftOf(s)'
  BY <1>1, <1>2, <1>6, <1>7, NoneIsNothing DEF CallOf, DraftOf, Inserted, new, Planned
<1>9. Unclashing(s)'
  BY <1>1, <1>4, <1>6 DEF Unclashing, Duplicate, Clash
<1>10. ASSUME NEW o \in Session \ {s} PROVE Apart(s, o)'
  <2>1. pc'[o] = pc[o] /\ call'[o] = call[o] /\ draft'[o] = draft[o]
    BY <1>6 DEF Others
  <2>2. CallOf(o) /\ DraftOf(o) /\ Apart(s, o)
    BY DEF Inv
  <2>3. Holds(o) => call[s].x # call[o].x
    <3>1. CASE pc[o] = "locked"
      BY <1>2, <2>2, <3>1, NoneIsNothing DEF DraftOf
    <3>2. CASE pc[o] = "commit" /\ call[o].request = None
      BY <1>2, <2>2, <3>2, NoneIsNothing DEF DraftOf
    <3>3. CASE pc[o] = "commit" /\ call[o].request # None
      BY <1>1, <1>2, <2>2, <3>3 DEF Apart, Creating
    <3> QED
      BY <3>1, <3>2, <3>3 DEF Holds
  <2>4. Creating(o) => call[s].x # call[o].x
    BY <1>1, <1>2, <2>2 DEF Apart, Creating
  <2>5. Inserted(o) => ~Clash(new, draft[o])
    BY <1>1, <1>4 DEF Inserted, MayInsert, Clash
  <2> QED
    BY <1>6, <2>1, <2>3, <2>4, <2>5 DEF Apart, Holds, Creating, Inserted
<1> QED
  BY <1>1, <1>6, <1>8, <1>9, <1>10, StepsAlone

LEMMA LockStep ==
  ASSUME Inv, NEW s \in Session, Lock(s)
  PROVE  Inv'
<1>1. /\ pc[s] = "lock" /\ row[call[s].x] # None /\ Unlocked(s)
      /\ pc' = [pc EXCEPT ![s] = "locked"]
      /\ draft' = [draft EXCEPT ![s] = row[call[s].x]]
      /\ UNCHANGED <<schema, row, call, clock, calls>>
  BY DEF Lock, Goto
<1>2. call[s] \in Call /\ call[s].request = None
  BY <1>1 DEF Inv, CallOf
<1>3. row[call[s].x] \in Row
  BY <1>1, <1>2 DEF Inv, TypeOK, Call
<1>4. Becomes(s, "locked", call[s], row[call[s].x])
  BY <1>1, <1>3, Kept DEF Becomes
<1>5. /\ TypeOK' /\ Others(s) /\ pc'[s] = "locked" /\ call'[s] = call[s]
      /\ draft'[s] = row[call[s].x]
  BY <1>4, TypesStep
<1>6. CallOf(s)' /\ DraftOf(s)' /\ Unclashing(s)'
  BY <1>1, <1>2, <1>3, <1>5 DEF CallOf, DraftOf, Unclashing, Inserted
<1>7. \A o \in Session \ {s} : Apart(s, o)'
  BY <1>1, <1>2, <1>5 DEF Apart, Others, Holds, Creating, Inserted, Unlocked
<1> QED
  BY <1>1, <1>5, <1>6, <1>7, StepsAlone

LEMMA UpdateStep ==
  ASSUME Inv, NEW s \in Session, Update(s)
  PROVE  Inv'
<1> DEFINE target == call[s].target
           old == row[call[s].x]
           new == Updated(old, target)
<1>1. /\ pc[s] = "locked" /\ Permitted(draft[s], target)
      /\ pc' = [pc EXCEPT ![s] = "commit"]
      /\ draft' = [draft EXCEPT ![s] = Updated(draft[s], target)]
      /\ UNCHANGED <<schema, row, call, clock, calls>>
  BY DEF Update, Goto
<1>2. call[s] \in Call /\ call[s].request = None /\ target \in State
  BY <1>1 DEF Inv, CallOf, Call
<1>3. old \in Row /\ draft[s] = old
  BY <1>1 DEF Inv, DraftOf
<1>4. new \in Row /\ Moves(old, new)
  BY <1>1, <1>2, <1>3, UpdatedRow
<1>5. draft' = [draft EXCEPT ![s] = new]
  BY <1>1, <1>3
<1> HIDE DEF new
<1>6. Becomes(s, "commit", call[s], new)
  BY <1>1, <1>4, <1>5, Kept DEF Becomes
<1>7. /\ TypeOK' /\ Others(s) /\ pc'[s] = "commit" /\ call'[s] = call[s]
      /\ draft'[s] = new
  BY <1>6, TypesStep
<1>8. row' = row /\ call'[s] = call[s] /\ draft'[s] = new
  BY <1>1, <1>7
<1>9. CallOf(s)' /\ Unclashing(s)'
  BY <1>2, <1>7, NoneIsNothing DEF CallOf, Unclashing, Inserted
<1>10. DraftOf(s)'
  <2>1. Moves(row[call[s].x], draft[s])' <=> Moves(old, new)
    BY <1>8
  <2> QED
    BY <1>2, <1>3, <1>4, <1>7, <1>8, <2>1 DEF DraftOf, Inserted
<1>11. \A o \in Session \ {s} : Apart(s, o)'
  BY <1>1, <1>2, <1>7 DEF Inv, Apart, Others, Holds, Creating, Inserted
<1> QED
  BY <1>1, <1>7, <1>9, <1>10, <1>11, StepsAlone
LEMMA TickStep ==
  ASSUME Inv, Tick
  PROVE  Inv'
<1>1. UNCHANGED <<schema, row, pc, call, draft, calls>> /\ clock' \in 0..MaxTime
  BY ExecutionsAssumption DEF Tick, Inv, TypeOK
<1>2. TypeOK'
  BY <1>1 DEF Inv, TypeOK
<1>3. ASSUME NEW s \in Session PROVE CallOf(s)' /\ DraftOf(s)' /\ Unclashing(s)'
  <2>1. CallOf(s) /\ DraftOf(s) /\ Unclashing(s)
    BY DEF Inv
  <2>2. Planned(call[s].request)' = Planned(call[s].request)
    BY <1>1 DEF Planned
  <2>3. Moves(row[call[s].x], draft[s])' <=> Moves(row[call[s].x], draft[s])
    BY <1>1
  <2> QED
    BY <1>1, <2>1, <2>2, <2>3 DEF CallOf, DraftOf, Unclashing, Inserted
<1>4. ASSUME NEW s \in Session, NEW o \in Session, s # o PROVE Apart(s, o)'
  BY <1>1, <1>4 DEF Inv, Apart, Holds, Creating, Inserted
<1>5. OneExecutionPerRequest' /\ \A x \in Execution : row'[x] # None => Cleared(row[x])'
  BY <1>1 DEF Inv, OneExecutionPerRequest, Cleared
<1> QED
  BY <1>2, <1>3, <1>4, <1>5 DEF Inv

-----------------------------------------------------------------------------
(* A commit: the row of one execution changes, under the eyes of the other *)
(* connections.                                                            *)

(* The draft a connection commits follows from the row it replaces.        *)
LEMMA CommittedDraft ==
  ASSUME Inv, NEW s \in Session, pc[s] = "commit"
  PROVE  /\ call[s] \in Call /\ call[s].x \in Execution
         /\ draft[s] \in Row /\ Cleared(draft[s])
         /\ \A x \in Execution :
              x # call[s].x /\ row[x] # None => ~Clash(row[x], draft[s])
<1>1. CallOf(s) /\ DraftOf(s) /\ Unclashing(s) /\ schema \in Schemas
  BY DEF Inv, TypeOK
<1>2. call[s] \in Call /\ call[s].x \in Execution
  BY <1>1 DEF CallOf, Call
<1>3. CASE call[s].request # None
  <2>1. call[s].request \in Requests /\ draft[s] = Planned(call[s].request)
    BY <1>1, <1>2, <1>3 DEF DraftOf, Inserted, Call
  <2>2. draft[s] \in Row /\ Cleared(draft[s])
    BY <1>1, <2>1, PlannedRow, PlannedCleared
  <2> QED
    BY <1>1, <1>2, <1>3, <2>2 DEF Unclashing, Inserted
<1>4. CASE call[s].request = None
  <2> DEFINE old == row[call[s].x]
  <2>1. old \in Row /\ draft[s] \in Row /\ Moves(old, draft[s])
    BY <1>1, <1>4 DEF DraftOf
  <2>2. old # None /\ Cleared(old)
    BY <1>2, <2>1, NoneIsNothing DEF Inv
  <2>3. Cleared(draft[s])
    BY <2>1, <2>2, MovesCleared
  <2>4. draft[s].key = old.key /\ draft[s].job = old.job /\ draft[s].txn = old.txn
    BY <2>1 DEF Moves
  <2>5. \A x \in Execution : x # call[s].x /\ row[x] # None => ~Clash(row[x], old)
    BY <1>2, <2>2 DEF Inv, OneExecutionPerRequest
  <2> QED
    BY <1>2, <2>1, <2>3, <2>4, <2>5 DEF Clash
<1> QED
  BY <1>3, <1>4

LEMMA CommitStep ==
  ASSUME Inv, NEW s \in Session, Commit(s)
  PROVE  Inv'
<1> DEFINE at == call[s].x
           new == draft[s]
<1>1. /\ pc[s] = "commit" /\ row' = [row EXCEPT ![at] = new]
      /\ pc' = [pc EXCEPT ![s] = "idle"] /\ call' = [call EXCEPT ![s] = None]
      /\ draft' = [draft EXCEPT ![s] = None]
      /\ schema' = schema /\ clock' = clock /\ calls' = calls
  BY DEF Commit, Close, Goto
<1>2. /\ at \in Execution /\ new \in Row /\ new # None /\ Cleared(new)
      /\ \A x \in Execution : x # at /\ row[x] # None => ~Clash(row[x], new)
  BY <1>1, CommittedDraft, NoneIsNothing
<1>3. /\ row'[at] = new /\ \A x \in Execution \ {at} : row'[x] = row[x]
  BY <1>1, <1>2 DEF Inv, TypeOK
<1>4. /\ pc'[s] = "idle" /\ call'[s] = None
      /\ \A o \in Session \ {s} :
           pc'[o] = pc[o] /\ call'[o] = call[o] /\ draft'[o] = draft[o]
  BY <1>1 DEF Inv, TypeOK
<1>5. TypeOK'
  BY <1>1, <1>2 DEF Inv, TypeOK
<1>6. CallOf(s)' /\ DraftOf(s)' /\ Unclashing(s)'
  BY <1>4 DEF CallOf, DraftOf, Unclashing, Inserted
<1>7. ASSUME NEW o \in Session \ {s} PROVE CallOf(o)' /\ DraftOf(o)' /\ Unclashing(o)'
  <2>1. CallOf(o) /\ DraftOf(o) /\ Unclashing(o) /\ Apart(s, o)
    BY DEF Inv
  <2>2. pc'[o] = pc[o] /\ call'[o] = call[o] /\ draft'[o] = draft[o]
    BY <1>4
  <2>3. pc[o] # "idle" => call[o].x \in Execution
    BY <2>1 DEF CallOf, Call
  <2>4. Holds(o) => call[o].x # at /\ row'[call[o].x] = row[call[o].x]
    <3>1. Holds(o) => call[o].x # at
      BY <1>1, <2>1 DEF Apart, Holds
    <3> QED
      BY <1>3, <2>3, <3>1 DEF Holds
  <2>5. pc[o] = "insert" => row'[call[o].x] = None
    <3>1. SUFFICES ASSUME pc[o] = "insert" PROVE call[o].x # at
      BY <1>3, <2>1, <2>3 DEF CallOf
    <3>2. call[o].request # None /\ row[call[o].x] = None
      BY <2>1, <3>1 DEF CallOf
    <3>3. CASE call[s].request # None
      BY <1>1, <2>1, <3>1, <3>2, <3>3 DEF Apart, Creating
    <3>4. CASE call[s].request = None
      BY <1>1, <3>2, <3>4, NoneIsNothing DEF Inv, DraftOf
    <3> QED
      BY <3>3, <3>4
  <2>6. CallOf(o)'
    BY <2>1, <2>2, <2>5 DEF CallOf
  <2>7. Planned(call[o].request)' = Planned(call[o].request)
    BY <1>1, <2>2 DEF Planned
  <2>8. Holds(o) => (Moves(row[call[o].x], draft[o])' <=> Moves(row[call[o].x], draft[o]))
    BY <2>2, <2>4
  <2>9. DraftOf(o)'
    BY <2>1, <2>2, <2>4, <2>7, <2>8 DEF DraftOf, Inserted, Holds
  <2>10. Unclashing(o)'
    <3> SUFFICES ASSUME Inserted(o)', NEW x \in Execution, row'[x] # None
                 PROVE  ~Clash(row'[x], draft'[o])
      BY DEF Unclashing, Clash
    <3>1. Inserted(o)
      BY <2>2 DEF Inserted
    <3>2. CASE x # at
      BY <1>3, <2>1, <2>2, <3>1, <3>2 DEF Unclashing
    <3>3. CASE x = at /\ call[s].request # None
      BY <1>1, <1>3, <2>1, <2>2, <3>1, <3>3 DEF Apart, Inserted
    <3>4. CASE x = at /\ call[s].request = None
      <4>1. row[at] \in Row /\ Moves(row[at], new)
        BY <1>1, <3>4 DEF Inv, DraftOf
      <4>2. ~Clash(row[at], draft[o])
        BY <1>2, <2>1, <3>1, <4>1, NoneIsNothing DEF Unclashing
      <4>3. new.key = row[at].key /\ new.job = row[at].job /\ new.txn = row[at].txn
        BY <4>1 DEF Moves
      <4> QED
        BY <1>3, <2>2, <3>4, <4>2, <4>3 DEF Clash
    <3> QED
      BY <3>2, <3>3, <3>4
  <2> QED
    BY <2>6, <2>9, <2>10
<1>8. ASSUME NEW o \in Session, NEW p \in Session, o # p PROVE Apart(o, p)'
  <2>1. CASE o = s \/ p = s
    BY <1>4, <2>1 DEF Apart, Holds, Creating, Inserted
  <2>2. CASE o # s /\ p # s
    <3>1. Apart(o, p)
      BY <1>8 DEF Inv
    <3> QED
      BY <1>4, <2>2, <3>1 DEF Apart, Holds, Creating, Inserted
  <2> QED
    BY <2>1, <2>2
<1>9. OneExecutionPerRequest'
  <2> SUFFICES ASSUME NEW x \in Execution, NEW y \in Execution,
                      x # y, row'[x] # None, row'[y] # None
               PROVE  ~Clash(row'[x], row'[y])
    BY DEF OneExecutionPerRequest, Clash
  <2>1. CASE x = at
    BY <1>2, <1>3, <2>1, ClashSymmetric
  <2>2. CASE y = at
    BY <1>2, <1>3, <2>2
  <2>3. CASE x # at /\ y # at
    BY <1>3, <2>3 DEF Inv, OneExecutionPerRequest
  <2> QED
    BY <2>1, <2>2, <2>3
<1>10. \A x \in Execution : row'[x] # None => Cleared(row[x])'
  <2> TAKE x \in Execution
  <2>1. Cleared(row[x])' <=> Cleared(row'[x])
    BY <1>1 DEF Cleared
  <2> QED
    BY <1>2, <1>3, <2>1 DEF Inv
<1> QED
  BY <1>5, <1>6, <1>7, <1>8, <1>9, <1>10 DEF Inv

-----------------------------------------------------------------------------
(* Every step.                                                             *)

LEMMA NextInv == Inv /\ [Next]_vars => Inv'
<1> SUFFICES ASSUME Inv, [Next]_vars PROVE Inv'
  OBVIOUS
<1>1. CASE UNCHANGED vars
  BY <1>1 DEF vars, Inv, TypeOK, CallOf, DraftOf, Unclashing, Apart, Holds, Creating,
              Inserted, OneExecutionPerRequest, Cleared, Planned, Clash, Moves
<1>2. CASE Tick
  BY <1>2, TickStep
<1>3. ASSUME NEW s \in Session, BeginCreate(s) PROVE Inv'
  <2>1. PICK x \in Execution, req \in Requests :
          Fresh(x) /\ Begin(s, [x |-> x, request |-> req, target |-> "PLANNED"], "insert")
    BY <1>3 DEF BeginCreate
  <2> DEFINE c == [x |-> x, request |-> req, target |-> "PLANNED"]
  <2>2. c \in Call /\ c.request # None /\ c.x = x
    BY States, NoneIsNothing DEF Call
  <2> HIDE DEF c
  <2>3. Begin(s, c, "insert") /\ Fresh(c.x)
    BY <2>1, <2>2 DEF c
  <2> QED
    BY <2>2, <2>3, BeginStep
<1>4. ASSUME NEW s \in Session, BeginTransition(s) PROVE Inv'
  <2>1. PICK x \in Execution, target \in State :
          Begin(s, [x |-> x, request |-> None, target |-> target], "lock")
    BY <1>4 DEF BeginTransition
  <2> DEFINE c == [x |-> x, request |-> None, target |-> target]
  <2>2. c \in Call /\ c.request = None
    BY DEF Call
  <2> HIDE DEF c
  <2>3. Begin(s, c, "lock")
    BY <2>1 DEF c
  <2> QED
    BY <2>2, <2>3, BeginStep
<1>5. ASSUME NEW s \in Session,
             RefuseDuplicate(s) \/ RefuseUnknownJob(s) \/ RefuseMissing(s)
             \/ Refuse(s) \/ Break(s)
      PROVE  Inv'
  BY <1>5, RollbackStep
     DEF RefuseDuplicate, RefuseUnknownJob, RefuseMissing, Refuse, Break
<1>6. ASSUME NEW s \in Session, Proceed(s) PROVE Inv'
  BY <1>5, <1>6, InsertStep, LockStep, UpdateStep, CommitStep DEF Proceed
<1> QED
  BY <1>1, <1>2, <1>3, <1>4, <1>5, <1>6 DEF Next

THEOREM ExecutionsInvariant == Spec => []Inv
BY InitInv, NextInv, PTL DEF Spec

(* Whatever the schema, the variables keep their types.                    *)
THEOREM ExecutionsTypes == Spec => []TypeOK
<1>1. Inv => TypeOK
  BY DEF Inv
<1> QED
  BY <1>1, ExecutionsInvariant, PTL

(* For any number of connections, clients that try again and executions,   *)
(* no two committed rows share an idempotency key, or a job and one of its *)
(* transactions (create(), database.py:672-706).                           *)
THEOREM OneExecution == Spec => []OneExecutionPerRequest
<1>1. Inv => OneExecutionPerRequest
  BY DEF Inv
<1> QED
  BY <1>1, ExecutionsInvariant, PTL

(* For any schema, an execution that runs or has run was authorised, and   *)
(* the table's own defaults claim the two marks that no update sets before *)
(* (transition(), database.py:746-763).                                    *)
THEOREM ClearedBeforeRunning == Spec => []RunsOnlyIfCleared
<1>1. Inv => RunsOnlyIfCleared
  BY DEF Inv, RunsOnlyIfCleared, Cleared
<1> QED
  BY <1>1, ExecutionsInvariant, PTL

-----------------------------------------------------------------------------
(* The committed rows implement the state machine.                         *)

StateOf == [x \in Execution |-> IF row[x] = None THEN None ELSE row[x].state]
GrantedOf == [x \in Execution |-> IF row[x] = None THEN {} ELSE row[x].met]

(* A new row at one execution changes what the machine sees of that one.   *)
LEMMA RowSeen ==
  ASSUME Inv, NEW at \in Execution, NEW new \in Row, row' = [row EXCEPT ![at] = new]
  PROVE  /\ StateOf' = [StateOf EXCEPT ![at] = new.state]
         /\ GrantedOf' = [GrantedOf EXCEPT ![at] = new.met]
<1>1. row'[at] = new /\ \A x \in Execution \ {at} : row'[x] = row[x]
  BY DEF Inv, TypeOK
<1>2. new # None
  BY NoneIsNothing
<1>3. StateOf' = [x \in Execution |-> IF row'[x] = None THEN None ELSE row'[x].state]
  BY DEF StateOf
<1>4. GrantedOf' = [x \in Execution |-> IF row'[x] = None THEN {} ELSE row'[x].met]
  BY DEF GrantedOf
<1>5. StateOf' = [StateOf EXCEPT ![at] = new.state]
  <2>1. \A x \in Execution : StateOf[x] = IF row[x] = None THEN None ELSE row[x].state
    BY DEF StateOf
  <2>2. \A x \in Execution \ {at} : StateOf'[x] = StateOf[x]
    BY <1>1, <1>3, <2>1
  <2>3. StateOf'[at] = new.state
    BY <1>1, <1>2, <1>3
  <2>4. StateOf = [x \in Execution |-> StateOf[x]] /\ StateOf' = [x \in Execution |-> StateOf'[x]]
    BY <1>3 DEF StateOf
  <2> QED
    BY <2>2, <2>3, <2>4
<1>6. GrantedOf' = [GrantedOf EXCEPT ![at] = new.met]
  <2>1. \A x \in Execution : GrantedOf[x] = IF row[x] = None THEN {} ELSE row[x].met
    BY DEF GrantedOf
  <2>2. \A x \in Execution \ {at} : GrantedOf'[x] = GrantedOf[x]
    BY <1>1, <1>4, <2>1
  <2>3. GrantedOf'[at] = new.met
    BY <1>1, <1>2, <1>4
  <2>4. GrantedOf = [x \in Execution |-> GrantedOf[x]] /\ GrantedOf' = [x \in Execution |-> GrantedOf'[x]]
    BY <1>4 DEF GrantedOf
  <2> QED
    BY <2>2, <2>3, <2>4
<1> QED
  BY <1>5, <1>6

LEMMA CommitMaps ==
  ASSUME Inv, NEW s \in Session, Commit(s)
  PROVE  Machine!Next
<1> DEFINE new == draft[s]
<1>1. pc[s] = "commit" /\ row' = [row EXCEPT ![call[s].x] = new]
  BY DEF Commit
<1>2. call[s].x \in Execution /\ new \in Row
  BY <1>1, CommittedDraft
<1>3. PICK at \in Execution : at = call[s].x
  BY <1>2
<1>4. pc[s] = "commit" /\ row' = [row EXCEPT ![at] = new] /\ at = call[s].x
  BY <1>1, <1>3
<1>5. at \in Execution /\ new \in Row
  BY <1>2
<1>6. /\ StateOf' = [StateOf EXCEPT ![at] = new.state]
      /\ GrantedOf' = [GrantedOf EXCEPT ![at] = new.met]
  BY <1>4, <1>5, RowSeen
<1>7. new.met \in SUBSET Flag
  BY <1>5 DEF Row
<1>8. CASE call[s].request # None
  <2>1. row[at] = None /\ new = Planned(call[s].request)
    BY <1>4, <1>8 DEF Inv, DraftOf, Inserted
  <2>2. call[s].request \in Requests /\ schema \in Schemas
    BY <1>4, <1>8, CommittedDraft DEF Call, Inv, TypeOK
  <2>3. new.state = "PLANNED"
    BY <2>1, <2>2, PlannedRow
  <2>4. StateOf[at] = None /\ GrantedOf[at] = {}
    BY <1>5, <2>1 DEF StateOf, GrantedOf
  <2>5. GrantedOf' = [GrantedOf EXCEPT ![at] = GrantedOf[at] \cup new.met]
    BY <1>6, <2>4
  <2>6. Machine!Plan(at)
    BY <1>6, <1>7, <2>3, <2>4, <2>5
       DEF Machine!Plan, Machine!Grant, StateOf, GrantedOf, Flag
  <2> QED
    BY <1>5, <2>6 DEF Machine!Next
<1>9. CASE call[s].request = None
  <2>1. row[at] \in Row /\ Moves(row[at], new)
    BY <1>4, <1>9 DEF Inv, DraftOf
  <2>2. PICK target \in State :
          /\ target \in AllowedTransitions[row[at].state]
          /\ target = "EXECUTING" => row[at].met = Flag
          /\ new.state = target /\ new.met = row[at].met \cup SetsFlag(target)
    BY <2>1 DEF Moves
  <2>3. /\ StateOf[at] = row[at].state /\ GrantedOf[at] = row[at].met
        /\ StateOf[at] # None
    BY <1>5, <2>1, NoneIsNothing, ExecutionsAssumption DEF StateOf, GrantedOf, Row
  <2>4. target = "EXECUTING" => StateOf[at] = "AUTHORIZED" /\ GrantedOf[at] = Flag
    <3>1. row[at].state \in State
      BY <2>1 DEF Row
    <3> QED
      BY <2>2, <2>3, <3>1, States
  <2>5. SetsFlag(target) \in SUBSET Flag
    BY SetsFlags
  <2>6. GrantedOf' = [GrantedOf EXCEPT ![at] = GrantedOf[at] \cup SetsFlag(target)]
    BY <1>6, <2>2, <2>3
  <2>7. StateOf' = [StateOf EXCEPT ![at] = target]
    BY <1>6, <2>2
  <2>8. Machine!Transition(at, target)
    BY <2>2, <2>3, <2>4, <2>5, <2>6, <2>7
       DEF Machine!Transition, Machine!CanExecute, Machine!Grant, StateOf, GrantedOf, Flag,
           AllowedTransitions
  <2> QED
    BY <1>5, <2>8 DEF Machine!Next, State
<1> QED
  BY <1>8, <1>9

LEMMA StepMaps ==
  Inv /\ [Next]_vars => [Machine!Next]_<<StateOf, GrantedOf>>
<1> SUFFICES ASSUME Inv, [Next]_vars, row' # row PROVE Machine!Next
  BY DEF StateOf, GrantedOf
<1>1. PICK s \in Session : Commit(s)
  BY DEF Next, vars, Tick, BeginCreate, BeginTransition, Begin, Proceed, Break, Rollback,
         Insert, RefuseDuplicate, RefuseUnknownJob, RefuseMissing, Lock, Update, Refuse
<1> QED
  BY <1>1, CommitMaps

(* For any executions, connections and schema, the committed rows behave   *)
(* as the state machine of rpa/execution.py allows: what transition()      *)
(* commits is a transition of the row it replaces, however calls interleave *)
(* and wherever connections break.                                         *)
THEOREM MachineImplemented == Spec => ImplementsMachine
<1>1. Init => Machine!Init
  BY DEF Init, Machine!Init
<1>2. Inv /\ [Next]_vars => [Machine!Next]_<<StateOf, GrantedOf>>
  BY StepMaps
<1> QED
  BY <1>1, <1>2, ExecutionsInvariant, PTL
     DEF Spec, ImplementsMachine, Machine!Spec, StateOf, GrantedOf
=============================================================================
