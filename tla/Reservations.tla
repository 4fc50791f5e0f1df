---------------------------- MODULE Reservations ----------------------------
(***************************************************************************)
(* ResourceReservationRepository of rpa/database.py on PostgreSQL: every   *)
(* caller of reserve runs it in a transaction of its own (READ COMMITTED), *)
(* which locks one limit row per resource with SELECT ... FOR UPDATE and   *)
(* keeps the locks until it commits or rolls back; consume, release and    *)
(* set_tenant_limit are single statements.                                 *)
(*                                                                         *)
(* A session's reservations are its own until it commits.  The order in    *)
(* which it names resources is the caller's.                               *)
(***************************************************************************)
EXTENDS Quotas

CONSTANTS
  Session,    \* connections of the pool
  MaxCalls    \* bound: calls of reserve

ASSUME SessionAssumption == None \notin Session /\ MaxCalls \in Nat

VARIABLES
  holder,    \* resource -> the session that holds the lock on its limit row
  session,   \* session -> the call of reserve it executes
  calls      \* calls so far

vars == <<quotas, holder, session, calls>>

Call ==
  [at : {"idle", "next", "lock", "read", "insert"},
   job : Job \cup {None},
   want : [Resource -> Nat],
   todo : SUBSET Resource,       \* resources it has yet to reserve
   res : Resource \cup {None},   \* the resource it is at
   cap : Nat, used : Nat,        \* limit_value and used, as it read them
   got : SUBSET Resource]        \* rows it inserted
Idle == [at |-> "idle", job |-> None, want |-> [r \in Resource |-> 0], todo |-> {},
         res |-> None, cap |-> 0, used |-> 0, got |-> {}]

Init ==
  /\ QuotaInit
  /\ holder = [r \in Resource |-> None]
  /\ session = [s \in Session |-> Idle]
  /\ calls = 0

At(s, at) == session[s].at = at
Update(s, call) == session' = [session EXCEPT ![s] = call]

-----------------------------------------------------------------------------
(* reserve                                                                 *)

Begin(s) ==
  /\ At(s, "idle") /\ calls < MaxCalls
  /\ calls' = calls + 1
  /\ \E j \in Job : \E want \in Wants :
       Update(s, [Idle EXCEPT !.at = "next", !.job = j, !.want = want,
                              !.todo = Wanted(want)])
  /\ UNCHANGED <<quotas, holder>>

\* Fault: the connection goes back to the pool without a rollback.
EndKeepingLocks(s) ==
  /\ Update(s, Idle)
  /\ UNCHANGED holder

\* The transaction ends, one way or the other.
End(s) ==
  /\ Update(s, Idle)
  /\ holder' = [r \in Resource |-> IF holder[r] = s THEN None ELSE holder[r]]

Abort(s) == End(s) /\ UNCHANGED <<quotas, calls>>

Ask(s) ==
  /\ At(s, "next")
  /\ \E r \in session[s].todo :
       Update(s, [session[s] EXCEPT !.at = "lock", !.res = r])
  /\ UNCHANGED <<quotas, holder, calls>>

\* Fault: SELECT without FOR UPDATE.
ReadLimit(s) ==
  /\ At(s, "lock")
  /\ limit[session[s].res] # None
  /\ Update(s, [session[s] EXCEPT !.at = "read", !.cap = limit[session[s].res]])
  /\ UNCHANGED <<quotas, holder, calls>>

\* Fault: a limit that is not configured is not noticed.
LockAnyLimit(s) ==
  /\ At(s, "lock") /\ holder[session[s].res] = None
  /\ Update(s, [session[s] EXCEPT !.at = "read", !.cap = limit[session[s].res]])
  /\ holder' = [holder EXCEPT ![session[s].res] = s]
  /\ UNCHANGED <<quotas, calls>>

LockLimit(s) ==
  /\ At(s, "lock") /\ holder[session[s].res] = None
  /\ limit[session[s].res] # None
  /\ Update(s, [session[s] EXCEPT !.at = "read", !.cap = limit[session[s].res]])
  /\ holder' = [holder EXCEPT ![session[s].res] = s]
  /\ UNCHANGED <<quotas, calls>>

NoLimit(s) ==
  /\ At(s, "lock") /\ limit[session[s].res] = None
  /\ Abort(s)

ReadUsed(s) ==
  /\ At(s, "read")
  /\ Update(s, [session[s] EXCEPT !.at = "insert", !.used = Used(session[s].res)])
  /\ UNCHANGED <<quotas, holder, calls>>

\* The row's key is taken, if only by a reservation that was released.
Duplicate(s) == row[session[s].job][session[s].res].status # "none"
Exhausted(s) == session[s].used + session[s].want[session[s].res] > session[s].cap

\* Fault: every statement commits by itself.
InsertCommitted(s) ==
  /\ At(s, "insert") /\ ~Exhausted(s) /\ ~Duplicate(s)
  /\ Update(s, [session[s] EXCEPT !.at = "next", !.todo = @ \ {session[s].res}])
  /\ row' = Reserved(session[s].job, session[s].want, {session[s].res})
  /\ UNCHANGED <<limit, holder, calls>>

Insert(s) ==
  /\ At(s, "insert") /\ ~Exhausted(s) /\ ~Duplicate(s)
  /\ Update(s, [session[s] EXCEPT !.at = "next", !.todo = @ \ {session[s].res},
                                  !.got = @ \cup {session[s].res}])
  /\ UNCHANGED <<quotas, holder, calls>>

InsertFails(s) ==
  /\ At(s, "insert") /\ (Exhausted(s) \/ Duplicate(s))
  /\ Abort(s)

Commit(s) ==
  /\ At(s, "next") /\ session[s].todo = {}
  /\ row' = Reserved(session[s].job, session[s].want, session[s].got)
  /\ End(s)
  /\ UNCHANGED <<limit, calls>>

\* The connection is lost, the process dies, the caller raises.
Fail(s) == ~At(s, "idle") /\ Abort(s)

\* Sessions that wait for one another in a circle: the server aborts one.
Waits(s, t) ==
  At(s, "lock") /\ limit[session[s].res] # None /\ holder[session[s].res] = t
Deadlocked(circle) ==
  \A s \in circle : (\E t \in circle : Waits(s, t)) /\ (\E t \in circle : Waits(t, s))
Victim(s) ==
  /\ \E circle \in SUBSET Session : s \in circle /\ Deadlocked(circle)
  /\ Abort(s)

-----------------------------------------------------------------------------
(* The single statements.                                                  *)

\* Fault: the statement does not look at the row's status.
ConsumeAnyStatus(j, r) ==
  /\ row' = Marked(j, {r}, Status \ {"none"}, "consumed")
  /\ UNCHANGED <<limit, holder, session, calls>>

Consume(j, r) ==
  /\ row' = Marked(j, {r}, {"reserved"}, "consumed")
  /\ UNCHANGED <<limit, holder, session, calls>>

\* One resource of a job, or all of them.
Release(j, resources) ==
  /\ row' = Marked(j, resources, InUse, "released")
  /\ UNCHANGED <<limit, holder, session, calls>>

\* An update waits for the lock on the row.
SetLimit(r, cap) ==
  /\ holder[r] = None
  /\ limit' = [limit EXCEPT ![r] = cap]
  /\ UNCHANGED <<row, holder, session, calls>>

Statement ==
  \/ \E j \in Job : \E r \in Resource : Consume(j, r) \/ Release(j, {r})
  \/ \E j \in Job : Release(j, Resource)
  \/ \E r \in Resource : \E cap \in Caps : SetLimit(r, cap)

Step(s) ==
  \/ Ask(s) \/ LockLimit(s) \/ NoLimit(s) \/ ReadUsed(s)
  \/ Insert(s) \/ InsertFails(s) \/ Commit(s)

Next ==
  \/ \E s \in Session : Begin(s) \/ Step(s) \/ Fail(s) \/ Victim(s)
  \/ Statement

(* A call goes on while the server lets it, and the server looks for       *)
(* deadlocks (deadlock_timeout); nobody has to call.                       *)
Spec ==
  /\ Init /\ [][Next]_vars
  /\ \A s \in Session : WF_vars(Step(s))
  /\ WF_vars(\E s \in Session : Victim(s))

-----------------------------------------------------------------------------
(* Properties.                                                             *)

(* Types of the tables, the locks and the calls.                           *)
TypeOK ==
  /\ QuotaTypeOK
  /\ holder \in [Resource -> Session \cup {None}]
  /\ session \in [Session -> Call]
  /\ calls \in 0..MaxCalls

(* The quota is what the lock is for: however calls interleave with each   *)
(* other and with administrators, the use of a resource never grows past   *)
(* the limit in force at that moment (database.py:387).                    *)
GrowsWithinLimit ==
  [][\A r \in Resource : Used(r)' > Used(r) => Used(r)' <= limit[r]]_vars

(* A reservation moves from reserved to consumed to released and never     *)
(* back, and its amount stays, whichever calls race for it.                *)
Rank(status) == CASE status = "none" -> 0 [] status = "reserved" -> 1
                  [] status = "consumed" -> 2 [] status = "released" -> 3
RowsMoveForward ==
  [][\A j \in Job : \A r \in Resource :
       /\ Rank(row[j][r].status) <= Rank(row'[j][r].status)
       /\ row[j][r].status # "none" => row'[j][r].amount = row[j][r].amount]_vars

(* database.py:387: reserve is atomic, all resources or none.              *)
Ledger == INSTANCE QuotaLedger WITH limit <- limit, row <- row
ImplementsLedger == Ledger!Spec

(* Every call of reserve comes back, deadlocks included.                   *)
CallsEnd == \A s \in Session : ~At(s, "idle") ~> At(s, "idle")
=============================================================================
