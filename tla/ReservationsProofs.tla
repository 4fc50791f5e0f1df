------------------------- MODULE ReservationsProofs -------------------------
(* Theorems about Reservations, for any jobs, resources and sessions. *)
EXTENDS Reservations, SumsProofs

(* Use of a resource, from one state to the next.                          *)
LEMMA ChargeNat ==
  ASSUME QuotaTypeOK, NEW r \in Resource, NEW j \in Job
  PROVE  Charge(j, r) \in Nat
<1>1. row[j][r] \in Row
  BY DEF QuotaTypeOK
<1> QED
  BY <1>1 DEF Charge, Row

LEMMA UsedNat ==
  ASSUME QuotaTypeOK, NEW r \in Resource
  PROVE  Used(r) \in Nat
BY ChargeNat, SumNat, QuotaAssumption DEF Used, Job

LEMMA UsedNatNext ==
  ASSUME QuotaTypeOK', NEW r \in Resource
  PROVE  Used(r)' \in Nat
<1>1. ASSUME NEW j \in Job PROVE Charge(j, r)' \in Nat
  <2>1. row'[j][r] \in Row
    BY DEF QuotaTypeOK
  <2> QED
    BY <2>1 DEF Charge, Row
<1> QED
  BY <1>1, SumNat, QuotaAssumption DEF Used, Job

LEMMA UsedSame ==
  ASSUME NEW r \in Resource, \A j \in Job : row'[j][r] = row[j][r]
  PROVE  Used(r)' = Used(r)
<1>1. \A j \in Job : Charge(j, r)' = Charge(j, r)
  BY DEF Charge
<1> QED
  BY <1>1 DEF Used

LEMMA UsedLess ==
  ASSUME QuotaTypeOK, QuotaTypeOK', NEW r \in Resource,
         \A j \in Job : Charge(j, r)' <= Charge(j, r)
  PROVE  Used(r)' <= Used(r)
<1> DEFINE a == [j \in Job |-> Charge(j, r)']
           b == [j \in Job |-> Charge(j, r)]
<1>1. \A j \in 1..NJobs : a[j] \in Nat /\ b[j] \in Nat /\ a[j] <= b[j]
  <2>1. \A j \in Job : Charge(j, r)' \in Nat
    <3>1. ASSUME NEW j \in Job PROVE row'[j][r] \in Row
      BY DEF QuotaTypeOK
    <3> QED
      BY <3>1 DEF Charge, Row
  <2> QED
    BY <2>1, ChargeNat DEF Job
<1>2. Used(r)' = SumTo(a, NJobs) /\ Used(r) = SumTo(b, NJobs)
  BY DEF Used
<1> HIDE DEF a, b
<1> QED
  BY <1>1, <1>2, SumMonotone, QuotaAssumption

LEMMA UsedMore ==
  ASSUME QuotaTypeOK, NEW r \in Resource, NEW j \in Job, NEW n \in Nat,
         row[j][r].status = "none",
         row'[j][r] = [status |-> "reserved", amount |-> n],
         \A k \in Job : k # j => row'[k][r] = row[k][r]
  PROVE  Used(r)' = Used(r) + n
<1> DEFINE a == [k \in Job |-> Charge(k, r)]
           b == [k \in Job |-> Charge(k, r)']
<1>1. /\ Charge(j, r) = 0 /\ Charge(j, r)' = n
      /\ \A k \in Job : k # j => Charge(k, r)' = Charge(k, r)
  BY DEF Charge, InUse
<1>2. \A k \in 1..NJobs : a[k] \in Nat /\ b[k] \in Nat /\ (k # j => a[k] = b[k])
  BY <1>1, ChargeNat DEF Job
<1>3. a[j] = 0 /\ b[j] = n
  BY <1>1
<1>4. Used(r)' = SumTo(b, NJobs) /\ Used(r) = SumTo(a, NJobs)
  BY DEF Used
<1>5. j \in 1..NJobs
  BY DEF Job
<1> HIDE DEF a, b
<1>6. SumTo(b, NJobs) + a[j] = SumTo(a, NJobs) + b[j]
  BY <1>2, <1>5, SumReplace, QuotaAssumption
<1>7. SumTo(a, NJobs) \in Nat /\ SumTo(b, NJobs) \in Nat
  BY <1>2, SumNat, QuotaAssumption
<1> QED
  BY <1>3, <1>4, <1>6, <1>7

-----------------------------------------------------------------------------
(***************************************************************************)
(* The inductive invariant.  A call holds the lock on the limit of every   *)
(* resource it has reserved or is reserving, so that limit stays and the   *)
(* use of the resource can only fall until the call ends.                  *)
(***************************************************************************)
Busy == {"lock", "read", "insert"}

Task(s) ==
  /\ session[s].got \cap session[s].todo = {}
  /\ session[s].at = "idle" => session[s].got = {}
  /\ session[s].at # "idle" =>
       /\ session[s].job \in Job /\ session[s].want \in Wants
       /\ session[s].todo \cup session[s].got = Wanted(session[s].want)
  /\ session[s].at \in Busy => session[s].res \in session[s].todo

Lock(s) ==
  /\ \A r \in session[s].got : holder[r] = s
  /\ session[s].at \in {"read", "insert"} => holder[session[s].res] = s

Room(s) ==
  /\ \A r \in session[s].got :
       /\ limit[r] # None /\ Used(r) + session[s].want[r] <= limit[r]
       /\ row[session[s].job][r].status = "none"
  /\ session[s].at \in {"read", "insert"} => limit[session[s].res] = session[s].cap
  /\ \A r \in Resource :
       session[s].at = "insert" /\ session[s].res = r => Used(r) <= session[s].used

Sound(s) == Task(s) /\ Lock(s) /\ Room(s)
Inv == TypeOK /\ \A s \in Session : Sound(s)

(* A call is sound when it begins and when it is over.                     *)
LEMMA IdleCall ==
  /\ Idle \in Call
  /\ \A j \in Job : \A want \in Wants :
       [Idle EXCEPT !.at = "next", !.job = j, !.want = want, !.todo = Wanted(want)]
         \in Call
<1>1. Idle \in Call
  BY DEF Idle, Call
<1>2. \A want \in Wants : want \in [Resource -> Nat] /\ Wanted(want) \in SUBSET Resource
  BY QuotaAssumption DEF Wanted
<1> QED
  BY <1>1, <1>2 DEF Call

(* A call keeps its type when a step moves it on.                          *)
LEMMA CallMoves ==
  ASSUME NEW c \in Call
  PROVE  /\ \A r \in Resource :
              /\ [c EXCEPT !.at = "lock", !.res = r] \in Call
              /\ [c EXCEPT !.at = "next", !.todo = @ \ {r}, !.got = @ \cup {r}] \in Call
         /\ \A n \in Nat :
              /\ [c EXCEPT !.at = "read", !.cap = n] \in Call
              /\ [c EXCEPT !.at = "insert", !.used = n] \in Call
<1>1. /\ c.todo \in SUBSET Resource /\ c.got \in SUBSET Resource
  BY DEF Call
<1>2. \A r \in Resource : c.todo \ {r} \in SUBSET Resource
                          /\ c.got \cup {r} \in SUBSET Resource
  BY <1>1
<1> QED
  BY <1>2 DEF Call

LEMMA OverIsSound ==
  ASSUME NEW s \in Session, session'[s] = Idle
  PROVE  Sound(s)'
BY DEF Sound, Task, Lock, Room, Busy, Idle

(* What a call relies on while others take their steps: its locks stay,    *)
(* and on what it has locked the limit stays and the use does not grow.    *)
LEMMA Steady ==
  ASSUME Inv, TypeOK', NEW s \in Session, session'[s] = session[s],
         \A r \in Resource : holder[r] = s =>
           /\ holder'[r] = s /\ limit'[r] = limit[r] /\ Used(r)' <= Used(r)
           /\ \A j \in Job : row[j][r].status = "none" => row'[j][r].status = "none"
  PROVE  Sound(s)'
<1> DEFINE c == session[s]
<1>1. /\ c \in Call /\ c.got \subseteq Resource /\ c.want \in [Resource -> Nat]
      /\ c.used \in Nat
  BY DEF Inv, TypeOK, Call
<1>2. Sound(s)
  BY DEF Inv
<1>3. Task(s)'
  BY <1>2 DEF Sound, Task
<1>4. c.at \in {"read", "insert"} => c.res \in Resource
  BY <1>1, <1>2 DEF Sound, Task, Busy, Call
<1>5. Lock(s)'
  BY <1>1, <1>2, <1>4 DEF Sound, Lock
<1>6. \A r \in Resource : Used(r) \in Nat /\ Used(r)' \in Nat
  <2>1. ASSUME NEW r \in Resource PROVE Used(r) \in Nat /\ Used(r)' \in Nat
    <3>1. Used(r) \in Nat
      BY UsedNat DEF Inv, TypeOK
    <3>2. Used(r)' \in Nat
      BY UsedNatNext DEF TypeOK
    <3> QED
      BY <3>1, <3>2
  <2> QED
    BY <2>1
<1>7. ASSUME NEW r \in c.got
      PROVE  /\ limit'[r] # None /\ Used(r)' + c.want[r] <= limit'[r]
             /\ row'[c.job][r].status = "none"
  <2>1. /\ r \in Resource /\ holder[r] = s /\ limit[r] # None
        /\ Used(r) + c.want[r] <= limit[r] /\ row[c.job][r].status = "none"
    BY <1>1, <1>2, <1>7 DEF Sound, Lock, Room
  <2>2. c.job \in Job
    BY <1>2, <1>7 DEF Sound, Task
  <2>3. limit'[r] = limit[r] /\ limit[r] \in Nat /\ c.want[r] \in Nat
    BY <1>1, <2>1 DEF Inv, TypeOK, QuotaTypeOK
  <2>4. Used(r)' <= Used(r) /\ Used(r) \in Nat /\ Used(r)' \in Nat
    BY <1>6, <2>1
  <2>5. Used(r)' + c.want[r] <= limit'[r]
    BY <2>1, <2>3, <2>4
  <2> QED
    BY <2>1, <2>2, <2>3, <2>5
<1>8. c.at \in {"read", "insert"} => limit'[c.res] = c.cap
  BY <1>2, <1>4 DEF Sound, Lock, Room
<1>9. ASSUME NEW r \in Resource, c.at = "insert", c.res = r
      PROVE  Used(r)' <= c.used
  <2>1. holder[r] = s /\ Used(r) <= c.used
    BY <1>2, <1>9 DEF Sound, Lock, Room
  <2>2. Used(r)' <= Used(r)
    BY <2>1
  <2> QED
    BY <1>1, <1>6, <2>1, <2>2
<1>10. Room(s)'
  BY <1>7, <1>8, <1>9 DEF Room
<1> QED
  BY <1>3, <1>5, <1>10 DEF Sound

LEMMA UsedStays ==
  ASSUME UNCHANGED row, NEW r \in Resource
  PROVE  Used(r)' = Used(r)
BY UsedSame

(* A step of one session that leaves the tables alone and takes no lock    *)
(* from another.                                                           *)
LEMMA SessionStep ==
  ASSUME Inv, NEW s \in Session, NEW c \in Call,
         session' = [session EXCEPT ![s] = c], UNCHANGED quotas,
         calls' \in 0..MaxCalls, holder' \in [Resource -> Session \cup {None}],
         \A r \in Resource : \A t \in Session :
           t # s /\ holder[r] = t => holder'[r] = t,
         Sound(s)'
  PROVE  Inv'
<1>1. TypeOK'
  BY DEF Inv, TypeOK, QuotaTypeOK, quotas
<1>2. \A r \in Resource : Used(r)' = Used(r) /\ Used(r) \in Nat
  BY UsedStays, UsedNat DEF Inv, TypeOK, quotas
<1>3. ASSUME NEW t \in Session, t # s PROVE Sound(t)'
  <2>1. session'[t] = session[t]
    BY <1>3 DEF Inv, TypeOK
  <2>2. \A r \in Resource : holder[r] = t =>
          /\ holder'[r] = t /\ limit'[r] = limit[r] /\ Used(r)' <= Used(r)
          /\ \A j \in Job : row[j][r].status = "none" => row'[j][r].status = "none"
    BY <1>2, <1>3 DEF quotas
  <2> QED
    BY <1>1, <2>1, <2>2, Steady
<1> QED
  BY <1>1, <1>3 DEF Inv

(* A statement on the tables.                                              *)
LEMMA TableStep ==
  ASSUME Inv, QuotaTypeOK', UNCHANGED <<holder, session, calls>>,
         \A r \in Resource : \A t \in Session : holder[r] = t =>
           /\ limit'[r] = limit[r] /\ Used(r)' <= Used(r)
           /\ \A j \in Job : row[j][r].status = "none" => row'[j][r].status = "none"
  PROVE  Inv'
<1>1. TypeOK'
  BY DEF Inv, TypeOK
<1>2. ASSUME NEW t \in Session PROVE Sound(t)'
  <2>1. \A r \in Resource : holder[r] = t =>
          /\ holder'[r] = t /\ limit'[r] = limit[r] /\ Used(r)' <= Used(r)
          /\ \A j \in Job : row[j][r].status = "none" => row'[j][r].status = "none"
    OBVIOUS
  <2> QED
    BY <1>1, <2>1, Steady
<1> QED
  BY <1>1, <1>2 DEF Inv

LEMMA AbortInv ==
  ASSUME Inv, NEW s \in Session, Abort(s)
  PROVE  Inv'
<1>1. /\ session' = [session EXCEPT ![s] = Idle] /\ UNCHANGED quotas
      /\ calls' \in 0..MaxCalls
  BY DEF Abort, End, Update, Inv, TypeOK
<1>2. holder' = [r \in Resource |-> IF holder[r] = s THEN None ELSE holder[r]]
  BY DEF Abort, End
<1>3. holder' \in [Resource -> Session \cup {None}]
  BY <1>2 DEF Inv, TypeOK
<1>4. \A r \in Resource : \A t \in Session : t # s /\ holder[r] = t => holder'[r] = t
  BY <1>2
<1>5. session'[s] = Idle
  BY <1>1 DEF Inv, TypeOK
<1>6. Sound(s)'
  BY <1>5, OverIsSound
<1> QED
  BY <1>1, <1>3, <1>4, <1>6, IdleCall, SessionStep

(* The tables keep their types.                                            *)
LEMMA ReservedRows ==
  ASSUME QuotaTypeOK, NEW j \in Job, NEW want \in Wants, NEW rs
  PROVE  /\ Reserved(j, want, rs) \in [Job -> [Resource -> Row]]
         /\ \A k \in Job : \A r \in Resource :
              Reserved(j, want, rs)[k][r] =
                IF k = j /\ r \in rs THEN [status |-> "reserved", amount |-> want[r]]
                ELSE row[k][r]
<1>1. want \in [Resource -> Nat]
  BY QuotaAssumption
<1>2. \A r \in Resource : [status |-> "reserved", amount |-> want[r]] \in Row
  BY <1>1 DEF Row, Status
<1>3. /\ row[j] \in [Resource -> Row]
      /\ [r \in Resource |-> IF r \in rs THEN [status |-> "reserved", amount |-> want[r]]
                             ELSE row[j][r]] \in [Resource -> Row]
  BY <1>2 DEF QuotaTypeOK
<1> QED
  BY <1>3 DEF Reserved, QuotaTypeOK

LEMMA MarkedRows ==
  ASSUME QuotaTypeOK, NEW j \in Job, NEW rs, NEW from, NEW to \in Status
  PROVE  /\ Marked(j, rs, from, to) \in [Job -> [Resource -> Row]]
         /\ \A k \in Job : \A r \in Resource :
              Marked(j, rs, from, to)[k][r] =
                IF k = j /\ r \in rs /\ row[k][r].status \in from
                THEN [status |-> to, amount |-> row[k][r].amount]
                ELSE row[k][r]
<1>1. \A r \in Resource :
        /\ [row[j][r] EXCEPT !.status = to] \in Row
        /\ [row[j][r] EXCEPT !.status = to] = [status |-> to, amount |-> row[j][r].amount]
  BY DEF QuotaTypeOK, Row
<1>2. [r \in Resource |-> IF r \in rs /\ row[j][r].status \in from
                           THEN [row[j][r] EXCEPT !.status = to] ELSE row[j][r]]
        \in [Resource -> Row]
  <2>1. ASSUME NEW r \in Resource
        PROVE (IF r \in rs /\ row[j][r].status \in from
               THEN [row[j][r] EXCEPT !.status = to] ELSE row[j][r]) \in Row
    <3>1. row[j][r] \in Row
      BY DEF QuotaTypeOK
    <3>2. [row[j][r] EXCEPT !.status = to] \in Row
      BY <1>1
    <3> QED
      BY <3>1, <3>2
  <2> QED
    BY <2>1
<1> QED
  BY <1>1, <1>2 DEF Marked, QuotaTypeOK

(* One lemma per step of a call.                                           *)
LEMMA BeginInv ==
  ASSUME Inv, NEW s \in Session, Begin(s)
  PROVE  Inv'
<1>1. PICK j \in Job, want \in Wants :
        Update(s, [Idle EXCEPT !.at = "next", !.job = j, !.want = want,
                               !.todo = Wanted(want)])
  BY DEF Begin
<1> DEFINE c == [Idle EXCEPT !.at = "next", !.job = j, !.want = want,
                             !.todo = Wanted(want)]
<1>2. c \in Call
  BY IdleCall
<1>3. /\ c.at = "next" /\ c.job = j /\ c.want = want /\ c.todo = Wanted(want)
      /\ c.got = {}
  BY DEF Idle
<1>4. session' = [session EXCEPT ![s] = c]
  BY <1>1 DEF Update
<1> HIDE DEF c
<1>5. session'[s] = c
  BY <1>4 DEF Inv, TypeOK
<1>6. Sound(s)'
  BY <1>3, <1>5 DEF Sound, Task, Lock, Room, Busy
<1>7. UNCHANGED quotas /\ calls' \in 0..MaxCalls /\ holder' = holder
  BY SessionAssumption DEF Begin, Inv, TypeOK
<1>8. holder' \in [Resource -> Session \cup {None}]
  BY <1>7 DEF Inv, TypeOK
<1> QED
  BY <1>2, <1>4, <1>6, <1>7, <1>8, SessionStep

\* What is known of a call that is running.
LEMMA Running ==
  ASSUME Inv, NEW s \in Session, session[s].at # "idle"
  PROVE  /\ session[s] \in Call /\ session[s].job \in Job /\ session[s].want \in Wants
         /\ session[s].want \in [Resource -> Nat]
         /\ session[s].todo \subseteq Resource /\ session[s].got \subseteq Resource
         /\ session[s].cap \in Nat /\ session[s].used \in Nat
         /\ session[s].at \in Busy =>
              session[s].res \in Resource /\ session[s].res \in session[s].todo
<1>1. session[s] \in Call
  BY DEF Inv, TypeOK
<1>2. Task(s)
  BY DEF Inv, Sound
<1> QED
  BY <1>1, <1>2 DEF Task, Call

LEMMA AskInv ==
  ASSUME Inv, NEW s \in Session, Ask(s)
  PROVE  Inv'
<1>1. PICK r \in session[s].todo :
        Update(s, [session[s] EXCEPT !.at = "lock", !.res = r])
  BY DEF Ask
<1>2. session[s].at = "next" /\ UNCHANGED <<quotas, holder, calls>>
  BY DEF Ask, At
<1>3. session[s] \in Call /\ r \in Resource
  BY <1>2, Running
<1>4. [session[s] EXCEPT !.at = "lock", !.res = r] \in Call
  BY <1>3, CallMoves
<1>5. session' = [session EXCEPT ![s] = [session[s] EXCEPT !.at = "lock", !.res = r]]
  BY <1>1 DEF Update
<1>6. session'[s] = [session[s] EXCEPT !.at = "lock", !.res = r]
  BY <1>5 DEF Inv, TypeOK
<1>7. /\ session'[s].at = "lock" /\ session'[s].res = r
      /\ session'[s].job = session[s].job /\ session'[s].want = session[s].want
      /\ session'[s].todo = session[s].todo /\ session'[s].got = session[s].got
  BY <1>3, <1>6 DEF Call
<1>8. Sound(s)
  BY DEF Inv
<1>9. Task(s)' /\ Lock(s)'
  BY <1>2, <1>7, <1>8 DEF Sound, Task, Lock, Busy
<1>10. Room(s)'
  <2>1. \A q \in Resource : Used(q)' = Used(q)
    BY <1>2, UsedStays DEF quotas
  <2>2. \A q \in session[s].got : q \in Resource
    BY <1>2, Running
  <2> QED
    BY <1>2, <1>7, <1>8, <2>1, <2>2 DEF Sound, Room, quotas
<1>11. Sound(s)'
  BY <1>9, <1>10 DEF Sound
<1>12. calls' \in 0..MaxCalls /\ holder' \in [Resource -> Session \cup {None}]
  BY <1>2 DEF Inv, TypeOK
<1> QED
  BY <1>2, <1>4, <1>5, <1>11, <1>12, SessionStep

LEMMA LockLimitInv ==
  ASSUME Inv, NEW s \in Session, LockLimit(s)
  PROVE  Inv'
<1>1. PICK r \in Resource : session[s].res = r /\ r \in session[s].todo
  BY Running DEF LockLimit, At, Busy
<1>2. /\ session[s].at = "lock" /\ holder[r] = None /\ limit[r] # None
      /\ session' = [session EXCEPT ![s] =
                       [session[s] EXCEPT !.at = "read", !.cap = limit[r]]]
      /\ holder' = [holder EXCEPT ![r] = s]
      /\ UNCHANGED <<quotas, calls>>
  BY <1>1 DEF LockLimit, At, Update
<1>3. session[s] \in Call /\ limit[r] \in Nat
  BY <1>2, Running DEF Inv, TypeOK, QuotaTypeOK
<1>4. [session[s] EXCEPT !.at = "read", !.cap = limit[r]] \in Call
  BY <1>3, CallMoves
<1>5. session'[s] = [session[s] EXCEPT !.at = "read", !.cap = limit[r]]
  BY <1>2 DEF Inv, TypeOK
<1>6. /\ session'[s].at = "read" /\ session'[s].cap = limit[r]
      /\ session'[s].res = r
      /\ session'[s].job = session[s].job /\ session'[s].want = session[s].want
      /\ session'[s].todo = session[s].todo /\ session'[s].got = session[s].got
  BY <1>1, <1>3, <1>5 DEF Call
<1>7. Sound(s)
  BY DEF Inv
<1>8. Task(s)'
  BY <1>1, <1>2, <1>6, <1>7 DEF Sound, Task, Busy
<1>9. holder' \in [Resource -> Session \cup {None}] /\ holder'[r] = s
  BY <1>2 DEF Inv, TypeOK
<1>10. \A q \in Resource : \A t \in Session : holder[q] = t => holder'[q] = t
  BY <1>2, SessionAssumption DEF Inv, TypeOK
<1>11. session[s].got \subseteq Resource
  BY <1>2, Running
<1>12. Lock(s)'
  BY <1>6, <1>7, <1>9, <1>10, <1>11 DEF Sound, Lock
<1>13. Room(s)'
  <2>1. \A q \in Resource : Used(q)' = Used(q)
    BY <1>2, UsedStays DEF quotas
  <2> QED
    BY <1>2, <1>6, <1>7, <1>11, <2>1 DEF Sound, Room, quotas
<1>14. Sound(s)'
  BY <1>8, <1>12, <1>13 DEF Sound
<1>15. calls' \in 0..MaxCalls
  BY <1>2 DEF Inv, TypeOK
<1> QED
  BY <1>2, <1>4, <1>9, <1>10, <1>14, <1>15, SessionStep

LEMMA ReadUsedInv ==
  ASSUME Inv, NEW s \in Session, ReadUsed(s)
  PROVE  Inv'
<1>1. PICK r \in Resource : session[s].res = r /\ r \in session[s].todo
  BY Running DEF ReadUsed, At, Busy
<1>2. Used(r) \in Nat
  BY UsedNat DEF Inv, TypeOK
<1>3. PICK n \in Nat : n = Used(r)
  BY <1>2
<1>4. /\ session[s].at = "read" /\ UNCHANGED <<quotas, holder, calls>>
      /\ session' = [session EXCEPT ![s] =
                       [session[s] EXCEPT !.at = "insert", !.used = n]]
  BY <1>1, <1>3 DEF ReadUsed, At, Update
<1>5. session[s] \in Call
  BY <1>4, Running
<1>6. [session[s] EXCEPT !.at = "insert", !.used = n] \in Call
  BY <1>5, CallMoves
<1>7. session'[s] = [session[s] EXCEPT !.at = "insert", !.used = n]
  BY <1>4 DEF Inv, TypeOK
<1>8. /\ session'[s].at = "insert" /\ session'[s].used = n
      /\ session'[s].res = r /\ session'[s].cap = session[s].cap
      /\ session'[s].job = session[s].job /\ session'[s].want = session[s].want
      /\ session'[s].todo = session[s].todo /\ session'[s].got = session[s].got
  BY <1>1, <1>5, <1>7 DEF Call
<1>9. Sound(s)
  BY DEF Inv
<1>10. Task(s)' /\ Lock(s)'
  BY <1>1, <1>4, <1>8, <1>9 DEF Sound, Task, Lock, Busy
<1>11. Room(s)'
  <2>1. \A q \in Resource : Used(q)' = Used(q) /\ Used(q) \in Nat
    BY <1>4, UsedStays, UsedNat DEF quotas, Inv, TypeOK
  <2>2. session[s].got \subseteq Resource
    BY <1>4, Running
  <2>3. limit'[r] = session[s].cap
    BY <1>1, <1>4, <1>9 DEF Sound, Room, quotas
  <2>4. \A q \in Resource : q = r => Used(q)' <= n
    BY <1>3, <2>1
  <2>5. \A q \in session[s].got :
          /\ limit'[q] # None /\ Used(q)' + session[s].want[q] <= limit'[q]
          /\ row'[session[s].job][q].status = "none"
    BY <1>4, <1>9, <2>1, <2>2 DEF Sound, Room, quotas
  <2> QED
    BY <1>8, <2>3, <2>4, <2>5 DEF Room
<1>12. Sound(s)'
  BY <1>10, <1>11 DEF Sound
<1>13. calls' \in 0..MaxCalls /\ holder' \in [Resource -> Session \cup {None}]
  BY <1>4 DEF Inv, TypeOK
<1> QED
  BY <1>4, <1>6, <1>12, <1>13, SessionStep

LEMMA InsertInv ==
  ASSUME Inv, NEW s \in Session, Insert(s)
  PROVE  Inv'
<1>1. PICK r \in Resource : session[s].res = r /\ r \in session[s].todo
  BY Running DEF Insert, At, Busy
<1>2. /\ session[s].at = "insert" /\ ~Exhausted(s) /\ ~Duplicate(s)
      /\ UNCHANGED <<quotas, holder, calls>>
      /\ session' = [session EXCEPT ![s] =
           [session[s] EXCEPT !.at = "next", !.todo = @ \ {r}, !.got = @ \cup {r}]]
  BY <1>1 DEF Insert, At, Update
<1>3. /\ session[s] \in Call /\ session[s].got \subseteq Resource
      /\ session[s].want \in [Resource -> Nat]
      /\ session[s].cap \in Nat /\ session[s].used \in Nat
  BY <1>2, Running
<1>4. [session[s] EXCEPT !.at = "next", !.todo = @ \ {r}, !.got = @ \cup {r}] \in Call
  BY <1>3, CallMoves
<1>5. session'[s] =
        [session[s] EXCEPT !.at = "next", !.todo = @ \ {r}, !.got = @ \cup {r}]
  BY <1>2 DEF Inv, TypeOK
<1>6. /\ session'[s].at = "next"
      /\ session'[s].job = session[s].job /\ session'[s].want = session[s].want
      /\ session'[s].todo = session[s].todo \ {r}
      /\ session'[s].got = session[s].got \cup {r}
  BY <1>3, <1>5 DEF Call
<1>7. Sound(s)
  BY DEF Inv
<1>8. Task(s)'
  BY <1>1, <1>2, <1>6, <1>7 DEF Sound, Task, Busy
<1>9. Lock(s)'
  BY <1>1, <1>2, <1>6, <1>7 DEF Sound, Lock
<1>10. Room(s)'
  <2>1. \A q \in Resource : Used(q)' = Used(q) /\ Used(q) \in Nat
    BY <1>2, UsedStays, UsedNat DEF quotas, Inv, TypeOK
  <2>2. \A q \in session[s].got :
          /\ limit'[q] # None /\ Used(q)' + session[s].want[q] <= limit'[q]
          /\ row'[session[s].job][q].status = "none"
    BY <1>2, <1>3, <1>7, <2>1 DEF Sound, Room, quotas
  <2>3. Used(r) <= session[s].used /\ limit[r] = session[s].cap
    BY <1>1, <1>2, <1>7 DEF Sound, Room
  <2>4. session[s].used + session[s].want[r] <= session[s].cap
    BY <1>1, <1>2, <1>3 DEF Exhausted
  <2>5. Used(r) + session[s].want[r] <= limit[r]
    BY <1>3, <2>1, <2>3, <2>4
  <2>6. limit[r] # None
    BY <1>3, <2>3, QuotaAssumption
  <2>7. row[session[s].job][r].status = "none"
    BY <1>1, <1>2 DEF Duplicate
  <2>8. /\ limit'[r] # None /\ Used(r)' + session[s].want[r] <= limit'[r]
        /\ row'[session[s].job][r].status = "none"
    BY <1>2, <2>1, <2>5, <2>6, <2>7 DEF quotas
  <2> QED
    BY <1>6, <2>2, <2>8 DEF Room
<1>11. Sound(s)'
  BY <1>8, <1>9, <1>10 DEF Sound
<1>12. calls' \in 0..MaxCalls /\ holder' \in [Resource -> Session \cup {None}]
  BY <1>2 DEF Inv, TypeOK
<1> QED
  BY <1>2, <1>4, <1>11, <1>12, SessionStep

\* The rows a commit adds.
LEMMA Committed ==
  ASSUME Inv, NEW s \in Session, Commit(s)
  PROVE  /\ session[s].job \in Job /\ session[s].want \in Wants
         /\ session[s].got = Wanted(session[s].want)
         /\ QuotaTypeOK'
         /\ \A k \in Job : \A r \in Resource :
              row'[k][r] =
                IF k = session[s].job /\ r \in session[s].got
                THEN [status |-> "reserved", amount |-> session[s].want[r]]
                ELSE row[k][r]
<1>1. session[s].at = "next" /\ session[s].todo = {}
  BY DEF Commit, At
<1>2. session[s].job \in Job /\ session[s].want \in Wants
  BY <1>1, Running
<1>3. session[s].got = Wanted(session[s].want)
  BY <1>1 DEF Inv, Sound, Task
<1>4. /\ row' = Reserved(session[s].job, session[s].want, session[s].got)
      /\ limit' = limit
  BY DEF Commit
<1>5. QuotaTypeOK
  BY DEF Inv, TypeOK
<1> HIDE DEF QuotaTypeOK
<1>6. /\ row' \in [Job -> [Resource -> Row]]
      /\ \A k \in Job : \A r \in Resource :
           row'[k][r] =
             IF k = session[s].job /\ r \in session[s].got
             THEN [status |-> "reserved", amount |-> session[s].want[r]]
             ELSE row[k][r]
  BY <1>2, <1>4, <1>5, ReservedRows
<1> QED
  BY <1>2, <1>3, <1>4, <1>5, <1>6 DEF QuotaTypeOK

LEMMA CommitInv ==
  ASSUME Inv, NEW s \in Session, Commit(s)
  PROVE  Inv'
<1>1. /\ session' = [session EXCEPT ![s] = Idle]
      /\ holder' = [r \in Resource |-> IF holder[r] = s THEN None ELSE holder[r]]
      /\ UNCHANGED <<limit, calls>>
  BY DEF Commit, End, Update
<1>2. TypeOK'
  BY <1>1, Committed, IdleCall DEF Inv, TypeOK
<1>3. Sound(s)'
  BY <1>1, OverIsSound DEF Inv, TypeOK
<1>4. ASSUME NEW t \in Session, t # s PROVE Sound(t)'
  <2>1. session'[t] = session[t]
    BY <1>1, <1>4 DEF Inv, TypeOK
  <2>2. ASSUME NEW r \in Resource, holder[r] = t
        PROVE  /\ holder'[r] = t /\ limit'[r] = limit[r] /\ Used(r)' <= Used(r)
               /\ \A j \in Job : row[j][r].status = "none" => row'[j][r].status = "none"
    <3>1. r \notin session[s].got
      BY <1>4, <2>2 DEF Inv, Sound, Lock
    <3>2. ASSUME NEW j \in Job PROVE row'[j][r] = row[j][r]
      <4>1. row'[j][r] = IF j = session[s].job /\ r \in session[s].got
                         THEN [status |-> "reserved", amount |-> session[s].want[r]]
                         ELSE row[j][r]
        BY Committed
      <4> QED
        BY <3>1, <4>1
    <3>3. Used(r)' = Used(r) /\ Used(r) \in Nat
      BY <3>2, UsedSame, UsedNat DEF Inv, TypeOK
    <3> QED
      BY <1>1, <1>4, <2>2, <3>2, <3>3
  <2> QED
    BY <1>2, <2>1, <2>2, Steady
<1> QED
  BY <1>2, <1>3, <1>4 DEF Inv

\* A statement that marks rows never makes the use of a resource grow.
LEMMA MarkedLess ==
  ASSUME QuotaTypeOK, NEW j \in Job, NEW rs, NEW from \in SUBSET InUse,
         NEW to \in Status \ {"none"}, row' = Marked(j, rs, from, to), UNCHANGED limit
  PROVE  /\ QuotaTypeOK'
         /\ \A r \in Resource :
              /\ Used(r)' <= Used(r)
              /\ \A k \in Job : row[k][r].status = "none" => row'[k][r].status = "none"
<1>1. row' \in [Job -> [Resource -> Row]]
  BY MarkedRows
<1>2. ASSUME NEW k \in Job, NEW r \in Resource
      PROVE  row'[k][r] = IF k = j /\ r \in rs /\ row[k][r].status \in from
                          THEN [status |-> to, amount |-> row[k][r].amount]
                          ELSE row[k][r]
  BY MarkedRows
<1>3. QuotaTypeOK'
  BY <1>1 DEF QuotaTypeOK
<1>4. ASSUME NEW r \in Resource, NEW k \in Job
      PROVE  /\ Charge(k, r)' <= Charge(k, r)
             /\ row[k][r].status = "none" => row'[k][r].status = "none"
  <2>1. row[k][r].amount \in Nat
    BY DEF QuotaTypeOK, Row
  <2>2. CASE k = j /\ r \in rs /\ row[k][r].status \in from
    <3>1. row'[k][r] = [status |-> to, amount |-> row[k][r].amount]
      BY <1>2, <2>2
    <3>2. Charge(k, r) = row[k][r].amount /\ row[k][r].status # "none"
      BY <2>2 DEF Charge, InUse
    <3>3. Charge(k, r)' \in {0, row[k][r].amount}
      BY <3>1 DEF Charge
    <3> QED
      BY <2>1, <3>2, <3>3
  <2>3. CASE ~(k = j /\ r \in rs /\ row[k][r].status \in from)
    <3>1. row'[k][r] = row[k][r]
      BY <1>2, <2>3
    <3>2. Charge(k, r)' = Charge(k, r) /\ Charge(k, r) \in Nat
      BY <3>1, ChargeNat DEF Charge
    <3> QED
      BY <3>1, <3>2
  <2> QED
    BY <2>2, <2>3
<1>5. \A r \in Resource : Used(r)' <= Used(r)
  BY <1>3, <1>4, UsedLess
<1> QED
  BY <1>3, <1>4, <1>5

LEMMA StatementInv ==
  ASSUME Inv, Statement
  PROVE  Inv'
<1>1. QuotaTypeOK
  BY DEF Inv, TypeOK
<1>2. ASSUME NEW j \in Job, NEW r \in Resource, Consume(j, r) PROVE Inv'
  <2>1. /\ row' = Marked(j, {r}, {"reserved"}, "consumed") /\ limit' = limit
        /\ UNCHANGED <<holder, session, calls>>
    BY <1>2 DEF Consume
  <2>2. {"reserved"} \in SUBSET InUse /\ "consumed" \in Status \ {"none"}
    BY DEF InUse, Status
  <2> QED
    BY <1>1, <2>1, <2>2, MarkedLess, TableStep
<1>3. ASSUME NEW j \in Job, NEW rs, Release(j, rs) PROVE Inv'
  <2>1. /\ row' = Marked(j, rs, InUse, "released") /\ limit' = limit
        /\ UNCHANGED <<holder, session, calls>>
    BY <1>3 DEF Release
  <2>2. InUse \in SUBSET InUse /\ "released" \in Status \ {"none"}
    BY DEF Status
  <2> QED
    BY <1>1, <2>1, <2>2, MarkedLess, TableStep
<1>4. ASSUME NEW r \in Resource, NEW cap \in Caps, SetLimit(r, cap) PROVE Inv'
  <2>1. /\ holder[r] = None /\ limit' = [limit EXCEPT ![r] = cap]
        /\ UNCHANGED <<row, holder, session, calls>>
    BY <1>4 DEF SetLimit
  <2>2. QuotaTypeOK'
    BY <1>1, <2>1, QuotaAssumption DEF QuotaTypeOK
  <2>3. \A q \in Resource : \A t \in Session : holder[q] = t => limit'[q] = limit[q]
    BY <1>1, <2>1, SessionAssumption DEF QuotaTypeOK
  <2>4. \A q \in Resource : Used(q)' <= Used(q)
    BY <1>1, <2>1, UsedStays, UsedNat
  <2> QED
    BY <2>1, <2>2, <2>3, <2>4, TableStep
<1> QED
  BY <1>2, <1>3, <1>4 DEF Statement

-----------------------------------------------------------------------------
LEMMA InitInv ==
  ASSUME Init
  PROVE  Inv
<1>1. QuotaTypeOK
  BY DEF Init, QuotaInit, QuotaTypeOK, NoRow, Row, Status
<1>2. /\ holder \in [Resource -> Session \cup {None}]
      /\ session \in [Session -> Call]
  BY IdleCall DEF Init
<1>3. calls \in 0..MaxCalls
  BY SessionAssumption DEF Init
<1>4. TypeOK
  BY <1>1, <1>2, <1>3 DEF TypeOK
<1>5. \A s \in Session : Sound(s)
  BY DEF Init, Sound, Task, Lock, Room, Busy, Idle
<1> QED
  BY <1>4, <1>5 DEF Inv

LEMMA StepInv ==
  ASSUME Inv, [Next]_vars
  PROVE  Inv'
<1>1. ASSUME NEW s \in Session, Begin(s) \/ Step(s) \/ Fail(s) \/ Victim(s) PROVE Inv'
  BY <1>1, BeginInv, AskInv, LockLimitInv, ReadUsedInv, InsertInv, CommitInv, AbortInv
  DEF Step, NoLimit, InsertFails, Fail, Victim
<1>2. CASE Statement
  BY <1>2, StatementInv
<1>3. CASE UNCHANGED vars
  <2>1. UNCHANGED <<quotas, holder, session, calls>>
    BY <1>3 DEF vars
  <2>2. QuotaTypeOK'
    BY <2>1 DEF Inv, TypeOK, QuotaTypeOK, quotas
  <2>3. \A r \in Resource : Used(r)' <= Used(r)
    BY <2>1, UsedStays, UsedNat DEF Inv, TypeOK, quotas
  <2> QED
    BY <2>1, <2>2, <2>3, TableStep DEF quotas
<1> QED
  BY <1>1, <1>2, <1>3 DEF Next

(* The invariant holds in every reachable state.                           *)
THEOREM Invariant == Spec => []Inv
<1>1. Init => Inv
  BY InitInv
<1>2. Inv /\ [Next]_vars => Inv'
  BY StepInv
<1> QED
  BY <1>1, <1>2, PTL DEF Spec

(* Types of the tables, the locks and the calls.                           *)
THEOREM QuotaTypesCorrect == Spec => []TypeOK
BY Invariant, PTL DEF Inv

(* The rows change by a commit, a consume or a release.                    *)
LEMMA RowSteps ==
  ASSUME [Next]_vars
  PROVE  \/ UNCHANGED row
         \/ \E s \in Session : Commit(s)
         \/ \E j \in Job : \E r \in Resource : Consume(j, r)
         \/ \E j \in Job : \E rs \in SUBSET Resource : Release(j, rs)
<1>1. ASSUME NEW s \in Session, Begin(s) \/ Step(s) \/ Fail(s) \/ Victim(s)
      PROVE  UNCHANGED row \/ Commit(s)
  BY <1>1 DEF Begin, Step, Ask, LockLimit, NoLimit, ReadUsed, Insert, InsertFails,
              Fail, Victim, Abort, quotas
<1>2. CASE Statement
  <2>1. ASSUME NEW j \in Job, NEW r \in Resource, Release(j, {r})
        PROVE  \E rs \in SUBSET Resource : Release(j, rs)
    BY <2>1
  <2>2. ASSUME NEW r \in Resource, NEW cap \in Caps, SetLimit(r, cap)
        PROVE  UNCHANGED row
    BY <2>2 DEF SetLimit
  <2> QED
    BY <1>2, <2>1, <2>2 DEF Statement
<1>3. CASE UNCHANGED vars
  BY <1>3 DEF vars, quotas
<1> QED
  BY <1>1, <1>2, <1>3 DEF Next

(* Only a commit makes the use of a resource grow.                         *)
LEMMA GrowthStep ==
  ASSUME Inv, [Next]_vars, NEW r \in Resource, Used(r)' > Used(r)
  PROVE  Used(r)' <= limit[r]
<1>1. QuotaTypeOK /\ Used(r) \in Nat
  BY UsedNat DEF Inv, TypeOK
<1>2. ASSUME row' = row PROVE FALSE
  BY <1>1, <1>2, UsedStays
<1>3. ASSUME NEW s \in Session, Commit(s) PROVE Used(r)' <= limit[r]
  <2>1. CASE r \notin session[s].got
    <3>1. ASSUME NEW j \in Job PROVE row'[j][r] = row[j][r]
      <4>1. row'[j][r] = IF j = session[s].job /\ r \in session[s].got
                         THEN [status |-> "reserved", amount |-> session[s].want[r]]
                         ELSE row[j][r]
        BY <1>3, Committed
      <4> QED
        BY <2>1, <4>1
    <3>2. Used(r)' = Used(r)
      BY <3>1, UsedSame
    <3> QED
      BY <1>1, <3>2
  <2>2. CASE r \in session[s].got
    <3>1. /\ session[s].job \in Job /\ session[s].want \in Wants
          /\ \A k \in Job : row'[k][r] =
               IF k = session[s].job
               THEN [status |-> "reserved", amount |-> session[s].want[r]]
               ELSE row[k][r]
      BY <1>3, <2>2, Committed
    <3>2. PICK j \in Job, n \in Nat : j = session[s].job /\ n = session[s].want[r]
      BY <3>1, QuotaAssumption
    <3>3. row[j][r].status = "none" /\ Used(r) + n <= limit[r]
      BY <2>2, <3>2 DEF Inv, Sound, Room
    <3>4. Used(r)' = Used(r) + n
      BY <1>1, <3>1, <3>2, <3>3, UsedMore
    <3> QED
      BY <3>3, <3>4
  <2> QED
    BY <2>1, <2>2
<1>4. ASSUME NEW j \in Job, NEW rs, NEW from \in SUBSET InUse,
             NEW to \in Status \ {"none"}, row' = Marked(j, rs, from, to), limit' = limit
      PROVE  FALSE
  <2>1. QuotaTypeOK' /\ Used(r)' <= Used(r)
    BY <1>1, <1>4, MarkedLess
  <2>2. Used(r)' \in Nat
    BY <2>1, UsedNatNext
  <2> QED
    BY <1>1, <2>1, <2>2
<1>5. ASSUME NEW j \in Job, NEW q \in Resource, Consume(j, q) PROVE FALSE
  <2>1. {"reserved"} \in SUBSET InUse /\ "consumed" \in Status \ {"none"}
    BY DEF InUse, Status
  <2> QED
    BY <1>4, <1>5, <2>1 DEF Consume
<1>6. ASSUME NEW j \in Job, NEW rs \in SUBSET Resource, Release(j, rs) PROVE FALSE
  <2>1. InUse \in SUBSET InUse /\ "released" \in Status \ {"none"}
    BY DEF Status
  <2> QED
    BY <1>4, <1>6, <2>1 DEF Release
<1> QED
  BY <1>2, <1>3, <1>5, <1>6, RowSteps

(* However calls interleave, the use of a resource never grows past the    *)
(* limit in force: at a commit the limit is the one that was locked, and   *)
(* the use is at most the one that was read.                               *)
THEOREM LimitsRespected == Spec => GrowsWithinLimit
<1>1. Inv /\ [Next]_vars =>
        [\A r \in Resource : Used(r)' > Used(r) => Used(r)' <= limit[r]]_vars
  BY GrowthStep
<1> QED
  BY <1>1, Invariant, PTL DEF Spec, GrowsWithinLimit

LEMMA ForwardStep ==
  ASSUME Inv, [Next]_vars, NEW j \in Job, NEW r \in Resource
  PROVE  /\ Rank(row[j][r].status) <= Rank(row'[j][r].status)
         /\ row[j][r].status # "none" => row'[j][r].amount = row[j][r].amount
<1>1. QuotaTypeOK /\ row[j][r].status \in Status
  BY DEF Inv, TypeOK, QuotaTypeOK, Row
<1>2. CASE row'[j][r] = row[j][r]
  BY <1>1, <1>2 DEF Rank, Status
<1>3. ASSUME NEW s \in Session, Commit(s), row'[j][r] # row[j][r]
      PROVE  row[j][r].status = "none" /\ row'[j][r].status = "reserved"
  <2>1. row'[j][r] = IF j = session[s].job /\ r \in session[s].got
                     THEN [status |-> "reserved", amount |-> session[s].want[r]]
                     ELSE row[j][r]
    BY <1>3, Committed
  <2>2. j = session[s].job /\ r \in session[s].got /\ row'[j][r].status = "reserved"
    BY <1>3, <2>1
  <2> QED
    BY <2>2 DEF Inv, Sound, Room
<1>4. ASSUME NEW k \in Job, NEW q \in Resource, Consume(k, q)
      PROVE  \/ row'[j][r] = row[j][r]
             \/ /\ row[j][r].status = "reserved" /\ row'[j][r].status = "consumed"
                /\ row'[j][r].amount = row[j][r].amount
  <2>1. row' = Marked(k, {q}, {"reserved"}, "consumed") /\ "consumed" \in Status
    BY <1>4 DEF Consume, Status
  <2>2. row'[j][r] = IF j = k /\ r \in {q} /\ row[j][r].status \in {"reserved"}
                     THEN [status |-> "consumed", amount |-> row[j][r].amount]
                     ELSE row[j][r]
    BY <1>1, <2>1, MarkedRows
  <2> QED
    BY <2>2
<1>5. ASSUME NEW k \in Job, NEW rs \in SUBSET Resource, Release(k, rs)
      PROVE  \/ row'[j][r] = row[j][r]
             \/ /\ row[j][r].status \in InUse /\ row'[j][r].status = "released"
                /\ row'[j][r].amount = row[j][r].amount
  <2>1. row' = Marked(k, rs, InUse, "released") /\ "released" \in Status
    BY <1>5 DEF Release, Status
  <2>2. row'[j][r] = IF j = k /\ r \in rs /\ row[j][r].status \in InUse
                     THEN [status |-> "released", amount |-> row[j][r].amount]
                     ELSE row[j][r]
    BY <1>1, <2>1, MarkedRows
  <2> QED
    BY <2>2
<1>6. /\ Rank("none") = 0 /\ Rank("reserved") = 1
      /\ Rank("consumed") = 2 /\ Rank("released") = 3
  BY DEF Rank
<1>7. CASE UNCHANGED row
  BY <1>2, <1>7
<1> QED
  BY <1>2, <1>3, <1>4, <1>5, <1>6, <1>7, RowSteps DEF InUse

(* A reservation never goes back: only a commit makes one, of a row that   *)
(* was free when it was inserted and still is.                             *)
THEOREM ForwardOnly == Spec => RowsMoveForward
<1>1. Inv /\ [Next]_vars =>
        [\A j \in Job : \A r \in Resource :
           /\ Rank(row[j][r].status) <= Rank(row'[j][r].status)
           /\ row[j][r].status # "none" => row'[j][r].amount = row[j][r].amount]_vars
  BY ForwardStep
<1> QED
  BY <1>1, Invariant, PTL DEF Spec, RowsMoveForward

-----------------------------------------------------------------------------
(* The terms of the abstract ledger are those of the tables.               *)
LEMMA LedgerTerms ==
  /\ \A r \in Resource : Ledger!Used(r) = Used(r)
  /\ \A want \in Wants : Ledger!Wanted(want) = Wanted(want)
  /\ \A j \in Job : \A want \in Wants : \A rs :
       Ledger!Reserved(j, want, rs) = Reserved(j, want, rs)
  /\ \A j \in Job : \A rs, from, to : Ledger!Marked(j, rs, from, to) = Marked(j, rs, from, to)
  /\ Ledger!Job = Job /\ Ledger!InUse = InUse /\ Ledger!quotas = quotas
  /\ Ledger!QuotaInit <=> QuotaInit
BY DEF Ledger!Used, Used, Ledger!Charge, Charge, Ledger!SumTo, SumTo, Ledger!Job, Job,
       Ledger!Wanted, Wanted, Ledger!Reserved, Reserved, Ledger!Marked, Marked,
       Ledger!InUse, InUse, Ledger!quotas, quotas, Ledger!QuotaInit, QuotaInit,
       Ledger!NoRow, NoRow

LEMMA CommitReserves ==
  ASSUME Inv, NEW s \in Session, Commit(s)
  PROVE  Ledger!Next
<1>1. PICK j \in Job, want \in Wants : j = session[s].job /\ want = session[s].want
  BY Committed
<1>2. session[s].got = Wanted(want)
  BY <1>1, Committed
<1>3. row' = Reserved(j, want, Wanted(want)) /\ limit' = limit
  BY <1>1, <1>2 DEF Commit
<1>4. ASSUME NEW r \in Wanted(want)
      PROVE  /\ limit[r] # None /\ row[j][r].status = "none"
             /\ Used(r) + want[r] <= limit[r]
  BY <1>1, <1>2 DEF Inv, Sound, Room
<1>5. Wanted(want) \subseteq Resource
  BY DEF Wanted
<1>6. Ledger!Reserve(j, want)
  BY <1>3, <1>4, <1>5, LedgerTerms DEF Ledger!Reserve
<1> QED
  BY <1>6, LedgerTerms DEF Ledger!Next

LEMMA LedgerStep ==
  ASSUME Inv, [Next]_vars
  PROVE  [Ledger!Next]_quotas
<1>1. ASSUME NEW s \in Session, Begin(s) \/ Step(s) \/ Fail(s) \/ Victim(s)
      PROVE  UNCHANGED quotas \/ Commit(s)
  BY <1>1 DEF Begin, Step, Ask, LockLimit, NoLimit, ReadUsed, Insert, InsertFails,
              Fail, Victim, Abort
<1>2. ASSUME NEW j \in Job, NEW r \in Resource, Consume(j, r) PROVE Ledger!Next
  <2>1. Ledger!Consume(j, r)
    BY <1>2, LedgerTerms DEF Consume, Ledger!Consume
  <2> QED
    BY <2>1, LedgerTerms DEF Ledger!Next
<1>3. ASSUME NEW j \in Job, NEW rs \in SUBSET Resource, Release(j, rs) PROVE Ledger!Next
  <2>1. Ledger!Release(j, rs)
    BY <1>3, LedgerTerms DEF Release, Ledger!Release
  <2> QED
    BY <2>1, LedgerTerms DEF Ledger!Next
<1>4. ASSUME NEW r \in Resource, NEW cap \in Caps, SetLimit(r, cap) PROVE Ledger!Next
  <2>1. Ledger!SetLimit(r, cap)
    BY <1>4 DEF SetLimit, Ledger!SetLimit
  <2> QED
    BY <2>1 DEF Ledger!Next
<1>5. CASE Statement
  BY <1>2, <1>3, <1>4, <1>5 DEF Statement
<1>6. CASE UNCHANGED vars
  BY <1>6 DEF vars
<1> QED
  BY <1>1, <1>5, <1>6, CommitReserves DEF Next

(* Atomicity: the commit is the ledger's Reserve, every other step of a    *)
(* call leaves the ledger as it is.                                        *)
THEOREM ReserveIsAtomic == Spec => ImplementsLedger
<1>1. Init => Ledger!QuotaInit
  BY LedgerTerms DEF Init
<1>2. Inv /\ [Next]_vars => [Ledger!Next]_(Ledger!quotas)
  BY LedgerStep DEF Ledger!quotas, quotas
<1> QED
  BY <1>1, <1>2, Invariant, PTL DEF Spec, ImplementsLedger, Ledger!Spec
=============================================================================
