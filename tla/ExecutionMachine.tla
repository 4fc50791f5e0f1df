-------------------------- MODULE ExecutionMachine --------------------------
(***************************************************************************)
(* What an execution of a recovery action may go through: the state        *)
(* machine of rpa/execution.py.  A decision is immutable there; `granted`  *)
(* holds those of its preconditions that are met, which whoever rebuilds   *)
(* the decision may add to.  The current time is the caller's argument.    *)
(***************************************************************************)
EXTENDS Naturals

CONSTANTS
  Execution,   \* identifiers of executions
  None         \* an execution that is not there

VARIABLES
  state,       \* execution -> its state, or None
  granted      \* execution -> preconditions of executing it that are met

State == {"PLANNED", "AUTHORIZED", "EXECUTING", "SUCCEEDED", "FAILED", "BLOCKED",
          "CANCELLED"}
Precondition == {"policy_allowed", "authorized", "resources_reserved"}

AllowedTransitions ==
  [from \in State |->
     CASE from = "PLANNED" -> {"AUTHORIZED", "BLOCKED", "CANCELLED"}
       [] from = "AUTHORIZED" -> {"EXECUTING", "BLOCKED", "CANCELLED"}
       [] from = "EXECUTING" -> {"SUCCEEDED", "FAILED", "BLOCKED"}
       [] OTHER -> {}]

CanExecute(x) == state[x] = "AUTHORIZED" /\ granted[x] = Precondition

Init ==
  /\ state = [x \in Execution |-> None]
  /\ granted = [x \in Execution |-> {}]

Grant(x) ==
  \E more \in SUBSET Precondition :
    granted' = [granted EXCEPT ![x] = @ \cup more]

Plan(x) ==
  /\ state[x] = None
  /\ state' = [state EXCEPT ![x] = "PLANNED"]
  /\ Grant(x)

Transition(x, target) ==
  /\ state[x] # None
  /\ target \in AllowedTransitions[state[x]]
  /\ target = "EXECUTING" => CanExecute(x)
  /\ state' = [state EXCEPT ![x] = target]
  /\ Grant(x)

Next ==
  \E x \in Execution : Plan(x) \/ \E target \in State : Transition(x, target)

Spec == Init /\ [][Next]_<<state, granted>>
=============================================================================
