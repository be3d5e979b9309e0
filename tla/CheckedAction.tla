---------------------------- MODULE CheckedAction ----------------------------
(***************************************************************************)
(* What an action boundary promises, whatever its pipeline looks like      *)
(* inside.  A call is cleared for one action at most, and only when the    *)
(* policy in force at that moment does not forbid that action to the       *)
(* origin the call really has; it then performs that action, once, and no  *)
(* other.  AgentBoundary implements it.                                    *)
(***************************************************************************)
CONSTANTS
  Calls, Origins, Actions, None,
  Forbids(_, _, _)   \* Forbids(policy, origin, action)

VARIABLES
  policy,      \* the policy in force
  origin,      \* where the event of a call came from, None before the call
  cleared,     \* the action a call is cleared for
  performed    \* the action a call has performed

vars == <<policy, origin, cleared, performed>>

Init ==
  /\ origin = [c \in Calls |-> None]
  /\ cleared = [c \in Calls |-> None]
  /\ performed = [c \in Calls |-> None]

\* A call begins for an event whose origin never changes afterwards.
Begin(c, o) ==
  /\ origin[c] = None
  /\ origin' = [origin EXCEPT ![c] = o]
  /\ UNCHANGED <<policy, cleared, performed>>

Clear(c, a) ==
  /\ origin[c] # None
  /\ cleared[c] = None
  /\ ~ Forbids(policy, origin[c], a)
  /\ cleared' = [cleared EXCEPT ![c] = a]
  /\ UNCHANGED <<policy, origin, performed>>

Perform(c) ==
  /\ cleared[c] # None
  /\ performed[c] = None
  /\ performed' = [performed EXCEPT ![c] = cleared[c]]
  /\ UNCHANGED <<policy, origin, cleared>>

\* A pipeline without an await takes a call through all of it, or as far as
\* the clearance, in one step.
BeginCleared(c, o, a) ==
  /\ origin[c] = None
  /\ ~ Forbids(policy, o, a)
  /\ origin' = [origin EXCEPT ![c] = o]
  /\ cleared' = [cleared EXCEPT ![c] = a]
  /\ performed' \in {performed, [performed EXCEPT ![c] = a]}
  /\ UNCHANGED policy

\* The policy changes for the decisions to come, not for those already taken.
ChangePolicy == UNCHANGED <<origin, cleared, performed>>

Next ==
  \/ ChangePolicy
  \/ \E c \in Calls :
       \/ \E o \in Origins : Begin(c, o)
       \/ \E a \in Actions : Clear(c, a)
       \/ \E o \in Origins, a \in Actions : BeginCleared(c, o, a)
       \/ Perform(c)

Spec == Init /\ [][Next]_vars
=============================================================================
