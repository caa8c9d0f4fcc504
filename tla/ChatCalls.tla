----------------------------- MODULE ChatCalls -----------------------------
(***************************************************************************)
(* What the models of the table handlers (ChatMembers, Friends) share: the *)
(* users, the calls the API server executes at the same time, and the      *)
(* bounds on what may happen to them.                                      *)
(***************************************************************************)
EXTENDS Integers, Sequences, FiniteSets

CONSTANTS
  Users,      \* user uuids; the order of the strings is that of the numbers
  Calls,      \* calls in progress at the same time
  MaxCalls,   \* bound: calls made
  MaxFaults   \* bound: statements that fail and restarts of the server

ASSUME UsersAssumption == Users \subseteq Nat \ {0}
ASSUME BoundsAssumption == MaxCalls \in Nat /\ MaxFaults \in Nat

=============================================================================
