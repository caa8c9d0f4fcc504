---------------------------- MODULE MCChatTables ----------------------------
\* The two table models side by side: a behaviour exercises one of them, since
\* they share no table.
EXTENDS ChatMembers, Friends, TLC

VARIABLE tables

Init == MembersInit /\ FriendsInit /\ tables \in {"members", "friends"}

Next ==
  \/ tables = "members" /\ MembersNext /\ UNCHANGED <<tables, friendVars>>
  \/ tables = "friends" /\ FriendsNext /\ UNCHANGED <<tables, memberVars>>

Spec == Init /\ [][Next]_<<tables, memberVars, friendVars>>

Symmetry == Permutations(Calls)
=============================================================================
