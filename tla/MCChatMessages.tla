--------------------------- MODULE MCChatMessages ---------------------------
(* Small instances of ChatMessages.  The calls are interchangeable.           *)
EXTENDS ChatMessages, TLC

CONSTANTS k1, k2, alice, bob, m1

Symmetry == Permutations(Calls)
=============================================================================
