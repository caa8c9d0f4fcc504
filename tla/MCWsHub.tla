------------------------------ MODULE MCWsHub ------------------------------
EXTENDS WsHub, TLC

CONSTANTS c1, c2, u1

\* Both connections belong to one user.
SameUser == [c \in {c1, c2} |-> u1]
ConnSymmetry == Permutations({c1, c2})

OneConn  == [c \in {c1} |-> u1]
=============================================================================
