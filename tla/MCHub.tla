-------------------------------- MODULE MCHub --------------------------------
EXTENDS Hub, TLC

CONSTANTS c1, c2, u1

\* One client of a user and one without.
OneAnonymous == c1 :> u1 @@ c2 :> NoUser
=============================================================================
