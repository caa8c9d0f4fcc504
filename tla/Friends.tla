------------------------------ MODULE Friends ------------------------------
(***************************************************************************)
(* Requests and friendships, in both versions of the API.                  *)
(*   v1 (internal/logic/friend): AddFriend stores a request in             *)
(*      friend_verify, ValidFriend accepts it, in a transaction that also  *)
(*      stores the row of friend, or refuses it.                           *)
(*   v2 (internal/logic/v2/verify): SendVerify stores a request in verify, *)
(*      DealVerify sets its status and then stores the row of friend_v2,   *)
(*      whatever the status is, as two separate statements.                *)
(* A step is one statement.  The four tables have no unique key besides    *)
(* id, and nothing is ever deleted.  A status is 1, 2 or 3: waiting,       *)
(* accepted, refused.  The nicknames and the events pushed by v2 are left  *)
(* out.                                                                    *)
(***************************************************************************)
EXTENDS ChatCalls

VARIABLES
  verifies,   \* friend_verify: of each id the pair <<send, rev>> and rev_status
  friends,    \* friend: how many rows each pair <<send, rev>> has
  verifies2,  \* verify, the same for v2
  friends2,   \* friend_v2
  fcalls,     \* calls made so far
  ffaults,    \* faults so far
  fpc,        \* where each call is
  arg,        \* its version, pair, request, user, new status, and whether it
              \* has found a friend row
  accepted,   \* <<request, user>>: acceptances committed by v1, and by whom
  dealt,      \* requests of v2 on which a DealVerify wrote its status
  raced       \* pairs (with the version) on which two calls overlapped, or on
              \* which a check of SendVerify failed

friendVars == <<verifies, friends, verifies2, friends2, fcalls, ffaults, fpc,
                arg, accepted, dealt, raced>>

-----------------------------------------------------------------------------
Pairs  == Users \X Users

\* Of a call: version v, pair p, request i, user u, new status st.
Job(v, p, i, u, st) == [v |-> v, pair |-> p, id |-> i, by |-> u, status |-> st,
                        found |-> FALSE]
NoArg == Job(0, <<>>, 0, 0, 0)

\* The row of a new request.
Waiting(p) == [pair |-> p, status |-> 1]

FGoto(c, label) == fpc' = [fpc EXCEPT ![c] = label]
Returns(c) == FGoto(c, "idle") /\ arg' = [arg EXCEPT ![c] = NoArg]

FriendsInit ==
  /\ verifies = <<>> /\ friends = [p \in Pairs |-> 0]
  /\ verifies2 = <<>> /\ friends2 = [p \in Pairs |-> 0]
  /\ fcalls = 0 /\ ffaults = 0
  /\ fpc = [c \in Calls |-> "idle"] /\ arg = [c \in Calls |-> NoArg]
  /\ accepted = {} /\ dealt = {} /\ raced = {}

\* Call c has made its first query and goes on with a at label.
Proceeds(c, a, label) ==
  /\ arg' = [arg EXCEPT ![c] = a]
  /\ FGoto(c, label)
  /\ raced' = IF \E d \in Calls \ {c} : arg[d].v = a.v /\ arg[d].pair = a.pair
              THEN raced \cup {<<a.v, a.pair>>} ELSE raced

CallBegins(c) ==
  /\ fpc[c] = "idle" /\ fcalls < MaxCalls
  /\ fcalls' = fcalls + 1

-----------------------------------------------------------------------------
\* AddFriend: Take a friend row, in either direction.
AddFriend(c) ==
  /\ CallBegins(c)
  /\ \E p \in Pairs :
       /\ p[1] # p[2]
       /\ IF friends[p] + friends[<<p[2], p[1]>>] > 0
            THEN UNCHANGED <<fpc, arg, raced>>
            ELSE Proceeds(c, Job(1, p, 0, 0, 0), "pending")
  /\ UNCHANGED <<verifies, friends, verifies2, friends2, dealt, ffaults, accepted>>

\* Take a request of the same direction that is still waiting: there is
\* nothing to do.
TakePending(c) ==
  /\ fpc[c] = "pending"
  /\ IF \E i \in DOMAIN verifies : verifies[i] = Waiting(arg[c].pair)
       THEN Returns(c)
       ELSE FGoto(c, "request") /\ UNCHANGED arg
  /\ UNCHANGED <<verifies, friends, verifies2, friends2, dealt, fcalls, ffaults,
                 accepted, raced>>

CreateRequest(c) ==
  /\ fpc[c] = "request"
  /\ verifies' = Append(verifies, Waiting(arg[c].pair))
  /\ Returns(c)
  /\ UNCHANGED <<friends, verifies2, friends2, dealt, fcalls, ffaults, accepted, raced>>

\* ValidFriend: Take the request; only its receiver may answer it.  Its
\* current status is not looked at.
ValidFriend(c) ==
  /\ CallBegins(c)
  /\ \E i \in DOMAIN verifies, u \in Users, st \in {1, 2} :
       IF verifies[i].pair[2] # u
         THEN UNCHANGED <<fpc, arg, raced>>
         ELSE Proceeds(c, Job(1, verifies[i].pair, i, u, 0),
                       IF st = 1 THEN "transaction" ELSE "refuse")
  /\ UNCHANGED <<verifies, friends, verifies2, friends2, dealt, ffaults, accepted>>

\* Mutant: an acceptance does not look for the friend row.
TakeFriendNever(c) ==
  /\ fpc[c] = "transaction"
  /\ FGoto(c, "commit")
  /\ UNCHANGED <<verifies, friends, verifies2, friends2, dealt, fcalls, ffaults, arg,
                 accepted, raced>>

\* Accepting: the transaction reads the committed rows of friend ...
TakeFriend(c) ==
  /\ fpc[c] = "transaction"
  /\ arg' = [arg EXCEPT ![c].found = friends[arg[c].pair] > 0]
  /\ FGoto(c, "commit")
  /\ UNCHANGED <<verifies, friends, verifies2, friends2, dealt, fcalls, ffaults,
                 accepted, raced>>

\* Mutant: the status is written and no friend row.
CommitStatusOnly(c) ==
  /\ fpc[c] = "commit"
  /\ verifies' = [verifies EXCEPT ![arg[c].id].status = 2]
  /\ accepted' = accepted \cup {<<arg[c].id, arg[c].by>>}
  /\ Returns(c)
  /\ UNCHANGED <<friends, verifies2, friends2, dealt, fcalls, ffaults, raced>>

\* ... and commits the new row, if it found none, with the new status.
Commit(c) ==
  LET a == arg[c]
  IN  /\ fpc[c] = "commit"
      /\ friends' = [friends EXCEPT ![a.pair] = IF a.found THEN @ ELSE @ + 1]
      /\ verifies' = [verifies EXCEPT ![a.id].status = 2]
      /\ accepted' = accepted \cup {<<a.id, a.by>>}
      /\ Returns(c)
      /\ UNCHANGED <<verifies2, friends2, dealt, fcalls, ffaults, raced>>

Refuse(c) ==
  /\ fpc[c] = "refuse"
  /\ verifies' = [verifies EXCEPT ![arg[c].id].status = 3]
  /\ Returns(c)
  /\ UNCHANGED <<friends, verifies2, friends2, dealt, fcalls, ffaults, accepted, raced>>

-----------------------------------------------------------------------------
\* SendVerify: List the friend rows of the pair; a failed List has total 0.
SendVerify(c) ==
  /\ CallBegins(c)
  /\ \E p \in Pairs, fails \in BOOLEAN :
       /\ fails => ffaults < MaxFaults
       /\ ffaults' = IF fails THEN ffaults + 1 ELSE ffaults
       /\ IF friends2[p] > 0 /\ ~fails
            THEN UNCHANGED <<fpc, arg, raced>>
            ELSE Proceeds(c, Job(2, p, 0, 0, 0), "listed")
  /\ UNCHANGED <<verifies, friends, verifies2, friends2, dealt, accepted>>

\* List the requests of the pair, of any status.
ListRequests(c) ==
  /\ fpc[c] = "listed"
  /\ IF \E i \in DOMAIN verifies2 : verifies2[i].pair = arg[c].pair
       THEN Returns(c)
       ELSE FGoto(c, "request2") /\ UNCHANGED arg
  /\ UNCHANGED <<verifies, friends, verifies2, friends2, dealt, fcalls, ffaults,
                 accepted, raced>>

CreateRequest2(c) ==
  /\ fpc[c] = "request2"
  /\ verifies2' = Append(verifies2, Waiting(arg[c].pair))
  /\ Returns(c)
  /\ UNCHANGED <<verifies, friends, friends2, dealt, fcalls, ffaults, accepted, raced>>

\* DealVerify: Get the request, whoever asks.
DealVerify(c) ==
  /\ CallBegins(c)
  /\ \E i \in DOMAIN verifies2, st \in 0..3 :
       Proceeds(c, Job(2, verifies2[i].pair, i, 0, st), "update")
  /\ UNCHANGED <<verifies, friends, verifies2, friends2, dealt, ffaults, accepted>>

\* Updates without columns leaves a zero status as it was.
UpdateStatus(c) ==
  /\ fpc[c] = "update"
  /\ verifies2' = [verifies2 EXCEPT ![arg[c].id].status =
                     IF arg[c].status = 0 THEN @ ELSE arg[c].status]
  /\ dealt' = dealt \cup {arg[c].id}
  /\ FGoto(c, "befriend")
  /\ UNCHANGED <<verifies, friends, friends2, fcalls, ffaults, arg, accepted, raced>>

\* The friend row, whatever the status is.
CreateFriend2(c) ==
  /\ fpc[c] = "befriend"
  /\ friends2' = [friends2 EXCEPT ![arg[c].pair] = @ + 1]
  /\ Returns(c)
  /\ UNCHANGED <<verifies, friends, verifies2, dealt, fcalls, ffaults, accepted, raced>>

-----------------------------------------------------------------------------
\* A statement fails, and with it the call (a transaction is rolled back); a
\* failed List of SendVerify counts as an empty one.
CallFails(c) ==
  /\ fpc[c] # "idle" /\ ffaults < MaxFaults
  /\ ffaults' = ffaults + 1
  /\ IF fpc[c] = "listed"
       THEN /\ FGoto(c, "request2")
            /\ raced' = raced \cup {<<2, arg[c].pair>>}
            /\ UNCHANGED arg
       ELSE Returns(c) /\ UNCHANGED raced
  /\ UNCHANGED <<verifies, friends, verifies2, friends2, dealt, fcalls, accepted>>

\* The server restarts; open transactions are rolled back.
FriendsRestart ==
  /\ ffaults < MaxFaults /\ \E c \in Calls : fpc[c] # "idle"
  /\ ffaults' = ffaults + 1
  /\ fpc' = [c \in Calls |-> "idle"] /\ arg' = [c \in Calls |-> NoArg]
  /\ UNCHANGED <<verifies, friends, verifies2, friends2, dealt, fcalls, accepted, raced>>

FriendsNext ==
  \/ \E c \in Calls :
       \/ AddFriend(c) \/ TakePending(c) \/ CreateRequest(c)
       \/ ValidFriend(c) \/ TakeFriend(c) \/ Commit(c) \/ Refuse(c)
       \/ SendVerify(c) \/ ListRequests(c) \/ CreateRequest2(c)
       \/ DealVerify(c) \/ UpdateStatus(c) \/ CreateFriend2(c)
       \/ CallFails(c)
  \/ FriendsRestart

FriendsSpec == FriendsInit /\ [][FriendsNext]_friendVars

-----------------------------------------------------------------------------
\* Friends are those who asked and were answered.  In v1 the answer is a yes: a
\* row of friend means that the receiver of a request of that direction accepted
\* it (ValidFriend), every acceptance left its row, which a later refusal of the
\* same request does not take back, and no request shows as accepted without it,
\* however the call was cut off.  In v2 any answer will do: a row of friend_v2
\* means that a request of that direction was dealt with (DealVerify), which
\* makes the row for a refusal too.
FriendsByAnswer ==
  /\ \A p \in Pairs :
       friends[p] > 0 <=>
         \E i \in DOMAIN verifies :
           verifies[i].pair = p /\ <<i, p[2]>> \in accepted
  /\ \A i \in DOMAIN verifies :
       verifies[i].status = 2 => friends[verifies[i].pair] > 0
  /\ \A p \in Pairs :
       friends2[p] > 0 => \E i \in dealt : verifies2[i].pair = p

\* "insert if the same relation does not exist", "no second unhandled request":
\* at most one row of friend and one waiting request per direction, unless two
\* calls on that pair overlapped; in v2 at most one request per direction.
OneRowUnlessRaced ==
  \A p \in Pairs :
    /\ <<1, p>> \notin raced =>
         /\ friends[p] <= 1
         /\ \A i, j \in DOMAIN verifies :
              verifies[i] = Waiting(p) /\ verifies[j] = Waiting(p) => i = j
    /\ <<2, p>> \notin raced =>
         \A i, j \in DOMAIN verifies2 :
           verifies2[i].pair = p /\ verifies2[j].pair = p => i = j

=============================================================================
