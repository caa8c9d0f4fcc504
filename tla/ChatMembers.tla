---------------------------- MODULE ChatMembers ----------------------------
(***************************************************************************)
(* Conversations and their members (internal/logic/chat): the calls        *)
(* CreatePrivateConversation, CreateGroupConversation, AddMembers and      *)
(* RemoveMember, each a sequence of SQL statements without a transaction.  *)
(*                                                                         *)
(* A step is one statement.  The unique keys of the schema, private_key    *)
(* and (conversation_id, user_uuid), are what an INSERT can fail on; a     *)
(* soft-deleted row still holds its key.  The goroutines that announce a   *)
(* change only read the members and push events: they are left out.        *)
(***************************************************************************)
EXTENDS ChatCalls

VARIABLES
  convKey,    \* chat_conversation: private_key of each id
  convCount,  \* and its member_count
  rows,       \* chat_conversation_member, per conversation and user: "none",
              \* "live" or soft-"deleted"
  mcalls,     \* calls made so far
  mfaults,    \* faults so far
  mpc,        \* where each call is
  loc,        \* its arguments and what it has read
  off,        \* conversations whose member_count may be off: calls
              \* overlapped, a statement failed, or a repair ran
  lost,       \* members whose INSERT by the repair failed for another reason
              \* than the unique key
  opened      \* what successful CreatePrivateConversation calls returned

memberVars == <<convKey, convCount, rows, mcalls, mfaults, mpc, loc, off, lost, opened>>

-----------------------------------------------------------------------------
NoConv  == 0

\* users: the ones to insert, to look at or to remove, in the code's order;
\* alone: no other call on the same conversation has overlapped this one.
NoLocals == [op |-> "none", users |-> <<>>, conv |-> NoConv, count |-> 0,
             alone |-> FALSE]

\* sort.Strings(pair), then the two joined.
PrivateKey(a, b) == IF a < b THEN <<a, b>> ELSE <<b, a>>

\* "g:" and a new UUID: no other key.
GroupKey == <<Len(convKey) + 1>>

LiveIn(k) == {u \in Users : rows[k][u] = "live"}

Listed(users) == {users[i] : i \in DOMAIN users}

\* The users of a request without repetitions, in order.
UserLists ==
  UNION {{s \in [1..n -> Users] : \A i, j \in 1..n : i < j => s[i] < s[j]} :
           n \in 0..Cardinality(Users)}

MGoto(c, label) == mpc' = [mpc EXCEPT ![c] = label]

Over(c) ==
  /\ MGoto(c, "idle")
  /\ loc' = [loc EXCEPT ![c] = NoLocals]

\* Call c, with the locals l, begins to work on conversation l.conv.
Others(c, k) == {d \in Calls \ {c} : k # NoConv /\ loc[d].conv = k}
Touches(c, l) ==
  LET others == Others(c, l.conv)
  IN  /\ off' = IF others = {} THEN off ELSE off \cup {l.conv}
      /\ loc' = [d \in Calls |->
           IF d = c THEN [l EXCEPT !.alone = (others = {})]
           ELSE [loc[d] EXCEPT !.alone = @ /\ d \notin others]]

MembersInit ==
  /\ convKey = <<>> /\ convCount = <<>>
  /\ rows = <<>>
  /\ mcalls = 0 /\ mfaults = 0
  /\ mpc = [c \in Calls |-> "idle"]
  /\ loc = [c \in Calls |-> NoLocals]
  /\ off = {} /\ lost = {} /\ opened = {}

Begin(c) ==
  /\ mpc[c] = "idle" /\ mcalls < MaxCalls
  /\ mcalls' = mcalls + 1

-----------------------------------------------------------------------------
\* CreatePrivateConversation: Take by private_key.  The row is kept, and with
\* it the member_count of that moment.
CreatePrivateConversation(c) ==
  /\ Begin(c)
  /\ \E a, b \in Users : \E k \in 0..Len(convKey) :
       /\ a # b
       /\ k # 0 => convKey[k] = PrivateKey(a, b)
       /\ k = 0 => \A i \in DOMAIN convKey : convKey[i] # PrivateKey(a, b)
       /\ MGoto(c, IF k = 0 THEN "create" ELSE "check")
       /\ Touches(c, [op |-> "private", users |-> <<a, b>>, conv |-> k,
                      count |-> IF k = 0 THEN 2 ELSE convCount[k],
                      alone |-> FALSE])
  /\ UNCHANGED <<convKey, convCount, rows, mfaults, lost, opened>>

\* CreateGroupConversation: the creator and the other users of the request.
CreateGroupConversation(c) ==
  /\ Begin(c)
  /\ \E u \in Users, s \in UserLists :
       /\ u \notin Listed(s)
       /\ loc' = [loc EXCEPT ![c] =
            [NoLocals EXCEPT !.op = "group", !.users = <<u>> \o s]]
  /\ MGoto(c, "create")
  /\ UNCHANGED <<convKey, convCount, rows, mfaults, off, lost, opened>>

\* Create(conv): refused when the private_key is taken.
CreateConversation(c) ==
  LET l   == loc[c]
      key == IF l.op = "private" THEN PrivateKey(l.users[1], l.users[2])
             ELSE GroupKey
      k   == Len(convKey) + 1
  IN  /\ mpc[c] = "create"
      /\ \/ /\ \E i \in DOMAIN convKey : convKey[i] = key
            /\ Over(c)
            /\ UNCHANGED <<convKey, convCount, rows, off>>
         \/ /\ \A i \in DOMAIN convKey : convKey[i] # key
            /\ convKey' = Append(convKey, key)
            /\ convCount' = Append(convCount, l.count)
            /\ rows' = Append(rows, [u \in Users |-> "none"])
            /\ MGoto(c, "insert")
            /\ Touches(c, [l EXCEPT !.conv = k, !.count = Len(l.users)])
      /\ UNCHANGED <<mcalls, mfaults, lost, opened>>

\* CreateInBatches: one INSERT, all rows or none.
InsertMembers(c) ==
  LET l == loc[c]
  IN  /\ mpc[c] = "insert"
      /\ \/ /\ \E u \in Listed(l.users) : rows[l.conv][u] # "none"
            /\ Over(c)
            /\ UNCHANGED <<rows, opened>>
         \/ /\ \A u \in Listed(l.users) : rows[l.conv][u] = "none"
            /\ rows' = [rows EXCEPT ![l.conv] = [u \in Users |->
                 IF u \in Listed(l.users) THEN "live" ELSE @[u]]]
            /\ IF l.op = "private"
                 THEN /\ Over(c)
                      /\ opened' = opened \cup {[pair |-> Listed(l.users), conv |-> l.conv]}
                 ELSE MGoto(c, "count") /\ UNCHANGED <<loc, opened>>
      /\ UNCHANGED <<convKey, convCount, mcalls, mfaults, off, lost>>

-----------------------------------------------------------------------------
\* The repair of an existing private conversation goes to the next user, or
\* returns the conversation.
NextUser(c) ==
  LET l == loc[c]
  IN  IF Len(l.users) > 1
        THEN /\ loc' = [loc EXCEPT ![c].users = Tail(@)]
             /\ MGoto(c, "check")
             /\ UNCHANGED opened
        ELSE /\ Over(c)
             /\ opened' = opened \cup {[pair |-> Listed(convKey[l.conv]), conv |-> l.conv]}

\* Take the member's row, ErrRecordNotFound when there is none or it is
\* soft-deleted.
CheckMember(c) ==
  /\ mpc[c] = "check"
  /\ \/ /\ rows[loc[c].conv][Head(loc[c].users)] = "live"
        /\ NextUser(c)
     \/ /\ rows[loc[c].conv][Head(loc[c].users)] # "live"
        /\ MGoto(c, "repair")
        /\ UNCHANGED <<loc, opened>>
  /\ UNCHANGED <<convKey, convCount, rows, mcalls, mfaults, off, lost>>

\* Mutant: the loop goes on without the INSERT.
RepairMemberSkipped(c) ==
  /\ mpc[c] = "repair"
  /\ off' = off \cup {loc[c].conv}
  /\ MGoto(c, "recount")
  /\ UNCHANGED <<convKey, convCount, rows, mcalls, mfaults, loc, lost, opened>>

\* Create of the missing member, its error dropped: a member who was removed
\* stays so, the deleted row holds the key.
RepairMember(c) ==
  LET l == loc[c]
      u == Head(l.users)
  IN  /\ mpc[c] = "repair"
      /\ rows' = [rows EXCEPT ![l.conv][u] = IF @ = "none" THEN "live" ELSE @]
      /\ off' = off \cup {l.conv}
      /\ MGoto(c, "recount")
      /\ UNCHANGED <<convKey, convCount, mcalls, mfaults, loc, lost, opened>>

\* MemberCount is one more than it was when the call began.
RecountRepaired(c) ==
  /\ mpc[c] = "recount"
  /\ convCount' = [convCount EXCEPT ![loc[c].conv] = loc[c].count + 1]
  /\ NextUser(c)
  /\ UNCHANGED <<convKey, rows, mcalls, mfaults, off, lost>>

-----------------------------------------------------------------------------
\* The first statement of AddMembers and RemoveMember: Take the row of the
\* user who calls, ErrAuthSession when there is none.
TakeOperator(c, u, l, label) ==
  /\ IF rows[l.conv][u] = "live"
       THEN MGoto(c, label) /\ Touches(c, l)
       ELSE UNCHANGED <<loc, mpc, off>>
  /\ UNCHANGED <<convKey, convCount, rows, mfaults, lost, opened>>

AddMembers(c) ==
  /\ Begin(c)
  /\ \E u \in Users, k \in DOMAIN convKey, s \in UserLists \ {<<>>} :
       TakeOperator(c, u, [NoLocals EXCEPT !.op = "add", !.users = s, !.conv = k],
                    "list")

\* Mutant: the new count adds every user of the request.
ListMembersUnfiltered(c) ==
  LET l   == loc[c]
      new == SelectSeq(l.users, LAMBDA u : rows[l.conv][u] # "live")
  IN  /\ mpc[c] = "list"
      /\ IF new = <<>> THEN Over(c)
         ELSE /\ loc' = [loc EXCEPT ![c].users = new,
                   ![c].count = Cardinality(LiveIn(l.conv)) + Len(l.users)]
              /\ MGoto(c, "insert")
      /\ UNCHANGED <<convKey, convCount, rows, mcalls, mfaults, off, lost, opened>>

\* Find the members; the ones to create are not among them.
ListMembers(c) ==
  LET l   == loc[c]
      new == SelectSeq(l.users, LAMBDA u : rows[l.conv][u] # "live")
  IN  /\ mpc[c] = "list"
      /\ IF new = <<>> THEN Over(c)
         ELSE /\ loc' = [loc EXCEPT ![c].users = new,
                   ![c].count = Cardinality(LiveIn(l.conv)) + Len(new)]
              /\ MGoto(c, "insert")
      /\ UNCHANGED <<convKey, convCount, rows, mcalls, mfaults, off, lost, opened>>

RemoveMember(c) ==
  /\ Begin(c)
  /\ \E u, v \in Users, k \in DOMAIN convKey :
       TakeOperator(c, u, [NoLocals EXCEPT !.op = "remove", !.users = <<v>>, !.conv = k],
                    "take")

\* Take the row of the user to remove, ErrInvalidParam when there is none.
TakeMember(c) ==
  /\ mpc[c] = "take"
  /\ IF rows[loc[c].conv][loc[c].users[1]] = "live"
       THEN MGoto(c, "delete") /\ UNCHANGED loc
       ELSE Over(c)
  /\ UNCHANGED <<convKey, convCount, rows, mcalls, mfaults, off, lost, opened>>

\* DeleteByID sets deleted_at; on a row already deleted it does nothing.
DeleteMember(c) ==
  /\ mpc[c] = "delete"
  /\ rows' = [rows EXCEPT ![loc[c].conv][loc[c].users[1]] = "deleted"]
  /\ MGoto(c, "get")
  /\ UNCHANGED <<convKey, convCount, mcalls, mfaults, loc, off, lost, opened>>

\* Get the conversation; its count less one, unless it is 0.
GetConversation(c) ==
  /\ mpc[c] = "get"
  /\ \/ /\ convCount[loc[c].conv] > 0
        /\ loc' = [loc EXCEPT ![c].count = convCount[loc[c].conv] - 1]
        /\ MGoto(c, "count")
     \/ /\ convCount[loc[c].conv] = 0
        /\ Over(c)
  /\ UNCHANGED <<convKey, convCount, rows, mcalls, mfaults, off, lost, opened>>

\* Update MemberCount, the last statement of the calls on groups.
WriteCount(c) ==
  LET l == loc[c]
  IN  /\ mpc[c] = "count"
      /\ convCount' = [convCount EXCEPT ![l.conv] = l.count]
      /\ off' = IF l.op = "add" /\ l.alone THEN off \ {l.conv} ELSE off
      /\ Over(c)
      /\ UNCHANGED <<convKey, rows, mcalls, mfaults, lost, opened>>

-----------------------------------------------------------------------------
\* A statement fails: the error is returned, except that the INSERT of a
\* repair and every UPDATE of member_count drop it, and that RemoveMember
\* takes a failed Get for a missing conversation.
StatementFails(c) ==
  LET l == loc[c]
  IN  /\ mpc[c] # "idle" /\ mfaults < MaxFaults
      /\ mfaults' = mfaults + 1
      /\ off' = off \cup ({l.conv} \ {NoConv})
      /\ lost' = IF mpc[c] = "repair" THEN lost \cup {<<l.conv, Head(l.users)>>} ELSE lost
      /\ CASE mpc[c] = "repair"  -> MGoto(c, "recount") /\ UNCHANGED <<loc, opened>>
           [] mpc[c] = "recount" -> NextUser(c)
           [] OTHER              -> Over(c) /\ UNCHANGED opened
      /\ UNCHANGED <<convKey, convCount, rows, mcalls>>

\* The server restarts: the calls in progress are gone.
MembersRestart ==
  /\ mfaults < MaxFaults /\ \E c \in Calls : mpc[c] # "idle"
  /\ mfaults' = mfaults + 1
  /\ off' = off \cup ({loc[c].conv : c \in Calls} \ {NoConv})
  /\ mpc' = [c \in Calls |-> "idle"]
  /\ loc' = [c \in Calls |-> NoLocals]
  /\ UNCHANGED <<convKey, convCount, rows, mcalls, lost, opened>>

MembersNext ==
  \/ \E c \in Calls :
       \/ CreatePrivateConversation(c) \/ CreateGroupConversation(c)
       \/ AddMembers(c) \/ RemoveMember(c)
       \/ CreateConversation(c) \/ InsertMembers(c)
       \/ CheckMember(c) \/ RepairMember(c) \/ RecountRepaired(c)
       \/ ListMembers(c) \/ TakeMember(c) \/ DeleteMember(c)
       \/ GetConversation(c) \/ WriteCount(c) \/ StatementFails(c)
  \/ MembersRestart

MembersSpec == MembersInit /\ [][MembersNext]_memberVars

-----------------------------------------------------------------------------
\* CreatePrivateConversation, "create or get": two users are never given two
\* conversations, whichever of them asks and however the calls overlap, and both
\* are in the one they are given, also when the call that created it failed or
\* was cut off between its two INSERTs.  There are two ways to be out of it: to
\* have been removed, since the deleted row keeps its key and the repair cannot
\* insert another, and a repair whose INSERT failed, which nobody is told.
InUnlessRemoved ==
  /\ \A x, y \in opened : x.pair = y.pair => x.conv = y.conv
  /\ \A x \in opened : \A u \in x.pair :
       \/ rows[x.conv][u] = "live"
       \/ rows[x.conv][u] = "deleted"
       \/ <<x.conv, u>> \in lost

\* member_count is the number of members once no call is running on the
\* conversation, as long as its calls did not overlap, none was cut off and no
\* repair ran; and AddMembers, which counts the rows anew, puts it right again
\* whatever happened before.
CountRightUnlessRaced ==
  \A k \in DOMAIN convKey :
    k \notin off /\ (\A c \in Calls : loc[c].conv # k)
      => convCount[k] = Cardinality(LiveIn(k))

=============================================================================
