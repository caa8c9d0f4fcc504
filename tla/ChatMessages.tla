---------------------------- MODULE ChatMessages ----------------------------
(***************************************************************************)
(* The messages of one conversation (internal/logic/chat): SendMessage,    *)
(* ReadMessages, RecallMessage and UpdateConversationSettings, called at   *)
(* the same time by the members' clients, while members are added and      *)
(* removed.                                                                *)
(*                                                                         *)
(* No handler opens a transaction: a step is one SQL statement, and the    *)
(* rows a handler has read may be stale when it writes.  A handler that    *)
(* announces its change starts a goroutine that outlives the call but uses *)
(* the context of the request, which ends once the handler has returned.   *)
(* Every query filters on ConversationID, so one conversation is enough.   *)
(* The goroutines of ReadMessages and RecallMessage only read the members  *)
(* and push events, which changes nothing here: they are left out.         *)
(***************************************************************************)
EXTENDS Integers, FiniteSets

CONSTANTS
  Calls,       \* calls in progress, each with the goroutine it starts
  Users,       \* user_uuid
  Founders,    \* the users the conversation was created with
  Admins,      \* the users whose member row has Role >= 2
  ClientIds,   \* client_msg_id
  MaxCalls,    \* bound: calls made
  MaxRemoved   \* bound: members removed

ASSUME UsersAssumption == Admins \subseteq Users /\ Founders \subseteq Users
ASSUME BoundsAssumption == MaxCalls \in Nat /\ MaxRemoved \in Nat

VARIABLES
  members,        \* the rows of chat_conversation_member; stored: there is one;
                  \* active: and it is not deleted; counted: as history, its
                  \* UnreadCount was written since a handler inserted it
  messages,       \* the rows of chat_message
  nextId,         \* AUTO_INCREMENT of chat_message
  lastMessageID,  \* chat_conversation.last_message_id
  calls,          \* calls made so far
  pc,             \* where each call is
  req,            \* its arguments, and the message it stored
  seen,           \* LastReadMessageID in its copies of member rows
  cnt,            \* the count it has taken, and for whom
  todo,           \* members its goroutine has still to notify
  cancelled,      \* calls whose request context has ended
  answers,        \* what successful SendMessage calls returned
  listed,         \* who was in the list the goroutine of a message read,
                  \* in this life of the server
  pushed,         \* how often message_new went to each user
  disturbed       \* a SendMessage or ReadMessages began during another, or a
                  \* statement after the INSERT of a message was not executed

dbVars   == <<members, messages, nextId, lastMessageID>>
goVars   == <<calls, pc, req, seen, cnt, todo, cancelled>>
histVars == <<answers, listed, pushed, disturbed>>
vars     == <<dbVars, goVars, histVars>>

-----------------------------------------------------------------------------
Ids == 1..MaxCalls

\* A request has an op, a user, for SendMessage a client message id, and an id:
\* the stored message, UpToMessageId or MessageId.
NoRequest == [op |-> "none"]
NothingSeen == [u \in Users |-> 0]

\* dao Update is Select(columns).Updates by primary key, which finds no row
\* once the member is soft-deleted.
Updated(u, row) ==
  IF members[u].active THEN [members EXCEPT ![u] = row] ELSE members

\* Mutant: ID.Gte.
UnreadFrom(u, last) ==
  Cardinality({i \in DOMAIN messages : i >= last /\ messages[i].sender # u})

\* ID.Gt(last), SendUUID.Neq(u), Count().
UnreadAfter(u, last) ==
  Cardinality({i \in DOMAIN messages : i > last /\ messages[i].sender # u})

\* The call goes on at label.
Goto(c, label) == pc' = [pc EXCEPT ![c] = label]

\* The call, and the goroutine it started, are over.
Finish(c) ==
  /\ Goto(c, "idle")
  /\ req' = [req EXCEPT ![c] = NoRequest]
  /\ seen' = [seen EXCEPT ![c] = NothingSeen]
  /\ cnt' = [cnt EXCEPT ![c] = 0]
  /\ todo' = [todo EXCEPT ![c] = {}]
  /\ cancelled' = cancelled \ {c}

Running(c) == pc[c] # "idle"

\* A conversation with its members, before the first message.
Init ==
  /\ members = [u \in Users |->
       [stored |-> u \in Founders, active |-> u \in Founders, lastRead |-> 0,
        unread |-> 0, pinned |-> FALSE, counted |-> TRUE]]
  /\ messages = [i \in {} |-> 0] /\ nextId = 1 /\ lastMessageID = 0
  /\ calls = 0
  /\ pc = [c \in Calls |-> "idle"]
  /\ req = [c \in Calls |-> NoRequest]
  /\ seen = [c \in Calls |-> NothingSeen]
  /\ cnt = [c \in Calls |-> 0]
  /\ todo = [c \in Calls |-> {}]
  /\ cancelled = {}
  /\ answers = {} /\ disturbed = FALSE
  /\ listed = [i \in Ids |-> {}]
  /\ pushed = [u \in Users |-> [i \in Ids |-> 0]]

\* The first statement of every handler: Take the row of the calling user in
\* the conversation, ErrAuthSession when there is none.  ReadMessages goes on
\* to use its LastReadMessageID.
TakeMember(c, r, label) ==
  /\ pc[c] = "idle" /\ calls < MaxCalls
  /\ calls' = calls + 1
  /\ IF members[r.user].active
       THEN /\ Goto(c, label)
            /\ req' = [req EXCEPT ![c] = r]
            /\ seen' = [seen EXCEPT ![c][r.user] =
                 IF r.op = "read" THEN members[r.user].lastRead ELSE 0]
       ELSE UNCHANGED <<pc, req, seen>>
  /\ UNCHANGED <<dbVars, cnt, todo, cancelled, answers, listed, pushed>>

\* Whether a call of SendMessage or ReadMessages begins during another one.
Overlaps ==
  \E d \in Calls : Running(d) /\ req[d].op \in {"send", "read"}

-----------------------------------------------------------------------------
(***************************************************************************)
(* SendMessage.                                                            *)
(***************************************************************************)
SendMessage(c) ==
  /\ \E u \in Users, k \in ClientIds :
       TakeMember(c, [op |-> "send", user |-> u, client |-> k, id |-> 0],
                  "lookup")
  /\ disturbed' = (disturbed \/ Overlaps)

\* Mutant: the lookup leaves out SendUUID.
SameClientId(r) == {i \in DOMAIN messages : messages[i].client = r.client}

\* ConversationID, SendUUID, ClientMsgID: the unique key of chat_message.
SameKey(r) ==
  {i \in DOMAIN messages :
     messages[i].sender = r.user /\ messages[i].client = r.client}

\* The message is there already: answer with it.
AnswerExisting(c) ==
  /\ pc[c] = "lookup"
  /\ \E i \in SameKey(req[c]) :
       answers' = answers \cup
         {[user |-> req[c].user, client |-> req[c].client, id |-> i]}
  /\ Finish(c)
  /\ UNCHANGED <<dbVars, listed, pushed, disturbed, calls>>

LookupMisses(c) ==
  /\ pc[c] = "lookup" /\ SameKey(req[c]) = {}
  /\ Goto(c, "create")
  /\ UNCHANGED <<dbVars, req, seen, cnt, todo, cancelled, histVars, calls>>

\* Create.  The unique key uidx_conv_sender_client refuses a message stored
\* since the lookup; the refused INSERT uses up an id.
Duplicate(r) ==
  \E i \in DOMAIN messages :
    messages[i].sender = r.user /\ messages[i].client = r.client

CreateMessage(c) ==
  /\ pc[c] = "create"
  /\ nextId' = nextId + 1
  /\ IF Duplicate(req[c])
       THEN Finish(c) /\ UNCHANGED messages
       ELSE /\ messages' =
                 [i \in DOMAIN messages \cup {nextId} |->
                    IF i = nextId
                      THEN [sender |-> req[c].user, client |-> req[c].client,
                            revoked |-> FALSE]
                      ELSE messages[i]]
            /\ req' = [req EXCEPT ![c].id = nextId]
            /\ Goto(c, "setLast")
            /\ UNCHANGED <<seen, cnt, todo, cancelled>>
  /\ UNCHANGED <<members, lastMessageID, histVars, calls>>

\* Update LastMessageID, answer and start the goroutine.
SetLastMessage(c) ==
  /\ pc[c] = "setLast"
  /\ lastMessageID' = req[c].id
  /\ answers' = answers \cup
       {[user |-> req[c].user, client |-> req[c].client, id |-> req[c].id]}
  /\ Goto(c, "list")
  /\ UNCHANGED <<members, messages, nextId, req, seen, cnt, todo, cancelled,
                 listed, pushed, disturbed, calls>>

\* That update fails and its error is ignored.
SetLastFails(c) ==
  /\ pc[c] = "setLast"
  /\ answers' = answers \cup
       {[user |-> req[c].user, client |-> req[c].client, id |-> req[c].id]}
  /\ Goto(c, "list")
  /\ disturbed' = TRUE
  /\ UNCHANGED <<dbVars, req, seen, cnt, todo, cancelled, listed, pushed,
                 calls>>

InGoroutine(c) == pc[c] \in {"list", "push", "write"}

\* The handler has returned and the server ends the context of the request.
ContextEnds(c) ==
  /\ InGoroutine(c) /\ c \notin cancelled
  /\ cancelled' = cancelled \cup {c}
  /\ UNCHANGED <<dbVars, pc, req, seen, cnt, todo, histVars, calls>>

\* Find the members; an error ends the goroutine.
ListMembers(c) ==
  LET active == {u \in Users : members[u].active}
  IN  /\ pc[c] = "list"
      /\ IF c \in cancelled
           THEN Finish(c) /\ disturbed' = TRUE /\ UNCHANGED listed
           ELSE /\ todo' = [todo EXCEPT ![c] = active]
                /\ seen' = [seen EXCEPT ![c] =
                              [u \in Users |-> members[u].lastRead]]
                /\ listed' = [listed EXCEPT ![req[c].id] = active]
                /\ Goto(c, "push")
                /\ UNCHANGED <<req, cnt, cancelled, disturbed>>
      /\ UNCHANGED <<dbVars, answers, pushed, calls>>

\* Mutant: return instead of continue.
NotifyMemberReturning(c) ==
  /\ pc[c] = "push"
  /\ \E u \in todo[c] :
       /\ pushed' = [pushed EXCEPT ![u][req[c].id] = @ + 1]
       /\ IF c \in cancelled
            THEN Finish(c) /\ disturbed' = TRUE
            ELSE /\ todo' = [todo EXCEPT ![c] = @ \ {u}]
                 /\ cnt' = [cnt EXCEPT ![c] = UnreadAfter(u, seen[c][u])]
                 /\ req' = [req EXCEPT ![c].user = u]
                 /\ Goto(c, "write")
                 /\ UNCHANGED <<seen, cancelled, disturbed>>
  /\ UNCHANGED <<dbVars, answers, listed, calls>>

\* The next member of the list: SendJSON of message_new, which no other call
\* can see, and Count with the LastReadMessageID of the list.  On an error the
\* loop continues with the next member.
NotifyMember(c) ==
  /\ pc[c] = "push"
  /\ \E u \in todo[c] :
       /\ pushed' = [pushed EXCEPT ![u][req[c].id] = @ + 1]
       /\ todo' = [todo EXCEPT ![c] = @ \ {u}]
       /\ IF c \in cancelled
            THEN disturbed' = TRUE /\ UNCHANGED <<pc, req, cnt>>
            ELSE /\ cnt' = [cnt EXCEPT ![c] = UnreadAfter(u, seen[c][u])]
                 /\ req' = [req EXCEPT ![c].user = u]
                 /\ Goto(c, "write")
                 /\ UNCHANGED disturbed
  /\ UNCHANGED <<dbVars, seen, cancelled, answers, listed, calls>>

BroadcastEnds(c) ==
  /\ pc[c] = "push" /\ todo[c] = {}
  /\ Finish(c)
  /\ UNCHANGED <<dbVars, histVars, calls>>

\* Mutant: Update without its list of columns writes the stale copy.
UnreadWholeRow(u, n, last) ==
  [members[u] EXCEPT !.unread = n, !.lastRead = last, !.counted = TRUE]

\* Update(mem, "UnreadCount").
UnreadColumn(u, n, last) == [members[u] EXCEPT !.unread = n, !.counted = TRUE]

\* Its error is ignored.
WriteUnread(c) ==
  LET u == req[c].user
  IN  /\ pc[c] = "write"
      /\ IF c \in cancelled
           THEN disturbed' = TRUE /\ UNCHANGED members
           ELSE /\ members' = Updated(u, UnreadColumn(u, cnt[c], seen[c][u]))
                /\ UNCHANGED disturbed
      /\ cnt' = [cnt EXCEPT ![c] = 0]
      /\ seen' = [seen EXCEPT ![c][u] = 0]
      /\ Goto(c, "push")
      /\ UNCHANGED <<messages, nextId, lastMessageID, req, todo, cancelled,
                     answers, listed, pushed, calls>>

-----------------------------------------------------------------------------
(***************************************************************************)
(* ReadMessages.                                                           *)
(***************************************************************************)
ReadMessages(c) ==
  /\ \E u \in Users, i \in {0} \cup Ids :
       TakeMember(c, [op |-> "read", user |-> u, id |-> i], "readCheck")
  /\ disturbed' = (disturbed \/ Overlaps)

\* Nothing to advance, or no such message in the conversation.
ReadIsVoid(c) ==
  \/ req[c].id <= seen[c][req[c].user]
  \/ req[c].id \notin DOMAIN messages

ReadRefused(c) ==
  /\ pc[c] = "readCheck" /\ ReadIsVoid(c)
  /\ Finish(c)
  /\ UNCHANGED <<dbVars, histVars, calls>>

\* The message is looked up and the ones after it are counted: messages are
\* never deleted, so that nothing can come between the two.
ReadAccepted(c) ==
  /\ pc[c] = "readCheck" /\ ~ReadIsVoid(c)
  /\ cnt' = [cnt EXCEPT ![c] = UnreadAfter(req[c].user, req[c].id)]
  /\ Goto(c, "readWrite")
  /\ UNCHANGED <<dbVars, req, seen, todo, cancelled, histVars, calls>>

\* Update(mem, "LastReadMessageID", "LastReadAt", "UnreadCount").
RowAfterRead(u, upTo, last, n) ==
  [members[u] EXCEPT !.lastRead = upTo, !.unread = n, !.counted = TRUE]

WriteRead(c) ==
  LET u == req[c].user
  IN  /\ pc[c] = "readWrite"
      /\ members' = Updated(u, RowAfterRead(u, req[c].id, seen[c][u], cnt[c]))
      /\ Finish(c)
      /\ UNCHANGED <<messages, nextId, lastMessageID, histVars, calls>>

-----------------------------------------------------------------------------
(***************************************************************************)
(* RecallMessage, UpdateConversationSettings, RemoveMember, AddMembers.    *)
(***************************************************************************)
RecallMessage(c) ==
  /\ \E u \in Users, i \in Ids :
       TakeMember(c, [op |-> "recall", user |-> u, id |-> i], "recallLoad")
  /\ UNCHANGED disturbed

\* The message must be of the conversation, and the caller its sender or, by
\* a second look at the member row, an administrator.
RecallLoad(c) ==
  LET u == req[c].user
      i == req[c].id
  IN  /\ pc[c] = "recallLoad"
      /\ IF /\ i \in DOMAIN messages
            /\ messages[i].sender # u => u \in Admins /\ members[u].active
           THEN /\ Goto(c, "recallWrite")
                /\ UNCHANGED <<req, seen, cnt, todo, cancelled>>
           ELSE Finish(c)
      /\ UNCHANGED <<dbVars, histVars, calls>>

RecallWrite(c) ==
  /\ pc[c] = "recallWrite"
  /\ messages' = [messages EXCEPT ![req[c].id].revoked = TRUE]
  /\ Finish(c)
  /\ UNCHANGED <<members, nextId, lastMessageID, histVars, calls>>

UpdateConversationSettings(c) ==
  /\ \E u \in Users :
       TakeMember(c, [op |-> "settings", user |-> u, id |-> 0],
                  "settingsWrite")
  /\ UNCHANGED disturbed

\* Update of the columns the request names; IsPinned stands for them.
SettingsWrite(c) ==
  LET u == req[c].user
  IN  /\ pc[c] = "settingsWrite"
      /\ members' = Updated(u, [members[u] EXCEPT !.pinned = TRUE])
      /\ Finish(c)
      /\ UNCHANGED <<messages, nextId, lastMessageID, histVars, calls>>

\* A statement of a handler fails, because the database does or because the
\* client has gone and taken the context with it, or the request names no
\* column: the handler returns.
HandlerReturns(c) ==
  /\ pc[c] \in {"lookup", "create", "readCheck", "readWrite",
                "recallLoad", "recallWrite", "settingsWrite"}
  /\ Finish(c)
  /\ UNCHANGED <<dbVars, histVars, calls>>

\* The server stops in the middle of its calls and goroutines and is started
\* again on the same database.
ServerStops ==
  /\ \E c \in Calls : Running(c)
  /\ pc' = [c \in Calls |-> "idle"]
  /\ req' = [c \in Calls |-> NoRequest]
  /\ seen' = [c \in Calls |-> NothingSeen]
  /\ cnt' = [c \in Calls |-> 0]
  /\ todo' = [c \in Calls |-> {}]
  /\ cancelled' = {}
  /\ listed' = [i \in Ids |-> {}]
  /\ disturbed' = (disturbed \/ \E c \in Calls : req[c].op = "send")
  /\ UNCHANGED <<dbVars, answers, pushed, calls>>

\* DeleteByID in RemoveMember: the row stays, with its deleted_at flag set.
\* The other writes of that handler are to columns this module has not.
MemberRemoved ==
  /\ Cardinality({u \in Users : members[u].stored /\ ~members[u].active}) < MaxRemoved
  /\ \E u \in Users :
       /\ members[u].active
       /\ members' = [members EXCEPT ![u].active = FALSE]
  /\ UNCHANGED <<messages, nextId, lastMessageID, goVars, histVars>>

\* The INSERT of AddMembers, and of CreatePrivateConversation when it finds that
\* a member is missing: nothing is read yet, and UnreadCount is 0 whatever is
\* stored.  The unique key refuses a user whose row is deleted.
MemberAdded ==
  /\ \E u \in Users :
       /\ ~members[u].stored
       /\ members' = [members EXCEPT ![u].stored = TRUE, ![u].active = TRUE,
                                     ![u].counted = FALSE]
  /\ UNCHANGED <<messages, nextId, lastMessageID, goVars, histVars>>

SendStep(c) ==
  \/ SendMessage(c) \/ AnswerExisting(c) \/ LookupMisses(c)
  \/ CreateMessage(c) \/ SetLastMessage(c) \/ SetLastFails(c)

Broadcast(c) ==
  \/ ContextEnds(c) \/ ListMembers(c) \/ NotifyMember(c)
  \/ WriteUnread(c) \/ BroadcastEnds(c)

ReadStep(c) ==
  \/ ReadMessages(c) \/ ReadRefused(c) \/ ReadAccepted(c)
  \/ WriteRead(c)

OtherStep(c) ==
  \/ RecallMessage(c) \/ RecallLoad(c) \/ RecallWrite(c)
  \/ UpdateConversationSettings(c) \/ SettingsWrite(c) \/ HandlerReturns(c)

Next ==
  \/ \E c \in Calls :
       SendStep(c) \/ Broadcast(c) \/ ReadStep(c) \/ OtherStep(c)
  \/ MemberRemoved \/ MemberAdded \/ ServerStops

Spec == Init /\ [][Next]_vars

-----------------------------------------------------------------------------
(***************************************************************************)
(* Properties.                                                             *)
(***************************************************************************)
\* SendMessage is idempotent: however often a client repeats a message, and
\* whatever calls run or break off meanwhile, every successful answer for its
\* ClientMsgId names the same message, which is the sender's own.
AnswersAgree ==
  \A a \in answers :
    /\ a.id \in DOMAIN messages
    /\ messages[a.id].sender = a.user /\ messages[a.id].client = a.client
    /\ \A b \in answers : b.user = a.user /\ b.client = a.client => b.id = a.id

\* Once the goroutine of SendMessage has its list of members, every one of them
\* is sent message_new exactly once while the server runs, though the context
\* of the request may end, and members leave, at any point of the loop, and
\* though the sender may call SendMessage again after a lost answer.
ListedNotifiedOnce ==
  \A i \in Ids, u \in Users :
    /\ pushed[u][i] <= 1
    /\ u \in listed[i] =>
         \/ pushed[u][i] = 1
         \/ \E c \in Calls : /\ pc[c] \in {"push", "write"}
                             /\ req[c].id = i /\ u \in todo[c]

\* Only ReadMessages can move a member's LastReadMessageID back, and only when
\* it has changed since that call looked at it: the broadcasts and settings
\* updates that write the same row from older copies never do.
ReadBackOnlyByRace ==
  [][\A u \in Users :
       members'[u].lastRead < members[u].lastRead =>
         \E c \in Calls : /\ pc[c] = "readWrite" /\ req[c].user = u
                          /\ seen[c][u] < members[u].lastRead]_vars

Unread(u) == {i \in DOMAIN messages : /\ i > members[u].lastRead
                                      /\ messages[i].sender # u}

\* As long as no two calls of SendMessage and ReadMessages overlap and every
\* SendMessage call got to the end of its goroutine, LastMessageID and the cached
\* UnreadCount of every member are exact whenever no such call is running.  A
\* member who was added starts with an UnreadCount of 0, whatever was sent before;
\* the next message, or the next ReadMessages of that member, puts it right.
UnreadExactAtRest ==
  ~disturbed /\ ~Overlaps =>
    /\ \A u \in Users : members[u].active /\ members[u].counted =>
         members[u].unread = Cardinality(Unread(u))
    /\ \A i \in DOMAIN messages : i <= lastMessageID

=============================================================================
