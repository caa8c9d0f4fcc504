------------------------- MODULE ChatMembersProofs --------------------------
(***************************************************************************)
(* Private conversations, for any number of users, of calls at the same    *)
(* time, of failed statements and restarts.                                *)
(***************************************************************************)
EXTENDS ChatMembers, TLAPS

InConv(k, u) == rows[k][u] # "none" \/ <<k, u>> \in lost

\* Conversation k is that of a and b, the smaller uuid first.
OfPair(k, a, b) ==
  k \in DOMAIN convKey /\ a \in Users /\ b \in Users /\ a < b /\ convKey[k] = <<a, b>>

\* A repair has the users left to look at, the others are in.
RepairOK(c, a, b) ==
  LET l == loc[c]
  IN  /\ OfPair(l.conv, a, b)
      /\ l.users \in Seq({a, b}) /\ l.users # <<>>
      /\ \A u \in {a, b} : u \in Listed(l.users) \/ InConv(l.conv, u)
      /\ mpc[c] = "recount" => InConv(l.conv, Head(l.users))

LocalFields == {"op", "users", "conv", "count", "alone"}

MemberCallOK(c) ==
  LET l == loc[c]
  IN  /\ DOMAIN l = LocalFields
      /\ mpc[c] = "create" /\ l.op = "private" =>
           \E a, b \in Users : a # b /\ l.users = <<a, b>>
      /\ mpc[c] = "insert" /\ l.op = "private" =>
           \E a, b \in Users :
             a # b /\ l.users = <<a, b>> /\
             l.conv \in DOMAIN convKey /\ convKey[l.conv] = PrivateKey(a, b)
      /\ mpc[c] \in {"check", "repair", "recount"} =>
           \E a, b \in Users : RepairOK(c, a, b)
      /\ mpc[c] = "list" => l.op # "private"

MemberTables ==
  /\ convKey \in Seq(Seq(Nat)) /\ rows \in Seq([Users -> {"none", "live", "deleted"}])
  /\ Len(rows) = Len(convKey)
  /\ \A i, j \in DOMAIN convKey : convKey[i] = convKey[j] => i = j
  /\ DOMAIN mpc = Calls /\ DOMAIN loc = Calls

OpenedOK(x) ==
  \E a, b \in Users : /\ x.pair = {a, b} /\ OfPair(x.conv, a, b)
                      /\ InConv(x.conv, a) /\ InConv(x.conv, b)

MembersInv ==
  /\ MemberTables
  /\ \A c \in Calls : MemberCallOK(c)
  /\ \A x \in opened : OpenedOK(x)

-----------------------------------------------------------------------------
LEMMA LocalsFields == DOMAIN NoLocals = LocalFields /\ NoLocals.op # "private"
BY DEF NoLocals, LocalFields

LEMMA MembersInitInv == MembersInit => MembersInv
<1> SUFFICES ASSUME MembersInit PROVE MembersInv
  OBVIOUS
<1>1. MemberTables
  BY DEF MembersInit, MemberTables
<1>2. ASSUME NEW c \in Calls PROVE MemberCallOK(c)
  <2>1. loc[c] = NoLocals /\ mpc[c] = "idle"
    BY DEF MembersInit
  <2> QED BY <2>1, LocalsFields DEF MemberCallOK
<1> QED BY <1>1, <1>2 DEF MembersInit, MembersInv

\* Conversations keep their keys, and who has a row in one keeps it.
MembersGrow ==
  /\ \A k \in DOMAIN convKey : k \in DOMAIN convKey' /\ convKey'[k] = convKey[k]
  /\ \A k \in DOMAIN convKey, u \in Users : InConv(k, u) => InConv(k, u)'

SameCall(d) ==
  /\ mpc'[d] = mpc[d] /\ DOMAIN loc'[d] = LocalFields
  /\ loc'[d].op = loc[d].op /\ loc'[d].users = loc[d].users /\ loc'[d].conv = loc[d].conv

LEMMA PairKept ==
  ASSUME MembersGrow, NEW k, NEW a, NEW b, OfPair(k, a, b)
  PROVE  OfPair(k, a, b)' /\ \A u \in {a, b} : InConv(k, u) => InConv(k, u)'
BY DEF MembersGrow, OfPair

LEMMA OpenedKept == ASSUME MembersGrow, NEW x, OpenedOK(x) PROVE OpenedOK(x)'
<1>1. PICK a, b \in Users : /\ x.pair = {a, b} /\ OfPair(x.conv, a, b)
                           /\ InConv(x.conv, a) /\ InConv(x.conv, b)
  BY DEF OpenedOK
<1>2. OfPair(x.conv, a, b)' /\ InConv(x.conv, a)' /\ InConv(x.conv, b)'
  BY <1>1, PairKept
<1> QED BY <1>1, <1>2 DEF OpenedOK

LEMMA MemberCallKept ==
  ASSUME NEW d \in Calls, MemberCallOK(d), MembersGrow, SameCall(d)
  PROVE  MemberCallOK(d)'
<1>1. ASSUME mpc[d] \in {"check", "repair", "recount"}
      PROVE  \E a, b \in Users : RepairOK(d, a, b)'
  <2>1. PICK a, b \in Users : RepairOK(d, a, b)
    BY <1>1 DEF MemberCallOK
  <2>2. PICK k : k = loc[d].conv
    OBVIOUS
  <2>3. OfPair(k, a, b) /\ \A u \in {a, b} : u \in Listed(loc[d].users) \/ InConv(k, u)
    BY <2>1, <2>2 DEF RepairOK
  <2>4. OfPair(k, a, b)' /\ \A u \in {a, b} : InConv(k, u) => InConv(k, u)'
    BY <2>3, PairKept
  <2>5. /\ loc[d].users \in Seq({a, b}) /\ loc[d].users # <<>>
        /\ mpc[d] = "recount" => InConv(k, Head(loc[d].users))
    BY <2>1, <2>2 DEF RepairOK
  <2>6. PICK h \in {a, b} : h = Head(loc[d].users)
    BY <2>5
  <2>7. loc'[d].conv = k /\ loc'[d].users = loc[d].users /\ mpc'[d] = mpc[d]
    BY <2>2 DEF SameCall
  <2>8. \A u \in {a, b} : u \in Listed(loc'[d].users) \/ InConv(k, u)'
    BY <2>3, <2>4, <2>7
  <2>9. mpc'[d] = "recount" => InConv(k, h)'
    BY <2>4, <2>5, <2>6, <2>7
  <2> QED BY <2>4, <2>5, <2>6, <2>7, <2>8, <2>9 DEF RepairOK, InConv, OfPair
<1>2. mpc[d] = "insert" /\ loc[d].op = "private" =>
        \E a, b \in Users :
          a # b /\ loc[d].users = <<a, b>> /\
          loc[d].conv \in DOMAIN convKey' /\ convKey'[loc[d].conv] = PrivateKey(a, b)
  BY DEF MemberCallOK, MembersGrow
<1> QED BY <1>1, <1>2 DEF MemberCallOK, SameCall

LEMMA OverOK ==
  ASSUME NEW c \in Calls, mpc'[c] = "idle", loc'[c] = NoLocals
  PROVE  MemberCallOK(c)'
BY LocalsFields DEF MemberCallOK

\* It remains to look at the call that makes the step.
LEMMA MemberStep ==
  ASSUME MembersInv, MembersGrow, MemberTables', NEW c \in Calls, MemberCallOK(c)',
         \A d \in Calls \ {c} : SameCall(d),
         \A x \in opened' : x \in opened \/ OpenedOK(x)'
  PROVE  MembersInv'
<1>1. \A d \in Calls : MemberCallOK(d)'
  BY MemberCallKept DEF MembersInv
<1>2. \A x \in opened' : OpenedOK(x)'
  BY OpenedKept DEF MembersInv
<1> QED BY <1>1, <1>2 DEF MembersInv

LEMMA SameMembersGrow == UNCHANGED <<convKey, rows, lost>> => MembersGrow
BY DEF MembersGrow, InConv

\* A step that touches no row.
LEMMA QuietStep ==
  ASSUME MembersInv, UNCHANGED <<convKey, rows, lost, opened>>,
         DOMAIN mpc' = Calls, DOMAIN loc' = Calls,
         NEW c \in Calls, MemberCallOK(c)', \A d \in Calls \ {c} : SameCall(d)
  PROVE  MembersInv'
<1>1. MemberTables'
  BY DEF MembersInv, MemberTables
<1> QED BY <1>1, SameMembersGrow, MemberStep

\* Call c moves on, with the locals r.
LEMMA MovesOn ==
  ASSUME MembersInv, NEW c \in Calls, NEW label, MGoto(c, label),
         NEW r, loc' = [loc EXCEPT ![c] = r]
  PROVE  /\ DOMAIN mpc' = Calls /\ DOMAIN loc' = Calls
         /\ mpc'[c] = label /\ loc'[c] = r
         /\ \A d \in Calls \ {c} : SameCall(d)
<1>1. /\ DOMAIN mpc' = Calls /\ DOMAIN loc' = Calls
      /\ mpc'[c] = label /\ loc'[c] = r
      /\ \A d \in Calls \ {c} : mpc'[d] = mpc[d] /\ loc'[d] = loc[d]
  BY DEF MembersInv, MemberTables, MGoto
<1>2. \A d \in Calls : DOMAIN loc[d] = LocalFields
  BY DEF MembersInv, MemberCallOK
<1> QED BY <1>1, <1>2 DEF SameCall

LEMMA Stays ==
  ASSUME MembersInv, NEW c \in Calls, NEW label, MGoto(c, label), loc' = loc
  PROVE  /\ DOMAIN mpc' = Calls /\ DOMAIN loc' = Calls
         /\ mpc'[c] = label /\ loc'[c] = loc[c] /\ DOMAIN loc[c] = LocalFields
         /\ \A d \in Calls \ {c} : SameCall(d)
<1>1. /\ DOMAIN mpc' = Calls /\ DOMAIN loc' = Calls /\ mpc'[c] = label
      /\ \A d \in Calls \ {c} : mpc'[d] = mpc[d]
  BY DEF MembersInv, MemberTables, MGoto
<1>2. \A d \in Calls : DOMAIN loc[d] = LocalFields
  BY DEF MembersInv, MemberCallOK
<1> QED BY <1>1, <1>2 DEF SameCall

LEMMA OverStep ==
  ASSUME MembersInv, UNCHANGED <<convKey, rows, lost, opened>>, NEW c \in Calls, Over(c)
  PROVE  MembersInv'
<1>1. /\ DOMAIN mpc' = Calls /\ DOMAIN loc' = Calls
      /\ mpc'[c] = "idle" /\ loc'[c] = NoLocals
      /\ \A d \in Calls \ {c} : SameCall(d)
  BY MovesOn DEF Over
<1> QED BY <1>1, OverOK, QuietStep

\* Call c begins to work on a conversation: only alone changes of the others.
LEMMA TouchesOn ==
  ASSUME MembersInv, NEW c \in Calls, NEW label, MGoto(c, label),
         NEW l, DOMAIN l = LocalFields, Touches(c, l)
  PROVE  /\ DOMAIN mpc' = Calls /\ DOMAIN loc' = Calls
         /\ mpc'[c] = label /\ DOMAIN loc'[c] = LocalFields
         /\ loc'[c].op = l.op /\ loc'[c].users = l.users /\ loc'[c].conv = l.conv
         /\ \A d \in Calls \ {c} : SameCall(d)
<1>1. /\ DOMAIN mpc' = Calls /\ mpc'[c] = label
      /\ \A d \in Calls \ {c} : mpc'[d] = mpc[d]
  BY DEF MembersInv, MemberTables, MGoto
<1>2. PICK x : loc'[c] = [l EXCEPT !.alone = x]
  BY DEF Touches
<1>3. DOMAIN loc' = Calls
  BY DEF Touches
<1>4. ASSUME NEW d \in Calls \ {c} PROVE SameCall(d)
  <2>1. DOMAIN loc[d] = LocalFields
    BY DEF MembersInv, MemberCallOK
  <2>2. PICK y : loc'[d] = [loc[d] EXCEPT !.alone = y]
    BY DEF Touches
  <2>3. /\ DOMAIN loc'[d] = LocalFields
        /\ loc'[d].op = loc[d].op /\ loc'[d].users = loc[d].users
        /\ loc'[d].conv = loc[d].conv
    BY <2>1, <2>2 DEF LocalFields
  <2> QED BY <2>3, <1>1 DEF SameCall
<1> QED BY <1>1, <1>2, <1>3, <1>4 DEF LocalFields

LEMMA CreateGroupInv ==
  ASSUME MembersInv, NEW c \in Calls, CreateGroupConversation(c) PROVE MembersInv'
<1>1. PICK u \in Users, s \in UserLists :
        loc' = [loc EXCEPT ![c] = [NoLocals EXCEPT !.op = "group", !.users = <<u>> \o s]]
  BY DEF CreateGroupConversation
<1>2. PICK r : r = [NoLocals EXCEPT !.op = "group", !.users = <<u>> \o s]
  OBVIOUS
<1>3. DOMAIN r = LocalFields /\ r.op = "group"
  BY <1>2, LocalsFields DEF LocalFields
<1>4. MGoto(c, "create") /\ UNCHANGED <<convKey, rows, lost, opened>>
  BY DEF CreateGroupConversation
<1>5. /\ DOMAIN mpc' = Calls /\ DOMAIN loc' = Calls
      /\ mpc'[c] = "create" /\ loc'[c] = r
      /\ \A d \in Calls \ {c} : SameCall(d)
  BY <1>1, <1>2, <1>4, MovesOn
<1>6. MemberCallOK(c)'
  BY <1>3, <1>5 DEF MemberCallOK
<1> QED BY <1>4, <1>5, <1>6, QuietStep

LEMMA TakeOperatorInv ==
  ASSUME MembersInv, NEW c \in Calls, mpc[c] = "idle",
         NEW u, NEW l, DOMAIN l = LocalFields, l.op # "private",
         NEW label \in {"list", "take"}, TakeOperator(c, u, l, label)
  PROVE  MembersInv'
<1>0. UNCHANGED <<convKey, rows, lost, opened>>
  BY DEF TakeOperator
<1>1. CASE MGoto(c, label) /\ Touches(c, l)
  <2>1. /\ DOMAIN mpc' = Calls /\ DOMAIN loc' = Calls
        /\ mpc'[c] = label /\ DOMAIN loc'[c] = LocalFields /\ loc'[c].op = l.op
        /\ \A d \in Calls \ {c} : SameCall(d)
    BY <1>1, TouchesOn
  <2>2. MemberCallOK(c)'
    BY <2>1 DEF MemberCallOK
  <2> QED BY <1>0, <2>1, <2>2, QuietStep
<1>2. CASE UNCHANGED <<loc, mpc>>
  <2>1. \A d \in Calls : DOMAIN loc[d] = LocalFields
    BY DEF MembersInv, MemberCallOK
  <2>2. \A d \in Calls : SameCall(d)
    BY <1>2, <2>1 DEF SameCall
  <2>3. MemberCallOK(c)'
    BY <1>0, <2>2, MemberCallKept, SameMembersGrow DEF MembersInv
  <2>4. DOMAIN mpc' = Calls /\ DOMAIN loc' = Calls
    BY <1>2 DEF MembersInv, MemberTables
  <2> QED BY <1>0, <2>2, <2>3, <2>4, QuietStep
<1> QED BY <1>1, <1>2 DEF TakeOperator

LEMMA AddMembersInv == ASSUME MembersInv, NEW c \in Calls, AddMembers(c) PROVE MembersInv'
<1>1. PICK u \in Users, k \in DOMAIN convKey, s \in UserLists :
        TakeOperator(c, u, [NoLocals EXCEPT !.op = "add", !.users = s, !.conv = k], "list")
  BY DEF AddMembers
<1>2. PICK l : l = [NoLocals EXCEPT !.op = "add", !.users = s, !.conv = k]
  OBVIOUS
<1>3. DOMAIN l = LocalFields /\ l.op = "add"
  BY <1>2, LocalsFields DEF LocalFields
<1>4. TakeOperator(c, u, l, "list") /\ mpc[c] = "idle"
  BY <1>1, <1>2 DEF AddMembers, Begin
<1> QED BY <1>3, <1>4, TakeOperatorInv

LEMMA RemoveMemberInv == ASSUME MembersInv, NEW c \in Calls, RemoveMember(c) PROVE MembersInv'
<1>1. PICK u, v \in Users, k \in DOMAIN convKey :
        TakeOperator(c, u, [NoLocals EXCEPT !.op = "remove", !.users = <<v>>, !.conv = k],
                     "take")
  BY DEF RemoveMember
<1>2. PICK l : l = [NoLocals EXCEPT !.op = "remove", !.users = <<v>>, !.conv = k]
  OBVIOUS
<1>3. DOMAIN l = LocalFields /\ l.op = "remove"
  BY <1>2, LocalsFields DEF LocalFields
<1>4. TakeOperator(c, u, l, "take") /\ mpc[c] = "idle"
  BY <1>1, <1>2 DEF RemoveMember, Begin
<1> QED BY <1>3, <1>4, TakeOperatorInv

LEMMA ListedPair == \A a, b : Listed(<<a, b>>) = {a, b}
BY DEF Listed

LEMMA PrivateKeyOf ==
  ASSUME NEW a \in Users, NEW b \in Users, a # b
  PROVE  \E x, y \in Users : x < y /\ {x, y} = {a, b} /\ PrivateKey(a, b) = <<x, y>>
<1>1. CASE a < b
  BY <1>1 DEF PrivateKey
<1>2. CASE ~(a < b)
  <2>1. b < a /\ {b, a} = {a, b} /\ PrivateKey(a, b) = <<b, a>>
    BY <1>2, UsersAssumption DEF PrivateKey
  <2> QED BY <2>1
<1> QED BY <1>1, <1>2

LEMMA CreatePrivateInv ==
  ASSUME MembersInv, NEW c \in Calls, CreatePrivateConversation(c) PROVE MembersInv'
<1>0. UNCHANGED <<convKey, rows, lost, opened>>
  BY DEF CreatePrivateConversation
<1>1. PICK a, b \in Users, k \in 0..Len(convKey) :
        /\ a # b
        /\ k # 0 => convKey[k] = PrivateKey(a, b)
        /\ MGoto(c, IF k = 0 THEN "create" ELSE "check")
        /\ Touches(c, [op |-> "private", users |-> <<a, b>>, conv |-> k,
                       count |-> IF k = 0 THEN 2 ELSE convCount[k], alone |-> FALSE])
  BY DEF CreatePrivateConversation
<1>2. PICK l : l = [op |-> "private", users |-> <<a, b>>, conv |-> k,
                    count |-> IF k = 0 THEN 2 ELSE convCount[k], alone |-> FALSE]
  OBVIOUS
<1>3. DOMAIN l = LocalFields /\ l.op = "private" /\ l.users = <<a, b>> /\ l.conv = k
  BY <1>2 DEF LocalFields
<1>4. PICK label : label = IF k = 0 THEN "create" ELSE "check"
  OBVIOUS
<1>5. Touches(c, l) /\ MGoto(c, label)
  BY <1>1, <1>2, <1>4
<1>6. /\ DOMAIN mpc' = Calls /\ DOMAIN loc' = Calls
      /\ mpc'[c] = label /\ DOMAIN loc'[c] = LocalFields
      /\ loc'[c].op = "private" /\ loc'[c].users = <<a, b>> /\ loc'[c].conv = k
      /\ \A d \in Calls \ {c} : SameCall(d)
  BY <1>3, <1>5, TouchesOn
<1>7. MemberCallOK(c)'
  <2>1. CASE k = 0
    BY <2>1, <1>1, <1>4, <1>6 DEF MemberCallOK
  <2>2. CASE k # 0
    <3>1. PICK x, y \in Users : x < y /\ {x, y} = {a, b} /\ PrivateKey(a, b) = <<x, y>>
      BY <1>1, PrivateKeyOf
    <3>2. OfPair(k, x, y)'
      <4>1. k \in DOMAIN convKey
        BY <2>2 DEF MembersInv, MemberTables
      <4> QED BY <4>1, <3>1, <2>2, <1>0, <1>1 DEF OfPair
    <3>3. <<a, b>> \in Seq({x, y}) /\ <<a, b>> # <<>> /\ Listed(<<a, b>>) = {x, y}
      <4>1. a \in {x, y} /\ b \in {x, y}
        BY <3>1
      <4>2. <<a, b>> \in Seq({x, y}) /\ <<a, b>> # <<>>
        BY <4>1
      <4> QED BY <4>2, <3>1, ListedPair, Zenon
    <3>4. RepairOK(c, x, y)'
      BY <3>2, <3>3, <2>2, <1>4, <1>6 DEF RepairOK
    <3> QED BY <3>4, <2>2, <1>4, <1>6 DEF MemberCallOK
  <2> QED BY <2>1, <2>2
<1> QED BY <1>0, <1>6, <1>7, QuietStep

LEMMA CreateConversationInv ==
  ASSUME MembersInv, NEW c \in Calls, CreateConversation(c) PROVE MembersInv'
<1>0. UNCHANGED <<lost, opened>> /\ mpc[c] = "create" /\ MemberCallOK(c)
  BY DEF CreateConversation, MembersInv
<1>1. CASE Over(c) /\ UNCHANGED <<convKey, rows>>
  BY <1>0, <1>1, OverStep
<1>2. ASSUME NEW key, key = (IF loc[c].op = "private"
                               THEN PrivateKey(loc[c].users[1], loc[c].users[2])
                               ELSE GroupKey),
             \A i \in DOMAIN convKey : convKey[i] # key,
             convKey' = Append(convKey, key),
             rows' = Append(rows, [u \in Users |-> "none"]),
             MGoto(c, "insert"),
             Touches(c, [loc[c] EXCEPT !.conv = Len(convKey) + 1,
                                       !.count = Len(loc[c].users)])
      PROVE  MembersInv'
  <2>1. key \in Seq(Nat)
    <3>1. CASE loc[c].op = "private"
      <4>1. PICK a, b \in Users : a # b /\ loc[c].users = <<a, b>>
        BY <1>0, <3>1 DEF MemberCallOK
      <4>2. key = PrivateKey(a, b)
        BY <4>1, <3>1, <1>2
      <4> QED BY <4>2, UsersAssumption DEF PrivateKey
    <3>2. CASE loc[c].op # "private"
      BY <3>2, <1>2 DEF GroupKey, MembersInv, MemberTables
    <3> QED BY <3>1, <3>2
  <2>2. /\ convKey \in Seq(Seq(Nat)) /\ Len(convKey) \in Nat /\ Len(rows) = Len(convKey)
        /\ rows \in Seq([Users -> {"none", "live", "deleted"}])
        /\ DOMAIN convKey = 1..Len(convKey)
    BY DEF MembersInv, MemberTables
  <2>3. PICK n \in Nat : n = Len(convKey) + 1
    BY <2>2
  <2>4. /\ convKey' \in Seq(Seq(Nat)) /\ Len(convKey') = n /\ DOMAIN convKey' = 1..n
        /\ convKey'[n] = key
        /\ \A i \in DOMAIN convKey : i \in 1..n /\ i # n /\ convKey'[i] = convKey[i]
        /\ \A i \in 1..n : i = n \/ i \in DOMAIN convKey
    BY <2>1, <2>2, <2>3, <1>2
  <2>5. /\ rows' \in Seq([Users -> {"none", "live", "deleted"}]) /\ Len(rows') = n
        /\ \A i \in DOMAIN convKey : rows'[i] = rows[i]
    <3>1. [u \in Users |-> "none"] \in [Users -> {"none", "live", "deleted"}]
      OBVIOUS
    <3>2. rows' = Append(rows, [u \in Users |-> "none"])
      BY <1>2
    <3> QED BY <3>1, <3>2, <2>2, <2>3
  <2>6. MembersGrow
    BY <2>4, <2>5, <1>0 DEF MembersGrow, InConv
  <2>7. PICK l : l = [loc[c] EXCEPT !.conv = n, !.count = Len(loc[c].users)]
    OBVIOUS
  <2>8. DOMAIN l = LocalFields /\ l.op = loc[c].op /\ l.users = loc[c].users /\ l.conv = n
    BY <2>7, <1>0 DEF MemberCallOK, LocalFields
  <2>9. Touches(c, l)
    BY <2>3, <2>7, <1>2
  <2>10. /\ DOMAIN mpc' = Calls /\ DOMAIN loc' = Calls
         /\ mpc'[c] = "insert" /\ DOMAIN loc'[c] = LocalFields
         /\ loc'[c].op = loc[c].op /\ loc'[c].users = loc[c].users /\ loc'[c].conv = n
         /\ \A d \in Calls \ {c} : SameCall(d)
    BY <2>8, <2>9, <1>2, TouchesOn
  <2>11. MemberTables'
    <3>1. \A i, j \in DOMAIN convKey' : convKey'[i] = convKey'[j] => i = j
      BY <2>4, <1>2 DEF MembersInv, MemberTables
    <3> QED BY <3>1, <2>4, <2>5, <2>10 DEF MemberTables
  <2>12. MemberCallOK(c)'
    <3>1. CASE loc[c].op = "private"
      <4>1. PICK a, b \in Users : a # b /\ loc[c].users = <<a, b>>
        BY <1>0, <3>1 DEF MemberCallOK
      <4>2. key = PrivateKey(a, b)
        BY <4>1, <3>1, <1>2
      <4>3. n \in DOMAIN convKey' /\ convKey'[n] = PrivateKey(a, b)
        BY <4>2, <2>3, <2>4, <2>2
      <4> QED BY <4>1, <4>3, <2>10 DEF MemberCallOK
    <3>2. CASE loc[c].op # "private"
      BY <3>2, <2>10 DEF MemberCallOK
    <3> QED BY <3>1, <3>2
  <2> QED BY <2>6, <2>10, <2>11, <2>12, <1>0, MemberStep
<1> QED BY <1>1, <1>2 DEF CreateConversation

LEMMA ListedHead ==
  ASSUME NEW S, NEW s \in Seq(S), s # <<>>
  PROVE  /\ Head(s) \in S
         /\ Len(s) > 1 => /\ Tail(s) \in Seq(S) /\ Tail(s) # <<>>
                          /\ \A u \in Listed(s) : u = Head(s) \/ u \in Listed(Tail(s))
         /\ ~(Len(s) > 1) => \A u \in Listed(s) : u = Head(s)
<1>1. Len(s) \in Nat /\ DOMAIN s = 1..Len(s) /\ Head(s) = s[1] /\ Len(s) > 0
  OBVIOUS
<1>2. Head(s) \in S
  BY <1>1
<1>3. ASSUME Len(s) > 1
      PROVE  /\ Tail(s) \in Seq(S) /\ Tail(s) # <<>>
             /\ \A u \in Listed(s) : u = Head(s) \/ u \in Listed(Tail(s))
  <2>1. /\ Tail(s) \in Seq(S) /\ Len(Tail(s)) = Len(s) - 1
        /\ \A i \in 1..(Len(s) - 1) : Tail(s)[i] = s[i + 1]
    BY <1>1, <1>3
  <2>2. Tail(s) # <<>> /\ DOMAIN Tail(s) = 1..(Len(s) - 1)
    <3>1. PICK t \in Seq(S) : t = Tail(s) /\ Len(t) = Len(s) - 1
      BY <2>1
    <3>2. DOMAIN t = 1..Len(t) /\ Len(t) # 0 /\ (t = <<>> => Len(t) = 0)
      BY <3>1, <1>1, <1>3
    <3> QED BY <3>1, <3>2
  <2>3. ASSUME NEW u \in Listed(s), u # Head(s) PROVE u \in Listed(Tail(s))
    <3>1. PICK i \in DOMAIN s : u = s[i]
      BY DEF Listed
    <3>2. i # 1 /\ (i - 1) \in 1..(Len(s) - 1) /\ Tail(s)[i - 1] = u
      BY <3>1, <2>1, <2>3, <1>1
    <3> QED BY <3>2, <2>2 DEF Listed
  <2> QED BY <2>1, <2>2, <2>3
<1>4. ASSUME ~(Len(s) > 1), NEW u \in Listed(s) PROVE u = Head(s)
  BY <1>1, <1>4 DEF Listed
<1> QED BY <1>2, <1>3, <1>4

LEMMA NextUserInv ==
  ASSUME MembersInv, NEW c \in Calls, mpc[c] \in {"check", "recount"},
         NEW a \in Users, NEW b \in Users, RepairOK(c, a, b),
         InConv(loc[c].conv, Head(loc[c].users)),
         UNCHANGED <<convKey, rows, lost>>, NextUser(c)
  PROVE  MembersInv'
<1>0. PICK k : k = loc[c].conv
  OBVIOUS
<1>1. PICK s \in Seq({a, b}) : s = loc[c].users
  BY DEF RepairOK
<1>2. /\ OfPair(k, a, b) /\ s # <<>> /\ InConv(k, Head(s))
      /\ \A u \in {a, b} : u \in Listed(s) \/ InConv(k, u)
      /\ DOMAIN loc[c] = LocalFields
  BY <1>0, <1>1 DEF RepairOK, MembersInv, MemberCallOK
<1>3. \A u \in {a, b} : InConv(k, u) => InConv(k, u)'
  BY DEF InConv
<1>4. OfPair(k, a, b)'
  BY <1>2 DEF OfPair
<1>5. CASE Len(s) > 1
  <2>1. MGoto(c, "check") /\ loc' = [loc EXCEPT ![c].users = Tail(s)] /\ opened' = opened
    BY <1>0, <1>1, <1>5 DEF NextUser
  <2>2. PICK r : r = [loc[c] EXCEPT !.users = Tail(s)]
    OBVIOUS
  <2>3. DOMAIN r = LocalFields /\ r.users = Tail(s) /\ r.conv = k /\ r.op = loc[c].op
    BY <2>2, <1>0, <1>2 DEF LocalFields
  <2>4. loc' = [loc EXCEPT ![c] = r]
    BY <2>1, <2>2
  <2>5. /\ DOMAIN mpc' = Calls /\ DOMAIN loc' = Calls
        /\ mpc'[c] = "check" /\ loc'[c] = r
        /\ \A d \in Calls \ {c} : SameCall(d)
    BY <2>1, <2>4, MovesOn
  <2>6. /\ Tail(s) \in Seq({a, b}) /\ Tail(s) # <<>>
        /\ \A u \in Listed(s) : u = Head(s) \/ u \in Listed(Tail(s))
    BY <1>2, <1>5, ListedHead
  <2>7. \A u \in {a, b} : u \in Listed(Tail(s)) \/ InConv(k, u)'
    BY <2>6, <1>2, <1>3
  <2>8. RepairOK(c, a, b)'
    BY <2>3, <2>5, <2>6, <2>7, <1>4 DEF RepairOK, InConv, OfPair
  <2>9. MemberCallOK(c)'
    BY <2>3, <2>5, <2>8 DEF MemberCallOK
  <2> QED BY <2>1, <2>5, <2>9, QuietStep
<1>6. CASE ~(Len(s) > 1)
  <2>1. Over(c) /\ opened' = opened \cup {[pair |-> Listed(convKey[k]), conv |-> k]}
    BY <1>0, <1>1, <1>6 DEF NextUser
  <2>2. /\ DOMAIN mpc' = Calls /\ DOMAIN loc' = Calls
        /\ mpc'[c] = "idle" /\ loc'[c] = NoLocals
        /\ \A d \in Calls \ {c} : SameCall(d)
    BY <2>1, MovesOn DEF Over
  <2>3. \A u \in Listed(s) : u = Head(s)
    BY <1>2, <1>6, ListedHead
  <2>4. InConv(k, a)' /\ InConv(k, b)'
    BY <2>3, <1>2, <1>3
  <2>5. PICK p : p = Listed(convKey[k])
    OBVIOUS
  <2>6. p = {a, b}
    BY <2>5, <1>2, ListedPair, Zenon DEF OfPair
  <2>7. OpenedOK([pair |-> p, conv |-> k])'
    BY <2>4, <2>6, <1>4 DEF OpenedOK
  <2>8. \A x \in opened' : x \in opened \/ OpenedOK(x)'
    BY <2>1, <2>5, <2>7
  <2>9. MemberTables'
    BY <2>2 DEF MembersInv, MemberTables
  <2> QED BY <2>2, <2>8, <2>9, OverOK, MemberStep, SameMembersGrow
<1> QED BY <1>5, <1>6

LEMMA CheckMemberInv == ASSUME MembersInv, NEW c \in Calls, CheckMember(c) PROVE MembersInv'
<1>0. UNCHANGED <<convKey, rows, lost>> /\ mpc[c] = "check" /\ MemberCallOK(c)
  BY DEF CheckMember, MembersInv
<1>1. PICK a, b \in Users : RepairOK(c, a, b)
  BY <1>0 DEF MemberCallOK
<1>2. CASE rows[loc[c].conv][Head(loc[c].users)] = "live" /\ NextUser(c)
  <2>1. InConv(loc[c].conv, Head(loc[c].users))
    BY <1>2 DEF InConv
  <2> QED BY <2>1, <1>0, <1>1, <1>2, NextUserInv
<1>3. CASE MGoto(c, "repair") /\ UNCHANGED <<loc, opened>>
  <2>1. /\ DOMAIN mpc' = Calls /\ DOMAIN loc' = Calls
        /\ mpc'[c] = "repair" /\ loc'[c] = loc[c] /\ DOMAIN loc[c] = LocalFields
        /\ \A d \in Calls \ {c} : SameCall(d)
    BY <1>3, Stays
  <2>2. RepairOK(c, a, b)'
    BY <2>1, <1>0, <1>1 DEF RepairOK, OfPair, InConv
  <2>3. MemberCallOK(c)'
    BY <2>1, <2>2 DEF MemberCallOK
  <2> QED BY <2>1, <2>3, <1>0, <1>3, QuietStep
<1> QED BY <1>2, <1>3 DEF CheckMember

LEMMA RecountRepairedInv ==
  ASSUME MembersInv, NEW c \in Calls, RecountRepaired(c) PROVE MembersInv'
<1>0. UNCHANGED <<convKey, rows, lost>> /\ mpc[c] = "recount" /\ MemberCallOK(c) /\ NextUser(c)
  BY DEF RecountRepaired, MembersInv
<1>1. PICK a, b \in Users : RepairOK(c, a, b)
  BY <1>0 DEF MemberCallOK
<1>2. InConv(loc[c].conv, Head(loc[c].users))
  BY <1>0, <1>1 DEF RepairOK
<1> QED BY <1>0, <1>1, <1>2, NextUserInv

\* The rows of conversation k become f, and nobody loses one.
LEMMA RowsUpdate ==
  ASSUME MembersInv, UNCHANGED <<convKey, lost>>,
         NEW k, NEW f, rows' = [rows EXCEPT ![k] = f],
         k \in DOMAIN rows =>
           /\ f \in [Users -> {"none", "live", "deleted"}]
           /\ \A u \in Users : rows[k][u] # "none" => f[u] # "none"
  PROVE  /\ MembersGrow
         /\ rows' \in Seq([Users -> {"none", "live", "deleted"}])
         /\ Len(rows') = Len(rows)
         /\ k \in DOMAIN rows => rows'[k] = f
<1>1. /\ rows \in Seq([Users -> {"none", "live", "deleted"}]) /\ DOMAIN rows = DOMAIN convKey
  BY DEF MembersInv, MemberTables
<1>2. CASE k \in DOMAIN rows
  <2>1. /\ rows' \in Seq([Users -> {"none", "live", "deleted"}])
        /\ Len(rows') = Len(rows) /\ rows'[k] = f
        /\ \A i \in DOMAIN rows : i # k => rows'[i] = rows[i]
    BY <1>1, <1>2
  <2>2. \A i \in DOMAIN rows, u \in Users : rows[i][u] # "none" => rows'[i][u] # "none"
    BY <2>1, <1>2
  <2> QED BY <2>1, <2>2, <1>1 DEF MembersGrow, InConv
<1>3. CASE k \notin DOMAIN rows
  <2>1. rows' = rows
    BY <1>1, <1>3
  <2> QED BY <2>1, <1>1, <1>3, SameMembersGrow
<1> QED BY <1>2, <1>3

LEMMA RowsTables ==
  ASSUME MembersInv, convKey' = convKey,
         rows' \in Seq([Users -> {"none", "live", "deleted"}]), Len(rows') = Len(rows),
         DOMAIN mpc' = Calls, DOMAIN loc' = Calls
  PROVE  MemberTables'
BY DEF MembersInv, MemberTables

LEMMA InsertMembersInv == ASSUME MembersInv, NEW c \in Calls, InsertMembers(c) PROVE MembersInv'
<1>0. UNCHANGED <<convKey, lost>> /\ mpc[c] = "insert" /\ MemberCallOK(c)
  BY DEF InsertMembers, MembersInv
<1>1. CASE Over(c) /\ UNCHANGED <<rows, opened>>
  BY <1>0, <1>1, OverStep
<1>2. CASE /\ rows' = [rows EXCEPT ![loc[c].conv] = [u \in Users |->
                IF u \in Listed(loc[c].users) THEN "live" ELSE rows[loc[c].conv][u]]]
           /\ IF loc[c].op = "private"
                THEN /\ Over(c)
                     /\ opened' = opened \cup
                          {[pair |-> Listed(loc[c].users), conv |-> loc[c].conv]}
                ELSE MGoto(c, "count") /\ UNCHANGED <<loc, opened>>
  <2>1. PICK k, S : k = loc[c].conv /\ S = Listed(loc[c].users)
    OBVIOUS
  <2>2. PICK f : f = [u \in Users |-> IF u \in S THEN "live" ELSE rows[k][u]]
    OBVIOUS
  <2>3. rows' = [rows EXCEPT ![k] = f]
    BY <2>1, <2>2, <1>2
  <2>4. k \in DOMAIN rows => rows[k] \in [Users -> {"none", "live", "deleted"}]
    BY DEF MembersInv, MemberTables
  <2>5. k \in DOMAIN rows =>
          /\ f \in [Users -> {"none", "live", "deleted"}]
          /\ \A u \in Users : rows[k][u] # "none" => f[u] # "none"
    BY <2>2, <2>4
  <2>6. /\ MembersGrow
        /\ rows' \in Seq([Users -> {"none", "live", "deleted"}])
        /\ Len(rows') = Len(rows)
        /\ k \in DOMAIN rows => rows'[k] = f
    BY <2>3, <2>5, <1>0, RowsUpdate
  <2>7. CASE loc[c].op # "private"
    <3>1. MGoto(c, "count") /\ UNCHANGED <<loc, opened>>
      BY <2>7, <1>2
    <3>2. /\ DOMAIN mpc' = Calls /\ DOMAIN loc' = Calls
          /\ mpc'[c] = "count" /\ loc'[c] = loc[c] /\ DOMAIN loc[c] = LocalFields
          /\ \A d \in Calls \ {c} : SameCall(d)
      BY <3>1, Stays
    <3>3. MemberCallOK(c)'
      BY <3>2 DEF MemberCallOK
    <3> QED BY <3>1, <3>2, <3>3, <2>6, <1>0, RowsTables, MemberStep
  <2>8. CASE loc[c].op = "private"
    <3>1. Over(c) /\ opened' = opened \cup {[pair |-> S, conv |-> k]}
      BY <2>1, <2>8, <1>2
    <3>2. /\ DOMAIN mpc' = Calls /\ DOMAIN loc' = Calls
          /\ mpc'[c] = "idle" /\ loc'[c] = NoLocals
          /\ \A d \in Calls \ {c} : SameCall(d)
      BY <3>1, MovesOn DEF Over
    <3>3. PICK a, b \in Users :
            /\ a # b /\ loc[c].users = <<a, b>>
            /\ k \in DOMAIN convKey /\ convKey[k] = PrivateKey(a, b)
      BY <2>1, <2>8, <1>0 DEF MemberCallOK
    <3>4. S = {a, b}
      BY <3>3, <2>1, ListedPair, Zenon
    <3>5. PICK x, y \in Users : x < y /\ {x, y} = {a, b} /\ PrivateKey(a, b) = <<x, y>>
      BY <3>3, PrivateKeyOf
    <3>6. OfPair(k, x, y)'
      BY <3>3, <3>5, <1>0 DEF OfPair
    <3>7. InConv(k, x)' /\ InConv(k, y)'
      <4>1. k \in DOMAIN rows
        BY <3>3 DEF MembersInv, MemberTables
      <4>2. f[x] = "live" /\ f[y] = "live"
        BY <3>4, <3>5, <2>2
      <4> QED BY <4>1, <4>2, <2>6 DEF InConv
    <3>8. S = {x, y}
      BY <3>4, <3>5
    <3>9. OpenedOK([pair |-> S, conv |-> k])'
      BY <3>6, <3>7, <3>8 DEF OpenedOK
    <3>10. \A z \in opened' : z \in opened \/ OpenedOK(z)'
      BY <3>1, <3>9
    <3> QED BY <3>2, <3>10, <2>6, <1>0, RowsTables, OverOK, MemberStep
  <2> QED BY <2>7, <2>8
<1> QED BY <1>1, <1>2 DEF InsertMembers

LEMMA RepairMemberInv == ASSUME MembersInv, NEW c \in Calls, RepairMember(c) PROVE MembersInv'
<1>0. UNCHANGED <<convKey, lost, loc, opened>> /\ mpc[c] = "repair" /\ MemberCallOK(c)
  BY DEF RepairMember, MembersInv
<1>1. PICK a, b \in Users : RepairOK(c, a, b)
  BY <1>0 DEF MemberCallOK
<1>2. PICK k, h : k = loc[c].conv /\ h = Head(loc[c].users)
  OBVIOUS
<1>3. /\ k \in DOMAIN rows /\ h \in Users
      /\ rows[k] \in [Users -> {"none", "live", "deleted"}]
  <2>1. /\ loc[c].users \in Seq({a, b}) /\ loc[c].users # <<>> /\ k \in DOMAIN convKey
    BY <1>1, <1>2 DEF RepairOK, OfPair
  <2>2. h \in {a, b}
    BY <2>1, <1>2, ListedHead
  <2>3. k \in DOMAIN rows
    BY <2>1 DEF MembersInv, MemberTables
  <2> QED BY <2>2, <2>3 DEF MembersInv, MemberTables
<1>4. PICK f : f = [rows[k] EXCEPT ![h] = IF rows[k][h] = "none" THEN "live" ELSE rows[k][h]]
  OBVIOUS
<1>5. rows' = [rows EXCEPT ![k] = f]
  BY <1>2, <1>3, <1>4 DEF RepairMember
<1>6. /\ f \in [Users -> {"none", "live", "deleted"}]
      /\ \A u \in Users : rows[k][u] # "none" => f[u] # "none"
      /\ f[h] # "none"
  BY <1>3, <1>4
<1>7. /\ MembersGrow
      /\ rows' \in Seq([Users -> {"none", "live", "deleted"}])
      /\ Len(rows') = Len(rows) /\ rows'[k] = f
  BY <1>0, <1>3, <1>5, <1>6, RowsUpdate
<1>8. /\ DOMAIN mpc' = Calls /\ DOMAIN loc' = Calls
      /\ mpc'[c] = "recount" /\ loc'[c] = loc[c] /\ DOMAIN loc[c] = LocalFields
      /\ \A d \in Calls \ {c} : SameCall(d)
  BY <1>0, Stays DEF RepairMember
<1>9. MemberCallOK(c)'
  <2>1. OfPair(k, a, b) /\ \A u \in {a, b} : u \in Listed(loc[c].users) \/ InConv(k, u)
    BY <1>1, <1>2 DEF RepairOK
  <2>2. OfPair(k, a, b)' /\ \A u \in {a, b} : InConv(k, u) => InConv(k, u)'
    BY <2>1, <1>7, PairKept
  <2>3. InConv(k, h)'
    BY <1>6, <1>7 DEF InConv
  <2>4. \A u \in {a, b} : u \in Listed(loc[c].users) \/ InConv(k, u)'
    BY <2>1, <2>2
  <2>5. RepairOK(c, a, b)'
    BY <2>2, <2>3, <2>4, <1>1, <1>2, <1>8 DEF RepairOK, InConv, OfPair
  <2> QED BY <2>5, <1>8 DEF MemberCallOK
<1> QED BY <1>0, <1>7, <1>8, <1>9, RowsTables, MemberStep

LEMMA ListMembersInv == ASSUME MembersInv, NEW c \in Calls, ListMembers(c) PROVE MembersInv'
<1>0. UNCHANGED <<convKey, rows, lost, opened>> /\ mpc[c] = "list" /\ MemberCallOK(c)
  BY DEF ListMembers, MembersInv
<1>1. CASE Over(c)
  BY <1>0, <1>1, OverStep
<1>2. CASE ~Over(c)
  <2>1. PICK s, n : loc' = [loc EXCEPT ![c].users = s, ![c].count = n] /\ MGoto(c, "insert")
    BY <1>2 DEF ListMembers
  <2>2. PICK r : r = [loc[c] EXCEPT !.users = s, !.count = n]
    OBVIOUS
  <2>3. DOMAIN r = LocalFields /\ r.op # "private"
    BY <2>2, <1>0 DEF MemberCallOK, LocalFields
  <2>4. loc' = [loc EXCEPT ![c] = r]
    BY <2>1, <2>2 DEF MembersInv, MemberTables
  <2>5. /\ DOMAIN mpc' = Calls /\ DOMAIN loc' = Calls
        /\ mpc'[c] = "insert" /\ loc'[c] = r
        /\ \A d \in Calls \ {c} : SameCall(d)
    BY <2>1, <2>4, MovesOn
  <2>6. MemberCallOK(c)'
    BY <2>3, <2>5 DEF MemberCallOK
  <2> QED BY <2>5, <2>6, <1>0, QuietStep
<1> QED BY <1>1, <1>2

\* The places of RemoveMember and of the last statement of the calls on groups.
LEMMA FarCallOK ==
  ASSUME NEW c \in Calls, mpc'[c] \in {"delete", "get", "count"},
         DOMAIN loc'[c] = LocalFields
  PROVE  MemberCallOK(c)'
BY DEF MemberCallOK

LEMMA TakeMemberInv == ASSUME MembersInv, NEW c \in Calls, TakeMember(c) PROVE MembersInv'
<1>0. UNCHANGED <<convKey, rows, lost, opened>>
  BY DEF TakeMember
<1>1. CASE Over(c)
  BY <1>0, <1>1, OverStep
<1>2. CASE MGoto(c, "delete") /\ loc' = loc
  <2>1. /\ DOMAIN mpc' = Calls /\ DOMAIN loc' = Calls
        /\ mpc'[c] = "delete" /\ loc'[c] = loc[c] /\ DOMAIN loc[c] = LocalFields
        /\ \A d \in Calls \ {c} : SameCall(d)
    BY <1>2, Stays
  <2> QED BY <2>1, <1>0, FarCallOK, QuietStep
<1> QED BY <1>1, <1>2 DEF TakeMember

LEMMA GetConversationInv ==
  ASSUME MembersInv, NEW c \in Calls, GetConversation(c) PROVE MembersInv'
<1>0. UNCHANGED <<convKey, rows, lost, opened>> /\ MemberCallOK(c)
  BY DEF GetConversation, MembersInv
<1>1. CASE Over(c)
  BY <1>0, <1>1, OverStep
<1>2. CASE ~Over(c)
  <2>1. PICK n : loc' = [loc EXCEPT ![c].count = n] /\ MGoto(c, "count")
    BY <1>2 DEF GetConversation
  <2>2. PICK r : r = [loc[c] EXCEPT !.count = n]
    OBVIOUS
  <2>3. DOMAIN r = LocalFields
    BY <2>2, <1>0 DEF MemberCallOK
  <2>4. loc' = [loc EXCEPT ![c] = r]
    BY <2>1, <2>2
  <2>5. /\ DOMAIN mpc' = Calls /\ DOMAIN loc' = Calls
        /\ mpc'[c] = "count" /\ loc'[c] = r
        /\ \A d \in Calls \ {c} : SameCall(d)
    BY <2>1, <2>4, MovesOn
  <2> QED BY <2>3, <2>5, <1>0, FarCallOK, QuietStep
<1> QED BY <1>1, <1>2

LEMMA DeleteMemberInv == ASSUME MembersInv, NEW c \in Calls, DeleteMember(c) PROVE MembersInv'
<1>0. UNCHANGED <<convKey, lost, loc, opened>> /\ MGoto(c, "get")
  BY DEF DeleteMember
<1>1. PICK k, h : k = loc[c].conv /\ h = loc[c].users[1]
  OBVIOUS
<1>2. PICK f : f = [rows[k] EXCEPT ![h] = "deleted"]
  OBVIOUS
<1>3. rows' = [rows EXCEPT ![k] = f]
  BY <1>1, <1>2 DEF DeleteMember
<1>4. k \in DOMAIN rows =>
        /\ f \in [Users -> {"none", "live", "deleted"}]
        /\ \A u \in Users : rows[k][u] # "none" => f[u] # "none"
  <2>1. k \in DOMAIN rows => rows[k] \in [Users -> {"none", "live", "deleted"}]
    BY DEF MembersInv, MemberTables
  <2> QED BY <2>1, <1>2
<1>5. /\ MembersGrow
      /\ rows' \in Seq([Users -> {"none", "live", "deleted"}])
      /\ Len(rows') = Len(rows)
  BY <1>0, <1>3, <1>4, RowsUpdate
<1>6. /\ DOMAIN mpc' = Calls /\ DOMAIN loc' = Calls
      /\ mpc'[c] = "get" /\ loc'[c] = loc[c] /\ DOMAIN loc[c] = LocalFields
      /\ \A d \in Calls \ {c} : SameCall(d)
  BY <1>0, Stays
<1> QED BY <1>0, <1>5, <1>6, RowsTables, FarCallOK, MemberStep

LEMMA WriteCountInv == ASSUME MembersInv, NEW c \in Calls, WriteCount(c) PROVE MembersInv'
BY OverStep DEF WriteCount

LEMMA StatementFailsInv ==
  ASSUME MembersInv, NEW c \in Calls, StatementFails(c) PROVE MembersInv'
<1>0. UNCHANGED <<convKey, rows>> /\ MemberCallOK(c)
  BY DEF StatementFails, MembersInv
<1>1. CASE mpc[c] = "repair"
  <2>1. /\ MGoto(c, "recount") /\ UNCHANGED <<loc, opened>>
        /\ lost' = lost \cup {<<loc[c].conv, Head(loc[c].users)>>}
    BY <1>1 DEF StatementFails
  <2>2. PICK a, b \in Users : RepairOK(c, a, b)
    BY <1>0, <1>1 DEF MemberCallOK
  <2>3. PICK k, h : k = loc[c].conv /\ h = Head(loc[c].users)
    OBVIOUS
  <2>4. MembersGrow /\ InConv(k, h)'
    BY <2>1, <2>3, <1>0 DEF MembersGrow, InConv
  <2>5. /\ DOMAIN mpc' = Calls /\ DOMAIN loc' = Calls
        /\ mpc'[c] = "recount" /\ loc'[c] = loc[c] /\ DOMAIN loc[c] = LocalFields
        /\ \A d \in Calls \ {c} : SameCall(d)
    BY <2>1, Stays
  <2>6. OfPair(k, a, b) /\ \A u \in {a, b} : u \in Listed(loc[c].users) \/ InConv(k, u)
    BY <2>2, <2>3 DEF RepairOK
  <2>7. OfPair(k, a, b)' /\ \A u \in {a, b} : InConv(k, u) => InConv(k, u)'
    BY <2>4, <2>6, PairKept
  <2>8. \A u \in {a, b} : u \in Listed(loc[c].users) \/ InConv(k, u)'
    BY <2>6, <2>7
  <2>9. RepairOK(c, a, b)'
    BY <2>2, <2>3, <2>4, <2>5, <2>7, <2>8 DEF RepairOK, InConv, OfPair
  <2>10. MemberCallOK(c)'
    BY <2>5, <2>9 DEF MemberCallOK
  <2>11. MemberTables'
    BY <2>5, <1>0 DEF MembersInv, MemberTables
  <2> QED BY <2>1, <2>4, <2>5, <2>10, <2>11, MemberStep
<1>2. CASE mpc[c] = "recount"
  <2>1. NextUser(c) /\ lost' = lost
    BY <1>2 DEF StatementFails
  <2>2. PICK a, b \in Users : RepairOK(c, a, b)
    BY <1>0, <1>2 DEF MemberCallOK
  <2>3. InConv(loc[c].conv, Head(loc[c].users))
    BY <1>2, <2>2 DEF RepairOK
  <2> QED BY <2>1, <2>2, <2>3, <1>0, <1>2, NextUserInv
<1>3. CASE mpc[c] \notin {"repair", "recount"}
  <2>1. Over(c) /\ UNCHANGED <<lost, opened>>
    BY <1>3 DEF StatementFails
  <2> QED BY <2>1, <1>0, OverStep
<1> QED BY <1>1, <1>2, <1>3

LEMMA MembersRestartInv == MembersInv /\ MembersRestart => MembersInv'
<1> SUFFICES ASSUME MembersInv, MembersRestart PROVE MembersInv'
  OBVIOUS
<1>1. /\ DOMAIN mpc' = Calls /\ DOMAIN loc' = Calls
      /\ \A c \in Calls : mpc'[c] = "idle" /\ loc'[c] = NoLocals
      /\ UNCHANGED <<convKey, rows, lost, opened>>
  BY DEF MembersRestart
<1>2. \A c \in Calls : MemberCallOK(c)'
  BY <1>1, OverOK
<1>3. MemberTables'
  BY <1>1 DEF MembersInv, MemberTables
<1>4. \A x \in opened' : OpenedOK(x)'
  BY <1>1, OpenedKept, SameMembersGrow DEF MembersInv
<1> QED BY <1>2, <1>3, <1>4 DEF MembersInv

-----------------------------------------------------------------------------
LEMMA MembersNextInv == MembersInv /\ [MembersNext]_memberVars => MembersInv'
<1> SUFFICES ASSUME MembersInv, [MembersNext]_memberVars PROVE MembersInv'
  OBVIOUS
<1>1. CASE UNCHANGED memberVars
  <2>1. UNCHANGED <<convKey, rows, lost, opened, mpc, loc>>
    BY <1>1 DEF memberVars
  <2>2. \A d \in Calls : SameCall(d)
    BY <2>1 DEF SameCall, MembersInv, MemberCallOK
  <2>3. \A d \in Calls : MemberCallOK(d)'
    BY <2>1, <2>2, MemberCallKept, SameMembersGrow DEF MembersInv
  <2>4. \A x \in opened' : OpenedOK(x)'
    BY <2>1, OpenedKept, SameMembersGrow DEF MembersInv
  <2>5. MemberTables'
    BY <2>1 DEF MembersInv, MemberTables
  <2> QED BY <2>3, <2>4, <2>5 DEF MembersInv
<1>2. CASE MembersNext
  BY <1>2, CreatePrivateInv, CreateGroupInv, AddMembersInv, RemoveMemberInv,
     CreateConversationInv, InsertMembersInv, CheckMemberInv, RepairMemberInv,
     RecountRepairedInv, ListMembersInv, TakeMemberInv, DeleteMemberInv,
     GetConversationInv, WriteCountInv, StatementFailsInv, MembersRestartInv
  DEF MembersNext
<1> QED BY <1>1, <1>2

\* Two users have one conversation, and it has rows for both.
LEMMA MembersInvBoth == MembersInv => InUnlessRemoved
<1> SUFFICES ASSUME MembersInv PROVE InUnlessRemoved
  OBVIOUS
<1>1. ASSUME NEW x \in opened, NEW y \in opened, x.pair = y.pair PROVE x.conv = y.conv
  <2>1. PICK a, b \in Users : x.pair = {a, b} /\ OfPair(x.conv, a, b)
    BY DEF MembersInv, OpenedOK
  <2>2. PICK p, q \in Users : y.pair = {p, q} /\ OfPair(y.conv, p, q)
    BY DEF MembersInv, OpenedOK
  <2>3. a < b /\ p < q /\ {a, b} = {p, q}
    BY <1>1, <2>1, <2>2 DEF OfPair
  <2>4. a = p /\ b = q
    BY <2>3, UsersAssumption
  <2> QED BY <2>1, <2>2, <2>4 DEF OfPair, MembersInv, MemberTables
<1>2. ASSUME NEW x \in opened, NEW u \in x.pair
      PROVE  \/ rows[x.conv][u] = "live" \/ rows[x.conv][u] = "deleted"
             \/ <<x.conv, u>> \in lost
  <2>1. PICK a, b \in Users : /\ x.pair = {a, b} /\ OfPair(x.conv, a, b)
                             /\ InConv(x.conv, a) /\ InConv(x.conv, b)
    BY <1>2 DEF MembersInv, OpenedOK
  <2>2. u \in Users /\ InConv(x.conv, u) /\ x.conv \in DOMAIN convKey
    BY <1>2, <2>1 DEF OfPair
  <2>3. rows[x.conv] \in [Users -> {"none", "live", "deleted"}]
    BY <2>2 DEF MembersInv, MemberTables
  <2> QED BY <2>2, <2>3 DEF InConv
<1> QED BY <1>1, <1>2 DEF InUnlessRemoved

\* CreatePrivateConversation never gives two users two conversations, and both
\* are in the one it gives, unless they were removed from it or the error of a
\* repair was dropped, for any number of users, of calls at the same time, of
\* failed statements and restarts.
THEOREM PrivateIsShared == MembersSpec => []InUnlessRemoved
<1>1. MembersInit => MembersInv
  BY MembersInitInv
<1>2. MembersInv /\ [MembersNext]_memberVars => MembersInv'
  BY MembersNextInv
<1>3. MembersInv => InUnlessRemoved
  BY MembersInvBoth
<1> QED BY <1>1, <1>2, <1>3, PTL DEF MembersSpec
=============================================================================
