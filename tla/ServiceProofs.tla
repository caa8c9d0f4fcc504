--------------------------- MODULE ServiceProofs ---------------------------
(***************************************************************************)
(* The services that callers share, one section each: the transaction      *)
(* coordinator, the sessions of the accounts, and the gateway with the     *)
(* documentation page.  The theorems hold for any number of transactions,  *)
(* participants, stores, keys, accounts and requests and any timeout.      *)
(***************************************************************************)
EXTENDS TxnCoordinator, Accounts, DocsPage, TLAPS

Places == {"begin", "prepare", "toPrepare", "preparing", "commit", "toCommit",
           "committing", "abort", "toAbort", "done"}
Statuses == {"none", "pending", "prepared", "timeout", "committed", "aborted"}
PartStatuses == {"pending", "prepared", "committed", "aborted"}

LockTypes ==
  /\ now \in Nat /\ owners \in Nat
  /\ ownerTxn \in Seq(Txns) /\ Len(ownerTxn) = owners
  /\ locks \in [Keys -> [owner : 0..owners, expires : Nat]]
  /\ created \in [Txns -> Nat]
  /\ held \in [Txns -> SUBSET Keys]

\* The participant a caller is at, and its participants' statuses.
AtTypes(t) ==
  /\ at[t] \in 1..(Len(Participants[t]) + 1)
  /\ part[t] \in [Indices(t) -> PartStatuses]
  /\ applied[t] \subseteq Indices(t)

TxnTypes ==
  /\ pc \in [Txns -> Places] /\ status \in [Txns -> Statuses]
  /\ failed \in [Txns -> BOOLEAN] /\ overran \in BOOLEAN
  /\ at = [t \in Txns |-> at[t]] /\ part = [t \in Txns |-> part[t]]
  /\ applied = [t \in Txns |-> applied[t]]
  /\ \A t \in Txns : AtTypes(t)

CleanTypes ==
  /\ cleaner \in {"wait", "scan", "stuck"}
  /\ scan \in [now : Nat, todo : SUBSET Txns, overdue : SUBSET Txns]

TypeOK == LockTypes /\ TxnTypes /\ CleanTypes

-----------------------------------------------------------------------------
\* What the prepare loop leaves behind.
AfterPrepare(t, i) ==
  part[t][i] = IF HasHandler(t, i) THEN "prepared" ELSE "aborted"

\* How far the two loops of a transaction have come.
Preparing(t) ==
  pc[t] = "preparing" => \A i \in Indices(t) : i < at[t] => AfterPrepare(t, i)

AllPrepared(t) ==
  pc[t] \in {"commit", "toCommit"} => \A i \in Indices(t) : AfterPrepare(t, i)

Committing(t) ==
  pc[t] = "committing" =>
    /\ \A i \in Indices(t) : i >= at[t] => AfterPrepare(t, i)
    /\ \A i \in applied[t] : HasHandler(t, i)
    /\ ~failed[t] =>
         \A i \in Indices(t) : i < at[t] /\ HasHandler(t, i) => i \in applied[t]

NotApplied(t) ==
  pc[t] \notin {"committing", "abort", "toAbort", "done"} => applied[t] = {}

AllApplied(t) ==
  status[t] = "committed" =>
    pc[t] = "done" /\ applied[t] = {i \in Indices(t) : HasHandler(t, i)}

Progress(t) ==
  Preparing(t) /\ AllPrepared(t) /\ Committing(t) /\ NotApplied(t) /\ AllApplied(t)

\* A transaction that has keys has begun and has not returned.
HeldInv(t) ==
  /\ held[t] \subseteq LockKeys(t)
  /\ held[t] # {} => pc[t] \notin {"begin", "done"}

\* An entry of the lock table belongs to a transaction that has the key.
EntryInv(k) ==
  Exists(locks, k) => k \in held[ownerTxn[locks[k].owner]]

\* A key that a transaction has is locked for it until the timeout, which has
\* not come.
KeyInv(t, k) ==
  /\ Exists(locks, k) /\ ownerTxn[locks[k].owner] = t
  /\ locks[k].expires = created[t] + Timeout
  /\ now < created[t] + Timeout

LockInv ==
  /\ \A t \in Txns : HeldInv(t)
  /\ \A k \in Keys : EntryInv(k)
  /\ ~overran => \A t \in Txns : \A k \in held[t] : KeyInv(t, k)

ProgressInv == \A t \in Txns : Progress(t)

Inv == TypeOK /\ ProgressInv /\ LockInv

-----------------------------------------------------------------------------
(***************************************************************************)
(* The lock table.                                                         *)
(***************************************************************************)
\* The entry of a key names one of the transactions.
LEMMA EntryOwner ==
  ASSUME LockTypes, NEW k \in Keys
  PROVE  /\ locks[k].owner \in 0..owners /\ locks[k].expires \in Nat
         /\ Exists(locks, k) => ownerTxn[locks[k].owner] \in Txns
BY DEF LockTypes, Exists

\* What leaves the table alone and ends no transaction that has keys.
QuietStep ==
  /\ UNCHANGED <<now, locks, owners, ownerTxn, created, held, overran>>
  /\ \A t \in Txns : held[t] # {} => pc'[t] \notin {"begin", "done"}

LEMMA QuietLocks ==
  ASSUME LockTypes, LockInv, QuietStep
  PROVE  LockTypes' /\ LockInv'
<1>1. LockTypes'
  BY DEF LockTypes, QuietStep
<1>2. \A t \in Txns : HeldInv(t)'
  BY DEF LockInv, HeldInv, QuietStep, LockKeys, Indices
<1>3. \A k \in Keys : EntryInv(k)'
  BY DEF LockInv, EntryInv, QuietStep, Exists
<1>4. ~overran' => \A t \in Txns : \A k \in held'[t] : KeyInv(t, k)'
  BY DEF LockInv, KeyInv, QuietStep, Exists
<1> QED BY <1>1, <1>2, <1>3, <1>4 DEF LockInv

\* The transaction that ends takes its entries with it.
EndStep(t) ==
  /\ ReleaseLocks(held[t]) /\ held' = [held EXCEPT ![t] = {}]
  /\ pc' = [pc EXCEPT ![t] = "done"]
  /\ UNCHANGED <<now, owners, ownerTxn, created, overran>>

LEMMA EndLocks ==
  ASSUME TypeOK, LockInv, NEW t \in Txns, EndStep(t)
  PROVE  LockTypes' /\ LockInv'
<1>1. /\ \A k \in Keys : locks'[k] = IF k \in held[t] THEN NoEntry ELSE locks[k]
      /\ \A s \in Txns : held'[s] = IF s = t THEN {} ELSE held[s]
      /\ \A s \in Txns : s # t => pc'[s] = pc[s]
  BY DEF EndStep, ReleaseLocks, TypeOK, LockTypes, TxnTypes
<1>2. LockTypes'
  <2>1. \A k \in Keys : locks'[k] \in [owner : 0..owners, expires : Nat]
    <3>1. NoEntry \in [owner : 0..owners, expires : Nat]
      BY DEF TypeOK, LockTypes, NoEntry
    <3> QED BY Zenon, <3>1, <1>1 DEF TypeOK, LockTypes
  <2>2. locks' \in [Keys -> [owner : 0..owners, expires : Nat]]
    BY <2>1 DEF EndStep, ReleaseLocks
  <2>3. held' \in [Txns -> SUBSET Keys]
    BY DEF EndStep, TypeOK, LockTypes
  <2> QED BY <2>2, <2>3 DEF EndStep, TypeOK, LockTypes
<1>3. ASSUME NEW s \in Txns PROVE HeldInv(s)'
  BY <1>1 DEF LockInv, HeldInv, LockKeys, Indices
<1>4. ASSUME NEW k \in Keys PROVE EntryInv(k)'
  <2>1. CASE k \in held[t]
    BY <2>1, <1>1 DEF EntryInv, Exists, NoEntry
  <2>2. CASE k \notin held[t]
    <3>1. locks'[k] = locks[k] /\ ownerTxn' = ownerTxn
      BY <2>2, <1>1 DEF EndStep
    <3>2. Exists(locks, k) => ownerTxn[locks[k].owner] \in Txns
      BY EntryOwner DEF TypeOK
    <3> QED BY <3>1, <3>2, <2>2, <1>1 DEF EntryInv, Exists, LockInv
  <2> QED BY <2>1, <2>2
<1>5. ASSUME ~overran', NEW s \in Txns, NEW k \in held'[s] PROVE KeyInv(s, k)'
  <2>1. s # t /\ k \in held[s] /\ k \in Keys /\ ~overran
    BY <1>1, <1>5 DEF EndStep, TypeOK, LockTypes
  <2>2. KeyInv(s, k)
    BY <2>1 DEF LockInv
  <2>3. k \notin held[t]
    <3> SUFFICES ASSUME k \in held[t] PROVE FALSE
      OBVIOUS
    <3>1. KeyInv(t, k)
      BY <2>1 DEF LockInv
    <3> QED BY <2>1, <2>2, <3>1 DEF KeyInv
  <2>4. locks'[k] = locks[k] /\ UNCHANGED <<ownerTxn, created, now>>
    BY <2>1, <2>3, <1>1 DEF EndStep
  <2> QED BY <2>2, <2>4 DEF KeyInv, Exists
<1> QED BY <1>2, <1>3, <1>4, <1>5 DEF LockInv

\* The bookkeeping of the owner ids when one more is given to t.
LEMMA NewOwner ==
  ASSUME LockTypes, NEW t \in Txns, ownerTxn' = Append(ownerTxn, t)
  PROVE  /\ ownerTxn' \in Seq(Txns) /\ Len(ownerTxn') = owners + 1
         /\ \A o \in 1..owners : ownerTxn'[o] = ownerTxn[o]
         /\ ownerTxn'[owners + 1] = t
BY DEF LockTypes

LEMMA KeysOfTxn ==
  ASSUME NEW t \in Txns
  PROVE  LockKeys(t) \subseteq Keys
BY TxnsAssumption DEF LockKeys, Indices

LEMMA BeginLocks ==
  ASSUME TypeOK, LockInv, NEW t \in Txns, BeginTransaction(t)
  PROVE  LockTypes' /\ LockInv'
<1> DEFINE new == [owner |-> owners + 1, expires |-> now + Timeout]
<1>1. /\ \A k \in Keys : locks'[k] = IF k \in LockKeys(t) THEN new ELSE locks[k]
      /\ locks' = [k \in Keys |-> locks'[k]]
  BY DEF BeginTransaction
<1>2. /\ \A s \in Txns : held'[s] = IF s = t THEN LockKeys(t) ELSE held[s]
      /\ \A s \in Txns : created'[s] = IF s = t THEN now ELSE created[s]
      /\ held' \in [Txns -> SUBSET Keys] /\ created' \in [Txns -> Nat]
  BY KeysOfTxn DEF BeginTransaction, TypeOK, LockTypes
<1>3. /\ \A s \in Txns : pc'[s] = IF s = t THEN "prepare" ELSE pc[s]
      /\ pc[t] = "begin"
  BY DEF BeginTransaction, TypeOK, TxnTypes
<1>4. /\ now \in Nat /\ owners \in Nat /\ now' = now /\ owners' = owners + 1
      /\ overran' = overran /\ now + Timeout \in Nat /\ now < now + Timeout
  BY TimesAssumption DEF BeginTransaction, TypeOK, LockTypes
<1>5. /\ ownerTxn' \in Seq(Txns) /\ Len(ownerTxn') = owners + 1
      /\ \A o \in 1..owners : ownerTxn'[o] = ownerTxn[o]
      /\ ownerTxn'[owners + 1] = t
  BY Zenon, NewOwner DEF BeginTransaction, TypeOK
<1>6. new.owner = owners + 1 /\ new.expires = now + Timeout
  OBVIOUS
<1>7. LockTypes'
  <2>1. new \in [owner : 0..(owners + 1), expires : Nat]
    BY <1>4
  <2>2. \A k \in Keys : locks[k] \in [owner : 0..(owners + 1), expires : Nat]
    BY <1>4 DEF TypeOK, LockTypes
  <2>3. locks' \in [Keys -> [owner : 0..(owners + 1), expires : Nat]]
    BY <2>1, <2>2, <1>1
  <2> QED BY <2>3, <1>2, <1>4, <1>5 DEF LockTypes
<1> HIDE DEF new
<1>8. ASSUME NEW s \in Txns PROVE HeldInv(s)'
  BY <1>2, <1>3 DEF LockInv, HeldInv, LockKeys, Indices
<1>9. ASSUME NEW k \in Keys PROVE EntryInv(k)'
  <2>1. CASE k \in LockKeys(t)
    BY <2>1, <1>1, <1>2, <1>5, <1>6 DEF EntryInv
  <2>2. CASE k \notin LockKeys(t)
    <3>1. locks'[k] = locks[k]
      BY <2>2, <1>1
    <3>2. /\ locks[k].owner \in 0..owners
          /\ Exists(locks, k) => ownerTxn[locks[k].owner] \in Txns
      BY EntryOwner DEF TypeOK
    <3>3. Exists(locks, k) => /\ ownerTxn'[locks[k].owner] = ownerTxn[locks[k].owner]
                              /\ k \in held[ownerTxn[locks[k].owner]]
      BY <3>2, <1>4, <1>5 DEF Exists, LockInv, EntryInv
    <3>4. held[t] = {}
      BY <1>3 DEF LockInv, HeldInv
    <3> QED BY <3>1, <3>2, <3>3, <3>4, <1>2 DEF EntryInv, Exists
  <2> QED BY <2>1, <2>2
<1>10. ASSUME ~overran', NEW s \in Txns, NEW k \in held'[s] PROVE KeyInv(s, k)'
  <2>1. CASE s = t
    <3>1. k \in LockKeys(t) /\ k \in Keys
      BY <2>1, <1>2, <1>10, KeysOfTxn
    <3>2. locks'[k] = new /\ created'[s] = now
      BY <3>1, <2>1, <1>1, <1>2
    <3> QED BY <3>2, <2>1, <1>4, <1>5, <1>6 DEF KeyInv, Exists
  <2>2. CASE s # t
    <3>1. k \in held[s] /\ k \in Keys /\ ~overran
      BY <2>2, <1>2, <1>4, <1>10
    <3>2. KeyInv(s, k)
      BY <3>1 DEF LockInv
    <3>3. k \notin LockKeys(t)
      BY <3>1, <3>2 DEF KeyInv, BeginTransaction, Acquirable, TypeOK, LockTypes
    <3>4. locks'[k] = locks[k] /\ created'[s] = created[s]
      BY <3>1, <3>3, <2>2, <1>1, <1>2
    <3>5. ownerTxn'[locks[k].owner] = ownerTxn[locks[k].owner]
      BY <3>1, <3>2, <1>4, <1>5, EntryOwner DEF KeyInv, Exists, TypeOK
    <3> QED BY <3>2, <3>4, <3>5, <1>4 DEF KeyInv, Exists
  <2> QED BY <2>1, <2>2
<1> QED BY <1>7, <1>8, <1>9, <1>10 DEF LockInv

\* Expired entries vanish.
ExpireStep(gone) ==
  /\ \A k \in gone : Acquirable(locks, k, now)
  /\ locks' = [k \in Keys |-> IF k \in gone THEN NoEntry ELSE locks[k]]
  /\ UNCHANGED <<now, owners, ownerTxn, created, held, overran>>
  /\ \A t \in Txns : held[t] # {} => pc'[t] = pc[t]

LEMMA ExpireLocks ==
  ASSUME LockTypes, LockInv, NEW gone \in SUBSET Keys, ExpireStep(gone)
  PROVE  LockTypes' /\ LockInv'
<1>1. /\ \A k \in Keys : locks'[k] = IF k \in gone THEN NoEntry ELSE locks[k]
      /\ UNCHANGED <<now, owners, ownerTxn, created, held, overran>>
  BY DEF ExpireStep
<1>2. LockTypes'
  <2>1. NoEntry \in [owner : 0..owners, expires : Nat]
    BY DEF LockTypes, NoEntry
  <2>2. \A k \in Keys : locks'[k] \in [owner : 0..owners, expires : Nat]
    BY Zenon, <2>1, <1>1 DEF LockTypes
  <2>3. locks' \in [Keys -> [owner : 0..owners, expires : Nat]]
    BY <2>2 DEF ExpireStep
  <2> QED BY <2>3, <1>1 DEF LockTypes
<1>3. ASSUME NEW t \in Txns PROVE HeldInv(t)'
  BY <1>1 DEF LockInv, HeldInv, ExpireStep, LockKeys, Indices
<1>4. ASSUME NEW k \in Keys PROVE EntryInv(k)'
  <2>1. CASE k \in gone
    BY <2>1, <1>1 DEF EntryInv, Exists, NoEntry
  <2>2. CASE k \notin gone
    BY <2>2, <1>1 DEF EntryInv, Exists, LockInv
  <2> QED BY <2>1, <2>2
<1>5. ASSUME ~overran', NEW t \in Txns, NEW k \in held'[t] PROVE KeyInv(t, k)'
  <2>1. k \in held[t] /\ k \in Keys /\ ~overran
    BY <1>1, <1>5 DEF LockTypes
  <2>2. KeyInv(t, k)
    BY <2>1 DEF LockInv
  <2>3. k \notin gone
    <3>1. now \in Nat /\ locks[k].expires \in Nat
      BY <2>1, EntryOwner DEF LockTypes
    <3> QED BY <2>2, <3>1 DEF KeyInv, ExpireStep, Acquirable
  <2>4. locks'[k] = locks[k]
    BY <2>1, <2>3, <1>1
  <2> QED BY <2>2, <2>4, <1>1 DEF KeyInv, Exists
<1> QED BY <1>2, <1>3, <1>4, <1>5 DEF LockInv

LEMMA BeginFailsLocks ==
  ASSUME TypeOK, LockInv, NEW t \in Txns, BeginFails(t)
  PROVE  LockTypes' /\ LockInv'
<1>1. PICK gone \in SUBSET {k \in LockKeys(t) : Acquirable(locks, k, now)} :
        locks' = [k \in Keys |-> IF k \in gone THEN NoEntry ELSE locks[k]]
  BY DEF BeginFails
<1>2. gone \in SUBSET Keys
  BY <1>1, KeysOfTxn
<1>3. \A s \in Txns : held[s] # {} => pc'[s] = pc[s]
  BY DEF BeginFails, LockInv, HeldInv, TypeOK, TxnTypes
<1>4. ExpireStep(gone)
  BY <1>1, <1>3 DEF ExpireStep, BeginFails
<1> QED BY <1>2, <1>4, ExpireLocks DEF TypeOK

LEMMA CleanupLocks ==
  ASSUME TypeOK, LockInv, CleanupExpiredLocks
  PROVE  LockTypes' /\ LockInv'
<1> DEFINE gone == {k \in Keys : now > locks[k].expires}
<1>1. \A k \in gone : Acquirable(locks, k, now)
  BY EntryOwner DEF Acquirable, TypeOK, LockTypes
<1>2. ExpireStep(gone)
  BY <1>1 DEF ExpireStep, CleanupExpiredLocks, Cleaned, txnVars
<1> QED BY <1>2, ExpireLocks DEF TypeOK

\* The clock reaches the timeout of no transaction that has keys, unless the
\* step marks it.
LEMMA TickLocks ==
  ASSUME TypeOK, LockInv, Tick
  PROVE  LockTypes' /\ LockInv'
<1>1. /\ now \in Nat /\ now' = now + 1
      /\ UNCHANGED <<locks, owners, ownerTxn, created, held, pc>>
  BY DEF Tick, txnVars, TypeOK, LockTypes
<1>2. LockTypes'
  BY <1>1 DEF TypeOK, LockTypes
<1>3. ASSUME NEW t \in Txns PROVE HeldInv(t)'
  BY <1>1 DEF LockInv, HeldInv, LockKeys, Indices
<1>4. ASSUME NEW k \in Keys PROVE EntryInv(k)'
  BY <1>1 DEF LockInv, EntryInv, Exists
<1>5. ASSUME ~overran', NEW t \in Txns, NEW k \in held'[t] PROVE KeyInv(t, k)'
  <2>1. ~overran /\ ~(now + 1 >= created[t] + Timeout) /\ k \in held[t]
    BY Zenon, <1>1, <1>5 DEF Tick
  <2>2. KeyInv(t, k)
    BY <2>1 DEF LockInv
  <2>3. created[t] \in Nat /\ Timeout \in Nat
    BY TimesAssumption DEF TypeOK, LockTypes
  <2> QED BY <2>1, <2>2, <2>3, <1>1 DEF KeyInv, Exists
<1> QED BY <1>2, <1>3, <1>4, <1>5 DEF LockInv

-----------------------------------------------------------------------------
(***************************************************************************)
(* The transactions.                                                       *)
(***************************************************************************)
\* A step of the caller of t leaves the other transactions alone.
OthersSame(t) ==
  \A s \in Txns \ {t} :
    /\ pc'[s] = pc[s] /\ status'[s] = status[s] /\ failed'[s] = failed[s]
    /\ at'[s] = at[s] /\ part'[s] = part[s] /\ applied'[s] = applied[s]

Shapes ==
  /\ pc \in [Txns -> Places] /\ status \in [Txns -> Statuses]
  /\ failed \in [Txns -> BOOLEAN] /\ overran \in BOOLEAN
  /\ at = [t \in Txns |-> at[t]] /\ part = [t \in Txns |-> part[t]]
  /\ applied = [t \in Txns |-> applied[t]]

LEMMA SameProgress ==
  ASSUME NEW t \in Txns, Progress(t),
         pc'[t] = pc[t], status'[t] = status[t], failed'[t] = failed[t],
         at'[t] = at[t], part'[t] = part[t], applied'[t] = applied[t]
  PROVE  Progress(t)'
<1>1. \A i : AfterPrepare(t, i)' = AfterPrepare(t, i) /\ HasHandler(t, i)' = HasHandler(t, i)
  BY DEF AfterPrepare, HasHandler
<1>2. Preparing(t)' /\ AllPrepared(t)'
  BY <1>1 DEF Progress, Preparing, AllPrepared, Indices
<1>3. Committing(t)'
  BY <1>1 DEF Progress, Committing, Indices
<1>4. NotApplied(t)' /\ AllApplied(t)'
  BY DEF Progress, NotApplied, AllApplied, Indices, HasHandler
<1> QED BY <1>2, <1>3, <1>4 DEF Progress

\* Outside the loops there is little to show.
LEMMA OutsideLoops ==
  ASSUME NEW t \in Txns,
         pc'[t] \notin {"preparing", "commit", "toCommit", "committing"},
         pc'[t] \in {"abort", "toAbort", "done"} \/ applied'[t] = {},
         status'[t] # "committed"
  PROVE  Progress(t)'
BY DEF Progress, Preparing, AllPrepared, Committing, NotApplied, AllApplied

LEMMA OneTxn ==
  ASSUME TxnTypes, ProgressInv, NEW t \in Txns, Shapes', OthersSame(t),
         AtTypes(t)', Progress(t)'
  PROVE  TxnTypes' /\ ProgressInv'
<1>1. ASSUME NEW s \in Txns PROVE AtTypes(s)'
  BY Zenon DEF AtTypes, TxnTypes, OthersSame, Indices
<1>2. ASSUME NEW s \in Txns PROVE Progress(s)'
  <2>1. CASE s = t
    BY <2>1
  <2>2. CASE s # t
    <3>1. Progress(s)
      BY DEF ProgressInv
    <3>2. /\ pc'[s] = pc[s] /\ status'[s] = status[s] /\ failed'[s] = failed[s]
          /\ at'[s] = at[s] /\ part'[s] = part[s] /\ applied'[s] = applied[s]
      BY <2>2 DEF OthersSame
    <3> QED BY <3>1, <3>2, SameProgress
  <2> QED BY <2>1, <2>2
<1> QED BY <1>1, <1>2 DEF TxnTypes, ProgressInv, Shapes

\* What a step that changes only pc and status has to show.
LEMMA PcStep ==
  ASSUME TypeOK, ProgressInv, NEW t \in Txns,
         NEW place \in Places, pc' = [pc EXCEPT ![t] = place],
         NEW st \in Statuses, status' = [status EXCEPT ![t] = st],
         UNCHANGED <<at, part, applied, failed, overran>>, Progress(t)'
  PROVE  TxnTypes' /\ ProgressInv'
<1>1. Shapes' /\ OthersSame(t)
  BY DEF Shapes, OthersSame, TypeOK, TxnTypes
<1>2. AtTypes(t)'
  BY DEF AtTypes, TypeOK, TxnTypes, Indices
<1> QED BY <1>1, <1>2, OneTxn DEF TypeOK

LEMMA SameStatus ==
  ASSUME TypeOK, NEW t \in Txns, UNCHANGED status
  PROVE  status[t] \in Statuses /\ status' = [status EXCEPT ![t] = status[t]]
BY DEF TypeOK, TxnTypes

LEMMA BeginTxn ==
  ASSUME TypeOK, ProgressInv, NEW t \in Txns, BeginTransaction(t)
  PROVE  TxnTypes' /\ ProgressInv'
<1>1. /\ pc'[t] = "prepare" /\ status'[t] = "pending" /\ applied'[t] = applied[t]
      /\ pc[t] = "begin"
  BY DEF BeginTransaction, TypeOK, TxnTypes
<1>2. applied[t] = {}
  BY <1>1 DEF ProgressInv, Progress, NotApplied
<1>3. Progress(t)'
  BY <1>1, <1>2, OutsideLoops
<1> QED BY Zenon, <1>3, PcStep DEF BeginTransaction, Places, Statuses

LEMMA BeginFailsTxn ==
  ASSUME TypeOK, ProgressInv, NEW t \in Txns, BeginFails(t)
  PROVE  TxnTypes' /\ ProgressInv'
<1>1. pc'[t] = "done" /\ status'[t] = status[t] /\ pc[t] = "begin"
  BY DEF BeginFails, TypeOK, TxnTypes
<1>2. status[t] # "committed"
  BY <1>1 DEF ProgressInv, Progress, AllApplied
<1>3. Progress(t)'
  BY <1>1, <1>2, OutsideLoops
<1> QED BY Zenon, <1>3, PcStep, SameStatus DEF BeginFails, Places

LEMMA LookupTxn ==
  ASSUME TypeOK, ProgressInv, NEW t \in Txns, Lookup(t)
  PROVE  TxnTypes' /\ ProgressInv'
<1>1. PICK place \in {"toPrepare", "toCommit", "toAbort"} :
        /\ pc' = [pc EXCEPT ![t] = place]
        /\ place = "toPrepare" => pc[t] = "prepare"
        /\ place = "toCommit" => pc[t] = "commit"
        /\ place = "toAbort" => pc[t] = "abort"
  BY Zenon DEF Lookup
<1>2. /\ pc'[t] = place /\ status'[t] = status[t] /\ applied'[t] = applied[t]
      /\ part'[t] = part[t] /\ pc[t] \in {"prepare", "commit", "abort"}
  BY <1>1 DEF Lookup, TypeOK, TxnTypes
<1>3. Progress(t)'
  <2>1. AllPrepared(t) /\ NotApplied(t) /\ status[t] # "committed"
    BY <1>2 DEF ProgressInv, Progress, AllApplied
  <2>2. CASE place \in {"toPrepare", "toAbort"}
    BY <2>1, <2>2, <1>1, <1>2, OutsideLoops DEF NotApplied
  <2>3. CASE place = "toCommit"
    <3>1. AllPrepared(t)'
      BY <2>1, <2>3, <1>1, <1>2 DEF AllPrepared, AfterPrepare, Indices, HasHandler
    <3>2. NotApplied(t)'
      BY <2>1, <2>3, <1>1, <1>2 DEF NotApplied
    <3> QED BY <3>1, <3>2, <2>1, <2>3, <1>2
            DEF Progress, Preparing, Committing, AllApplied
  <2> QED BY <2>2, <2>3, <1>1
<1> QED BY Zenon, <1>1, <1>3, PcStep, SameStatus DEF Lookup, Places

\* The sequence of participants, and where its loops stand.
LEMMA Sequence ==
  ASSUME TypeOK, NEW t \in Txns
  PROVE  /\ Len(Participants[t]) \in Nat /\ Indices(t) = 1..Len(Participants[t])
         /\ at[t] \in 1..(Len(Participants[t]) + 1)
         /\ part[t] \in [Indices(t) -> PartStatuses]
         /\ applied[t] \subseteq Indices(t)
BY TxnsAssumption DEF Indices, TypeOK, TxnTypes, AtTypes

LEMMA NextPlace ==
  ASSUME NEW n \in Nat, NEW i \in 1..n, NEW j \in 1..n
  PROVE  /\ i >= i /\ (j >= i + 1 => j # i /\ j >= i)
         /\ j < i + 1 => j = i \/ j < i
OBVIOUS

\* Where a loop over the participants stands, as numbers.
LEMMA LoopPlaces ==
  ASSUME NEW n \in Nat, NEW a \in 1..(n + 1)
  PROVE  /\ 1 \in 1..(n + 1) /\ \A i \in 1..n : ~(i < 1)
         /\ a \notin 1..n => \A i \in 1..n : i < a
         /\ \A i \in 1..n : \A b \in {a, a + 1} : i # a /\ i < b => i < a
OBVIOUS

LEMMA PrepareTxn ==
  ASSUME TypeOK, ProgressInv, NEW t \in Txns, PrepareTransaction(t)
  PROVE  TxnTypes' /\ ProgressInv'
<1>1. /\ pc'[t] \in {"abort", "preparing"} /\ pc[t] = "toPrepare"
      /\ status'[t] \in {status[t], "timeout"}
      /\ at'[t] = 1 /\ part'[t] = part[t] /\ applied'[t] = applied[t]
  BY DEF PrepareTransaction, TypeOK, TxnTypes
<1>2. Shapes' /\ OthersSame(t)
  BY DEF PrepareTransaction, Shapes, OthersSame, TypeOK, TxnTypes, Places, Statuses
<1>3. Len(Participants[t]) \in Nat /\ Indices(t) = 1..Len(Participants[t])
  BY TxnsAssumption DEF Indices
<1>4. AtTypes(t)'
  BY <1>1, <1>3 DEF AtTypes, TypeOK, TxnTypes, Indices
<1>5. Preparing(t)'
  <2>1. \A i \in Indices(t) : ~(i < 1)
    BY Zenon, <1>3, Sequence, LoopPlaces
  <2> QED BY Zenon, <1>1, <2>1 DEF Preparing, Indices
<1>6. status'[t] # "committed" /\ applied'[t] = {}
  BY <1>1 DEF ProgressInv, Progress, NotApplied, AllApplied
<1>7. Progress(t)'
  BY <1>1, <1>5, <1>6 DEF Progress, AllPrepared, Committing, NotApplied, AllApplied
<1> QED BY <1>2, <1>4, <1>7, OneTxn DEF TypeOK

LEMMA PrepareParticipantTxn ==
  ASSUME TypeOK, ProgressInv, NEW t \in Txns, PrepareParticipant(t)
  PROVE  TxnTypes' /\ ProgressInv'
<1> DEFINE i == at[t]
<1>1. PICK st \in {"prepared", "aborted"} :
        /\ part' = [part EXCEPT ![t][i] = st]
        /\ \/ /\ at' = [at EXCEPT ![t] = @ + 1] /\ pc' = pc
              /\ st = IF HasHandler(t, i) THEN "prepared" ELSE "aborted"
           \/ at' = at /\ pc' = [pc EXCEPT ![t] = "abort"]
  BY Zenon DEF PrepareParticipant
<1>2. /\ pc[t] = "preparing" /\ i \in Indices(t)
      /\ UNCHANGED <<status, failed, applied, overran>>
  BY DEF PrepareParticipant
<1>3. /\ Shapes' /\ OthersSame(t)
      /\ part'[t] = [part[t] EXCEPT ![i] = st] /\ applied'[t] = applied[t]
      /\ status'[t] = status[t]
      /\ \/ /\ at'[t] = i + 1 /\ pc'[t] = "preparing"
            /\ st = IF HasHandler(t, i) THEN "prepared" ELSE "aborted"
         \/ at'[t] = i /\ pc'[t] = "abort"
  BY Zenon, <1>1, <1>2 DEF Shapes, OthersSame, TypeOK, TxnTypes, Places
<1>4. /\ i \in 1..Len(Participants[t]) /\ Indices(t) = 1..Len(Participants[t])
      /\ Len(Participants[t]) \in Nat /\ Indices(t)' = Indices(t)
      /\ part[t] \in [Indices(t) -> PartStatuses]
      /\ applied[t] \subseteq Indices(t)
  BY <1>2, Sequence DEF Indices
<1> HIDE DEF i
<1>5. AtTypes(t)'
  BY <1>3, <1>4 DEF AtTypes, PartStatuses
<1>6. Progress(t)
  BY DEF ProgressInv
<1>7. ASSUME pc'[t] = "preparing", NEW j \in Indices(t), j < at'[t]
      PROVE  AfterPrepare(t, j)'
  <2>1. CASE j = i
    BY <2>1, <1>3, <1>4, <1>7 DEF AfterPrepare, HasHandler
  <2>2. CASE j # i
    <3>1. j < at[t]
      BY Zenon, <2>2, <1>3, <1>4, <1>7, Sequence, LoopPlaces DEF i
    <3>2. AfterPrepare(t, j)
      BY <3>1, <1>2, <1>6 DEF Progress, Preparing
    <3> QED BY <3>2, <2>2, <1>3, <1>4 DEF AfterPrepare, HasHandler
  <2> QED BY <2>1, <2>2
<1>8. Preparing(t)'
  BY <1>4, <1>7 DEF Preparing
<1>9. status'[t] # "committed" /\ applied'[t] = {}
  BY <1>2, <1>3, <1>6 DEF Progress, NotApplied, AllApplied
<1>10. Progress(t)'
  BY <1>3, <1>8, <1>9 DEF Progress, AllPrepared, Committing, NotApplied, AllApplied
<1> QED BY <1>3, <1>5, <1>10, OneTxn DEF TypeOK

LEMMA PreparedTxn ==
  ASSUME TypeOK, ProgressInv, NEW t \in Txns, Prepared(t)
  PROVE  TxnTypes' /\ ProgressInv'
<1>1. /\ pc[t] = "preparing" /\ at[t] \notin Indices(t)
      /\ pc'[t] = "commit" /\ status'[t] = "prepared"
      /\ part'[t] = part[t] /\ applied'[t] = applied[t]
  BY DEF Prepared, TypeOK, TxnTypes
<1>2. \A i \in Indices(t) : i < at[t]
  BY Zenon, <1>1, Sequence, LoopPlaces
<1>3. Progress(t)'
  <2>1. Preparing(t) /\ applied'[t] = {}
    BY <1>1 DEF ProgressInv, Progress, NotApplied
  <2>2. AllPrepared(t)'
    BY <2>1, <1>1, <1>2 DEF Preparing, AllPrepared, AfterPrepare, Indices, HasHandler
  <2> QED BY <2>1, <2>2, <1>1
          DEF Progress, Preparing, Committing, NotApplied, AllApplied
<1> QED BY Zenon, <1>3, PcStep DEF Prepared, Places, Statuses

LEMMA CommitTxn ==
  ASSUME TypeOK, ProgressInv, NEW t \in Txns, CommitTransaction(t)
  PROVE  TxnTypes' /\ ProgressInv'
<1>1. /\ pc[t] = "toCommit" /\ pc'[t] = "committing" /\ at'[t] = 1
      /\ status'[t] = status[t] /\ part'[t] = part[t] /\ applied'[t] = applied[t]
  BY DEF CommitTransaction, TypeOK, TxnTypes
<1>2. Shapes' /\ OthersSame(t)
  BY DEF CommitTransaction, Shapes, OthersSame, TypeOK, TxnTypes, Places
<1>3. AtTypes(t)'
  <2>1. Len(Participants[t]) \in Nat /\ AtTypes(t)
    BY TxnsAssumption DEF TypeOK, TxnTypes
  <2>2. at'[t] \in 1..(Len(Participants[t]) + 1)
    BY Zenon, <1>1, Sequence, LoopPlaces
  <2> QED BY <2>1, <2>2, <1>1, Zenon DEF AtTypes, Indices
<1>4. \A i \in Indices(t) : ~(i < 1)
  BY Zenon, Sequence, LoopPlaces
<1>5. Progress(t)'
  <2>1. AllPrepared(t) /\ applied'[t] = {} /\ status'[t] # "committed"
    BY <1>1 DEF ProgressInv, Progress, NotApplied, AllApplied
  <2>2. \A i \in Indices(t) : AfterPrepare(t, i)'
    BY <2>1, <1>1 DEF AllPrepared, AfterPrepare, HasHandler
  <2>3. Committing(t)'
    BY <2>1, <2>2, <1>1, <1>4 DEF Committing, Indices
  <2> QED BY <2>1, <2>3, <1>1
          DEF Progress, Preparing, AllPrepared, NotApplied, AllApplied
<1> QED BY <1>2, <1>3, <1>5, OneTxn DEF TypeOK

LEMMA CommitParticipantTxn ==
  ASSUME TypeOK, ProgressInv, NEW t \in Txns, CommitParticipant(t)
  PROVE  TxnTypes' /\ ProgressInv'
<1> DEFINE i == at[t]
<1>1. /\ pc[t] = "committing" /\ i \in Indices(t)
      /\ at' = [at EXCEPT ![t] = @ + 1]
      /\ UNCHANGED <<pc, status, overran>>
  BY DEF CommitParticipant
<1>2. \/ part[t][i] # "prepared" /\ UNCHANGED <<part, applied, failed>>
      \/ /\ part[t][i] = "prepared"
         /\ part' = [part EXCEPT ![t][i] = "committed"]
         /\ applied' = [applied EXCEPT ![t] = @ \cup {i}] /\ failed' = failed
      \/ /\ part[t][i] = "prepared"
         /\ failed' = [failed EXCEPT ![t] = TRUE] /\ UNCHANGED <<part, applied>>
  BY DEF CommitParticipant
<1>3. Shapes' /\ OthersSame(t)
  BY Zenon, <1>1, <1>2 DEF Shapes, OthersSame, TypeOK, TxnTypes
<1>4. /\ at'[t] = i + 1 /\ pc'[t] = "committing" /\ status'[t] = status[t]
      /\ \A j \in Indices(t) : j # i => part'[t][j] = part[t][j]
  BY <1>1, <1>2, Sequence DEF TypeOK, TxnTypes
<1>4a. \/ part[t][i] # "prepared" /\ applied'[t] = applied[t] /\ failed'[t] = failed[t]
       \/ /\ part[t][i] = "prepared"
          /\ applied'[t] = applied[t] \cup {i} /\ failed'[t] = failed[t]
       \/ part[t][i] = "prepared" /\ applied'[t] = applied[t] /\ failed'[t] = TRUE
  BY <1>2 DEF TypeOK, TxnTypes
<1>5. /\ i \in 1..Len(Participants[t]) /\ Indices(t) = 1..Len(Participants[t])
      /\ Len(Participants[t]) \in Nat /\ Indices(t)' = Indices(t)
      /\ applied[t] \subseteq Indices(t)
  <2>1. Indices(t)' = Indices(t)
    BY DEF Indices
  <2> QED BY <2>1, <1>1, Sequence
<1>6. part'[t] \in [Indices(t) -> PartStatuses]
  <2>1. part'[t] = part[t] \/ part'[t] = [part[t] EXCEPT ![i] = "committed"]
    BY <1>2 DEF TypeOK, TxnTypes
  <2>2. part[t] \in [Indices(t) -> PartStatuses] /\ "committed" \in PartStatuses
    BY Sequence DEF PartStatuses
  <2> QED BY <2>1, <2>2
<1> HIDE DEF i
<1>7. AtTypes(t)'
  BY <1>4, <1>4a, <1>5, <1>6 DEF AtTypes
<1>8. /\ \A j \in Indices(t) : j >= i => AfterPrepare(t, j)
      /\ \A j \in applied[t] : HasHandler(t, j)
      /\ ~failed[t] =>
           \A j \in Indices(t) : j < i /\ HasHandler(t, j) => j \in applied[t]
      /\ status[t] # "committed"
  BY <1>1 DEF ProgressInv, Progress, Committing, AllApplied, i
<1>9. part[t][i] = "prepared" <=> HasHandler(t, i)
  <2>1. i \in Indices(t) /\ i >= i
    BY Zenon, <1>5, NextPlace
  <2>2. AfterPrepare(t, i)
    BY Zenon, <1>8, <2>1
  <2> QED BY Zenon, <2>2 DEF AfterPrepare
<1>10. \A j \in Indices(t) : j >= i + 1 => AfterPrepare(t, j)'
  <2> TAKE j \in Indices(t)
  <2> HAVE j >= i + 1
  <2>1. j # i /\ j >= i
    BY Zenon, <1>5, NextPlace
  <2> QED BY <2>1, <1>4, <1>8 DEF AfterPrepare, HasHandler
<1>11. \A j \in applied'[t] : HasHandler(t, j)'
  BY <1>4a, <1>8, <1>9 DEF HasHandler
<1>12. ~failed'[t] =>
         \A j \in Indices(t) : j < i + 1 /\ HasHandler(t, j) => j \in applied'[t]
  <2> SUFFICES ASSUME ~failed'[t], NEW j \in Indices(t), j < i + 1, HasHandler(t, j)
               PROVE  j \in applied'[t]
    OBVIOUS
  <2>1. j = i \/ j < i
    BY Zenon, <1>5, NextPlace
  <2>2. /\ failed'[t] = failed[t] /\ applied[t] \subseteq applied'[t]
        /\ part[t][i] = "prepared" => i \in applied'[t]
    BY <1>4a
  <2> QED BY <2>1, <2>2, <1>8, <1>9
<1>13. Committing(t)'
  BY <1>4, <1>5, <1>10, <1>11, <1>12 DEF Committing, HasHandler
<1>14. Progress(t)'
  BY <1>4, <1>8, <1>13 DEF Progress, Preparing, AllPrepared, NotApplied, AllApplied
<1> QED BY <1>3, <1>7, <1>14, OneTxn DEF TypeOK

LEMMA CommittedTxn ==
  ASSUME TypeOK, ProgressInv, NEW t \in Txns, Committed(t)
  PROVE  TxnTypes' /\ ProgressInv'
<1>1. /\ pc[t] = "committing" /\ at[t] \notin Indices(t)
      /\ part'[t] = part[t] /\ applied'[t] = applied[t]
  BY DEF Committed
<1>2. CASE failed[t]
  <2>1. /\ pc' = [pc EXCEPT ![t] = "abort"]
        /\ status' = [status EXCEPT ![t] = "aborted"]
    BY <1>2 DEF Committed
  <2>2. Progress(t)'
    BY <2>1, <1>1, OutsideLoops DEF TypeOK, TxnTypes
  <2> QED BY Zenon, <2>1, <2>2, PcStep DEF Committed, Places, Statuses
<1>3. CASE ~failed[t]
  <2>1. /\ pc' = [pc EXCEPT ![t] = "done"]
        /\ status' = [status EXCEPT ![t] = "committed"]
    BY <1>3 DEF Committed
  <2>2. \A i \in Indices(t) : i < at[t]
    BY <1>1, Sequence
  <2>3. /\ \A i \in applied[t] : i \in Indices(t) /\ HasHandler(t, i)
        /\ \A i \in Indices(t) : HasHandler(t, i) => i \in applied[t]
    BY <2>2, <1>1, <1>3, Sequence DEF ProgressInv, Progress, Committing
  <2>4. applied'[t] = {i \in Indices(t) : HasHandler(t, i)}
    BY <2>3, <1>1
  <2>5. pc'[t] = "done"
    BY <2>1 DEF TypeOK, TxnTypes
  <2>6. Progress(t)'
    BY <2>4, <2>5 DEF Progress, Preparing, AllPrepared, Committing, NotApplied,
                      AllApplied, Indices, HasHandler
  <2> QED BY Zenon, <2>1, <2>6, PcStep DEF Committed, Places, Statuses
<1> QED BY <1>2, <1>3

LEMMA AbortTxn ==
  ASSUME TypeOK, ProgressInv, NEW t \in Txns, AbortTransaction(t)
  PROVE  TxnTypes' /\ ProgressInv'
<1>1. /\ pc[t] = "toAbort" /\ pc'[t] = "done" /\ status'[t] = "aborted"
      /\ at'[t] = at[t] /\ applied'[t] = applied[t]
      /\ part'[t] = [i \in Indices(t) |->
           IF part[t][i] # "pending" /\ HasHandler(t, i) THEN "aborted" ELSE part[t][i]]
  BY DEF AbortTransaction, TypeOK, TxnTypes
<1>2. Shapes' /\ OthersSame(t)
  BY Zenon DEF AbortTransaction, Shapes, OthersSame, TypeOK, TxnTypes, Places, Statuses
<1>3. part'[t] \in [Indices(t) -> PartStatuses]
  BY <1>1, Sequence DEF PartStatuses
<1>4. AtTypes(t)'
  BY <1>1, <1>3, Sequence DEF AtTypes, Indices
<1>5. Progress(t)'
  BY <1>1, OutsideLoops
<1> QED BY <1>2, <1>4, <1>5, OneTxn DEF TypeOK

-----------------------------------------------------------------------------
LEMMA SameTxns ==
  ASSUME TxnTypes, ProgressInv, overran' \in BOOLEAN,
         UNCHANGED <<status, part, pc, at, failed, applied>>
  PROVE  TxnTypes' /\ ProgressInv'
<1>1. ASSUME NEW t \in Txns PROVE AtTypes(t)' /\ Progress(t)'
  <2>1. AtTypes(t)'
    BY DEF TxnTypes, AtTypes, Indices
  <2> QED BY <2>1, SameProgress DEF ProgressInv
<1> QED BY <1>1 DEF TxnTypes, ProgressInv

LEMMA InitInv == Init => Inv
<1> SUFFICES ASSUME Init PROVE Inv
  OBVIOUS
<1>1. LockTypes
  BY DEF Init, LockTypes, NoLocks, NoEntry
<1>2. CleanTypes
  BY DEF Init, CleanTypes, NoScan
<1>3. \A t \in Txns : /\ pc[t] = "begin" /\ status[t] = "none" /\ at[t] = 1
                      /\ applied[t] = {} /\ held[t] = {}
  BY DEF Init
<1>4. \A t \in Txns : AtTypes(t)
  <2> TAKE t \in Txns
  <2>1. at[t] = 1 /\ applied[t] = {}
    BY <1>3
  <2>2. at[t] \in 1..(Len(Participants[t]) + 1)
    BY <2>1, TxnsAssumption
  <2>3. part[t] = [i \in Indices(t) |-> "pending"]
    BY Zenon DEF Init
  <2>4. part[t] \in [Indices(t) -> PartStatuses]
    BY Zenon, <2>3 DEF PartStatuses
  <2> QED BY <2>1, <2>2, <2>4, Zenon DEF AtTypes
<1>5. Shapes
  BY Zenon DEF Init, Shapes, Places, Statuses
<1>6. ProgressInv
  BY <1>3 DEF ProgressInv, Progress, Preparing, AllPrepared, Committing, NotApplied,
              AllApplied
<1>7. \A k \in Keys : ~Exists(locks, k)
  BY DEF Init, NoLocks, NoEntry, Exists
<1>8. LockInv
  BY <1>3, <1>7 DEF LockInv, HeldInv, EntryInv
<1> QED BY <1>1, <1>2, <1>4, <1>5, <1>6, <1>8 DEF Inv, TypeOK, TxnTypes, Shapes

\* A step of ExecuteTransaction that neither takes nor releases keys.
LEMMA QuietCall ==
  ASSUME Inv, NEW t \in Txns,
         Lookup(t) \/ PrepareTransaction(t) \/ PrepareParticipant(t) \/ Prepared(t)
           \/ CommitTransaction(t) \/ CommitParticipant(t)
           \/ (Committed(t) /\ failed[t])
  PROVE  QuietStep
<1>1. /\ UNCHANGED <<now, locks, owners, ownerTxn, created, held, overran>>
      /\ \E place \in Places \ {"begin", "done"} : pc' = [pc EXCEPT ![t] = place]
  <2>1. pc = [pc EXCEPT ![t] = pc[t]] /\ "abort" \in Places
    BY DEF Places, Inv, TypeOK, TxnTypes
  <2>2. CASE Lookup(t)
    BY <2>2 DEF Lookup, Places
  <2>3. CASE PrepareTransaction(t)
    BY <2>3 DEF PrepareTransaction, Places
  <2>4. CASE PrepareParticipant(t)
    BY <2>1, <2>4 DEF PrepareParticipant, Places
  <2>5. CASE Prepared(t) \/ CommitTransaction(t)
    BY <2>5 DEF Prepared, CommitTransaction, Places
  <2>6. CASE CommitParticipant(t)
    BY <2>1, <2>6 DEF CommitParticipant, Places
  <2>7. CASE Committed(t) /\ failed[t]
    BY <2>7 DEF Committed, Places
  <2> QED BY <2>2, <2>3, <2>4, <2>5, <2>6, <2>7
<1>2. \A s \in Txns : held[s] # {} => pc[s] \notin {"begin", "done"}
  BY DEF Inv, LockInv, HeldInv
<1> QED BY <1>1, <1>2 DEF QuietStep, Inv, TypeOK, TxnTypes

LEMMA CallInv ==
  ASSUME Inv, NEW t \in Txns, ExecuteTransaction(t)
  PROVE  Inv'
<1> USE DEF Inv
<1>1. CleanTypes'
  <2>1. UNCHANGED <<cleaner, scan>>
    BY DEF ExecuteTransaction, BeginTransaction, BeginFails, Lookup,
           PrepareTransaction, PrepareParticipant, Prepared, CommitTransaction,
           CommitParticipant, Committed, AbortTransaction, cleanVars
  <2> QED BY <2>1 DEF TypeOK, CleanTypes
<1>2. TxnTypes' /\ ProgressInv'
  BY BeginTxn, BeginFailsTxn, LookupTxn, PrepareTxn, PrepareParticipantTxn,
     PreparedTxn, CommitTxn, CommitParticipantTxn, CommittedTxn, AbortTxn
  DEF ExecuteTransaction
<1>3. LockTypes' /\ LockInv'
  <2>1. CASE BeginTransaction(t)
    BY <2>1, BeginLocks
  <2>2. CASE BeginFails(t)
    BY <2>2, BeginFailsLocks
  <2>3. CASE (Committed(t) /\ ~failed[t]) \/ AbortTransaction(t)
    <3>1. EndStep(t)
      BY <2>3 DEF EndStep, Committed, AbortTransaction
    <3> QED BY <3>1, EndLocks
  <2>4. CASE Lookup(t) \/ PrepareTransaction(t) \/ PrepareParticipant(t) \/ Prepared(t)
               \/ CommitTransaction(t) \/ CommitParticipant(t)
               \/ (Committed(t) /\ failed[t])
    BY <2>4, QuietCall, QuietLocks DEF TypeOK
  <2> QED BY <2>1, <2>2, <2>3, <2>4 DEF ExecuteTransaction
<1> QED BY <1>1, <1>2, <1>3 DEF TypeOK

LEMMA CleanupInv ==
  ASSUME Inv, Cleanup
  PROVE  Inv'
<1>1. UNCHANGED <<now, locks, owners, ownerTxn, txnVars, overran>>
  BY Zenon DEF Cleanup, CleanupTimeoutTransactions, ScanEnds, ScanTransaction
<1>2. CleanTypes'
  <2>1. CASE CleanupTimeoutTransactions
    BY <2>1 DEF CleanupTimeoutTransactions, CleanTypes, Inv, TypeOK, LockTypes
  <2>2. CASE ScanEnds
    BY <2>2 DEF ScanEnds, NoScan, CleanTypes
  <2>3. ASSUME NEW t \in Txns, ScanTransaction(t) PROVE CleanTypes'
    BY Zenon, <2>3 DEF ScanTransaction, CleanTypes, Inv, TypeOK
  <2> QED BY <2>1, <2>2, <2>3 DEF Cleanup
<1>3. TxnTypes' /\ ProgressInv'
  BY <1>1, SameTxns DEF Inv, TypeOK, TxnTypes, txnVars
<1>4. QuietStep
  BY <1>1 DEF QuietStep, txnVars, Inv, LockInv, HeldInv
<1> QED BY <1>2, <1>3, <1>4, QuietLocks DEF Inv, TypeOK

LEMMA NextInv == Inv /\ [Next]_vars => Inv'
<1> SUFFICES ASSUME Inv, [Next]_vars PROVE Inv'
  OBVIOUS
<1>1. ASSUME NEW t \in Txns, ExecuteTransaction(t) PROVE Inv'
  BY <1>1, CallInv
<1>2. CASE Cleanup
  BY <1>2, CleanupInv
<1>3. CASE Tick
  <2>1. overran' \in BOOLEAN /\ UNCHANGED <<status, part, pc, at, failed, applied>>
    BY <1>3 DEF Tick, txnVars
  <2>2. CleanTypes'
    BY <1>3 DEF Tick, cleanVars, CleanTypes, Inv, TypeOK
  <2> QED BY <1>3, <2>1, <2>2, SameTxns, TickLocks DEF Inv, TypeOK
<1>4. CASE CleanupExpiredLocks
  <2>1. UNCHANGED <<status, part, pc, at, failed, applied, overran, cleaner, scan>>
    BY <1>4 DEF CleanupExpiredLocks, txnVars, cleanVars
  <2>2. overran' \in BOOLEAN /\ CleanTypes'
    BY <2>1 DEF Inv, TypeOK, TxnTypes, CleanTypes
  <2> QED BY <1>4, <2>1, <2>2, SameTxns, CleanupLocks DEF Inv, TypeOK
<1>5. CASE UNCHANGED vars
  <2>1. /\ UNCHANGED <<now, locks, owners, ownerTxn, created, held, overran>>
        /\ UNCHANGED <<status, part, pc, at, failed, applied, cleaner, scan>>
    BY <1>5 DEF vars, txnVars, cleanVars
  <2>2. QuietStep
    BY <2>1 DEF QuietStep, Inv, LockInv, HeldInv
  <2>3. overran' \in BOOLEAN /\ CleanTypes'
    BY <2>1 DEF Inv, TypeOK, TxnTypes, CleanTypes
  <2> QED BY <2>1, <2>2, <2>3, SameTxns, QuietLocks DEF Inv, TypeOK
<1> QED BY <1>1, <1>2, <1>3, <1>4, <1>5 DEF Next

LEMMA InvAlways == Spec => []Inv
BY InitInv, NextInv, PTL DEF Spec

\* Every variable of the coordinator, its callers and its cleanup keeps its type.
THEOREM TypeCorrect == Spec => []TypeOK
<1>1. Inv => TypeOK
  BY DEF Inv
<1> QED BY <1>1, InvAlways, PTL

\* A transaction that CommitTransaction reports as committed had the Commit of
\* every participant with a handler succeed, for any sequences of participants.
THEOREM CommitsAreApplied == Spec => []CommittedIsApplied
<1>1. Inv => CommittedIsApplied
  BY DEF Inv, ProgressInv, Progress, AllApplied, CommittedIsApplied
<1> QED BY <1>1, InvAlways, PTL

\* A transaction has its keys exactly as long as it runs, on every path through
\* ExecuteTransaction, for any number of transactions, keys and any timeout.
THEOREM KeysHeldWhileRunning == Spec => []KeysWhileRunning
<1>1. Inv => KeysWhileRunning
  <2> SUFFICES ASSUME Inv PROVE KeysWhileRunning
    OBVIOUS
  <2>1. ~overran => \A t \in Txns : \A k \in held[t] :
          Exists(locks, k) /\ ownerTxn[locks[k].owner] = t
    BY DEF Inv, LockInv, KeyInv
  <2>2. ASSUME NEW t \in Txns, pc[t] = "done", NEW k \in Keys, Exists(locks, k)
        PROVE  ownerTxn[locks[k].owner] # t
    BY <2>2 DEF Inv, LockInv, EntryInv, HeldInv
  <2> QED BY <2>1, <2>2 DEF KeysWhileRunning
<1> QED BY <1>1, InvAlways, PTL

-----------------------------------------------------------------------------
(***************************************************************************)
(* The sessions of the accounts.                                           *)
(***************************************************************************)
\* A token check goes on with the token it has found in the session.
ValidCall(a) ==
  /\ a.at \in {"idle", "create", "store", "refresh"}
  /\ a.at = "create" => a.email \in Emails /\ a.password \in Passwords
  /\ a.at = "store" => a.uuid \in UserIds
  /\ a.at = "refresh" => a.uuid \in UserIds /\ a.token = a.read

AuthCallInv(c) == ValidCall(authCall[c])

AccountsInv ==
  /\ Len(users) <= MaxUsers /\ users \in Seq([email : Emails, password : Passwords])
  /\ tokens \in Seq(UserIds)
  /\ DOMAIN sessions = UserIds /\ DOMAIN newest = UserIds
  /\ DOMAIN authCall = AuthCalls
  /\ \A c \in AuthCalls : AuthCallInv(c)
  /\ SessionIsNewest

LEMMA ValidCalls ==
  /\ ValidCall(NoCall)
  /\ \A e \in Emails, w \in Passwords :
       ValidCall([at |-> "create", email |-> e, password |-> w])
  /\ \A u \in UserIds : \A t :
       /\ ValidCall([at |-> "store", uuid |-> u, token |-> t])
       /\ ValidCall([at |-> "refresh", uuid |-> u, token |-> t, read |-> t])
BY DEF ValidCall, NoCall

LEMMA AccountsInitInv == AccountsInit => AccountsInv
<1> SUFFICES ASSUME AccountsInit PROVE AccountsInv
  OBVIOUS
<1>1. \A c \in AuthCalls : AuthCallInv(c)
  BY ValidCalls DEF AccountsInit, AuthCallInv
<1>2. SessionIsNewest
  BY DEF AccountsInit, SessionIsNewest
<1>3. Len(users) <= MaxUsers /\ users = <<>> /\ tokens = <<>>
  BY AccountsAssumption DEF AccountsInit
<1> QED BY <1>1, <1>2, <1>3 DEF AccountsInit, AccountsInv

\* What a step that only changes its own call has to show.
LEMMA OwnCall ==
  ASSUME AccountsInv, NEW c \in AuthCalls, NEW rec, Becomes(c, rec), AuthCallInv(c)'
  PROVE  DOMAIN authCall' = AuthCalls /\ \A d \in AuthCalls : AuthCallInv(d)'
<1>1. DOMAIN authCall' = AuthCalls
  BY DEF Becomes, AccountsInv
<1>2. ASSUME NEW d \in AuthCalls, d # c PROVE AuthCallInv(d)'
  BY <1>2 DEF Becomes, AccountsInv, AuthCallInv
<1> QED BY <1>1, <1>2

LEMMA CallIs ==
  ASSUME AccountsInv, NEW c \in AuthCalls, NEW rec, Becomes(c, rec)
  PROVE  authCall'[c] = rec
BY DEF Becomes, AccountsInv

LEMMA CallOver ==
  ASSUME AccountsInv, NEW c \in AuthCalls, Becomes(c, NoCall)
  PROVE  DOMAIN authCall' = AuthCalls /\ \A d \in AuthCalls : AuthCallInv(d)'
BY CallIs, OwnCall, ValidCalls DEF AuthCallInv

\* A step that leaves the tables and the sessions alone.
LEMMA SameSessions ==
  ASSUME AccountsInv, UNCHANGED <<sessions, newest, wroteBack>>,
         DOMAIN authCall' = AuthCalls, \A c \in AuthCalls : AuthCallInv(c)',
         Len(users') <= MaxUsers,
         users' \in Seq([email : Emails, password : Passwords]),
         tokens' \in Seq(UserIds)
  PROVE  AccountsInv'
<1>1. SessionIsNewest'
  BY DEF SessionIsNewest, AccountsInv
<1> QED BY <1>1 DEF AccountsInv

LEMMA OneMoreUser ==
  ASSUME NEW S, NEW s \in Seq(S), NEW e \in S
  PROVE  /\ Append(s, e) \in Seq(S) /\ Len(s) \in Nat
         /\ Len(Append(s, e)) = Len(s) + 1
OBVIOUS

LEMMA AccountsCallsInv ==
  ASSUME AccountsInv, NEW c \in AuthCalls,
         \/ \E e \in Emails, w \in Passwords :
              EmailPasswordRegister(c, e, w) \/ EmailPasswordLogin(c, e, w)
         \/ CreateUser(c) \/ QueryFails(c)
         \/ \E t \in DOMAIN tokens : AuthCheck(c, t)
  PROVE  AccountsInv'
<1>1. /\ Len(users) <= MaxUsers
      /\ users \in Seq([email : Emails, password : Passwords])
      /\ tokens \in Seq(UserIds)
  BY DEF AccountsInv
<1>2. ASSUME NEW e \in Emails, NEW w \in Passwords, EmailPasswordRegister(c, e, w)
      PROVE  AccountsInv'
  <2>1. AuthCallInv(c)'
    <3>1. authCall'[c] = [at |-> "create", email |-> e, password |-> w]
      BY <1>2, CallIs DEF EmailPasswordRegister, Registering
    <3> QED BY Zenon, <3>1, ValidCalls DEF AuthCallInv
  <2> QED BY <1>1, <1>2, <2>1, OwnCall, SameSessions
          DEF EmailPasswordRegister, Registering
<1>3. ASSUME NEW e \in Emails, NEW w \in Passwords, EmailPasswordLogin(c, e, w)
      PROVE  AccountsInv'
  <2>1. PICK u \in DOMAIN users :
          /\ tokens' = Append(tokens, u)
          /\ Becomes(c, [at |-> "store", uuid |-> u, token |-> Len(tokens) + 1])
    BY <1>3 DEF EmailPasswordLogin
  <2>2. u \in UserIds
    BY <2>1, <1>1, AccountsAssumption DEF UserIds
  <2>3. AuthCallInv(c)'
    <3>1. authCall'[c] = [at |-> "store", uuid |-> u, token |-> Len(tokens) + 1]
      BY <2>1, CallIs
    <3> QED BY Zenon, <3>1, <2>2, ValidCalls DEF AuthCallInv
  <2>4. tokens' \in Seq(UserIds)
    BY <2>1, <2>2, <1>1
  <2> QED BY <1>1, <1>3, <2>1, <2>3, <2>4, OwnCall, SameSessions
          DEF EmailPasswordLogin
<1>4. CASE CreateUser(c)
  <2> DEFINE row == [email |-> authCall[c].email, password |-> authCall[c].password]
  <2>1. /\ users' = Append(users, row) /\ Len(users) < MaxUsers
        /\ Becomes(c, NoCall) /\ authCall[c].at = "create"
    BY <1>4 DEF CreateUser
  <2>2. row \in [email : Emails, password : Passwords]
    BY <2>1 DEF AccountsInv, AuthCallInv, ValidCall
  <2> HIDE DEF row
  <2>3. /\ users' \in Seq([email : Emails, password : Passwords])
        /\ Len(users') <= MaxUsers
    <3>1. Append(users, row) \in Seq([email : Emails, password : Passwords])
      BY <2>2, <1>1, OneMoreUser
    <3>2. Len(Append(users, row)) = Len(users) + 1 /\ Len(users) \in Nat
      BY <2>2, <1>1, OneMoreUser
    <3>3. PICK k \in Nat : k = Len(users)
      BY <3>2
    <3>4. k < MaxUsers /\ MaxUsers \in Nat
      BY <2>1, <3>3, AccountsAssumption
    <3>5. k + 1 <= MaxUsers
      BY <3>4
    <3> QED BY Zenon, <2>1, <3>1, <3>2, <3>3, <3>5
  <2> QED BY <1>1, <1>4, <2>1, <2>3, CallOver, SameSessions DEF CreateUser
<1>5. CASE QueryFails(c)
  BY <1>1, <1>5, CallOver, SameSessions DEF QueryFails
<1>6. ASSUME NEW t \in DOMAIN tokens, AuthCheck(c, t) PROVE AccountsInv'
  <2> DEFINE u == tokens[t]
  <2>1. /\ Becomes(c, [at |-> "refresh", uuid |-> u, token |-> t, read |-> sessions[u]])
        /\ sessions[u] = t
    BY <1>6 DEF AuthCheck, Refreshing
  <2>2. u \in UserIds
    BY <1>1, <1>6
  <2>3. AuthCallInv(c)'
    <3>1. authCall'[c] = [at |-> "refresh", uuid |-> u, token |-> t, read |-> t]
      BY <2>1, CallIs
    <3> QED BY Zenon, <3>1, <2>2, ValidCalls DEF AuthCallInv
  <2> QED BY <1>1, <1>6, <2>1, <2>3, OwnCall, SameSessions DEF AuthCheck, Refreshing
<1> QED BY <1>2, <1>3, <1>4, <1>5, <1>6

LEMMA StoreSessionInv ==
  ASSUME AccountsInv, NEW c \in AuthCalls, StoreSession(c)
  PROVE  AccountsInv'
<1> DEFINE u == authCall[c].uuid
           t == authCall[c].token
<1>1. /\ sessions' = [sessions EXCEPT ![u] = t] /\ newest' = [newest EXCEPT ![u] = t]
      /\ u \in UserIds /\ UNCHANGED <<users, tokens, wroteBack>>
  BY DEF StoreSession, AccountsInv, AuthCallInv, ValidCall
<1>2. SessionIsNewest'
  BY <1>1 DEF AccountsInv, SessionIsNewest
<1>3. DOMAIN authCall' = AuthCalls /\ \A d \in AuthCalls : AuthCallInv(d)'
  BY CallOver DEF StoreSession
<1> QED BY <1>1, <1>2, <1>3 DEF AccountsInv

\* The token written back is the one the check has read: the session changes
\* only if it was changed since.
LEMMA RefreshSessionInv ==
  ASSUME AccountsInv, NEW c \in AuthCalls, RefreshSession(c)
  PROVE  AccountsInv'
<1> DEFINE u == authCall[c].uuid
           t == authCall[c].token
<1>1. /\ sessions' = [sessions EXCEPT ![u] = t]
      /\ u \in UserIds /\ UNCHANGED <<users, tokens, newest>>
      /\ wroteBack' = IF sessions[u] # t THEN wroteBack \cup {u} ELSE wroteBack
  BY DEF RefreshSession, AccountsInv, AuthCallInv, ValidCall
<1>2. SessionIsNewest'
  BY <1>1 DEF AccountsInv, SessionIsNewest
<1>3. DOMAIN authCall' = AuthCalls /\ \A d \in AuthCalls : AuthCallInv(d)'
  BY CallOver DEF RefreshSession
<1> QED BY <1>1, <1>2, <1>3 DEF AccountsInv

LEMMA AccountsNextInv == AccountsInv /\ [AccountsNext]_accountVars => AccountsInv'
<1> SUFFICES ASSUME AccountsInv, [AccountsNext]_accountVars PROVE AccountsInv'
  OBVIOUS
<1>1. ASSUME NEW u \in UserIds, SessionExpires(u) PROVE AccountsInv'
  <2>1. SessionIsNewest'
    BY <1>1 DEF SessionExpires, AccountsInv, SessionIsNewest
  <2>2. \A c \in AuthCalls : AuthCallInv(c)'
    BY <1>1 DEF SessionExpires, AccountsInv, AuthCallInv
  <2> QED BY <1>1, <2>1, <2>2 DEF SessionExpires, AccountsInv
<1>2. CASE UNCHANGED accountVars
  <2>1. \A c \in AuthCalls : AuthCallInv(c)'
    BY <1>2 DEF accountVars, AccountsInv, AuthCallInv
  <2> QED BY <1>2, <2>1, SameSessions DEF accountVars, AccountsInv
<1> QED BY <1>1, <1>2, AccountsCallsInv, StoreSessionInv, RefreshSessionInv
        DEF AccountsNext

\* A user's session is that of the last login, unless a token check overlapped a
\* login or the expiry, for any number of users, calls and tokens.
THEOREM SessionsAreNewest == AccountsSpec => []SessionIsNewest
<1>1. AccountsInv => SessionIsNewest
  BY DEF AccountsInv
<1> QED BY <1>1, AccountsInitInv, AccountsNextInv, PTL DEF AccountsSpec

-----------------------------------------------------------------------------
(***************************************************************************)
(* The gateway and the documentation page.                                 *)
(***************************************************************************)
\* What a limiter holds and has let through adds up to the burst and what time
\* has added, for every key.
LimitInv ==
  /\ DOMAIN admitted = LimiterKeys /\ DOMAIN refills = LimiterKeys
  /\ \A k \in LimiterKeys :
       /\ Tokens(k) \in Nat /\ admitted[k] \in Nat /\ refills[k] \in Nat
       /\ Tokens(k) + admitted[k] = Burst + refills[k]

AnswersInv ==
  \A a \in answers :
    /\ a.path \notin WhiteList /\ a.result = "forwarded" => a.uuid = a.token
    /\ a.result = "panic" => a.token = "short" /\ a.path \notin WhiteList

\* The address of a page has used up a burst.
Exhausted(p) == limitEnabled /\ admitted[<<"ip", PageIp[p]>>] >= Burst

\* A page that has a reason to break.
Excused(p) == Exhausted(p) \/ p \in cut \/ ~(Needed \subseteq build.files /\ build.parses)

PageInv ==
  /\ DOMAIN page = Pages
  /\ \A p \in Pages :
       /\ DOMAIN page[p] = {"at", "got"}
       /\ \A file \in Needed \cap DOMAIN page[p].got :
            page[p].got[file] = "ok" \/ Excused(p)
       /\ page[p].at = "broken" => Excused(p)

Admits ==
  limitEnabled' = limitEnabled /\ \A k \in LimiterKeys : admitted'[k] >= admitted[k]

\* A bucket's tokens w, the requests a it let through and what time added to it.
Balanced(w, a, b, r) ==
  w \in Nat /\ a \in Nat /\ b \in Nat /\ r \in Nat /\ w + a = b + r

LEMMA BucketCounts ==
  ASSUME NEW w, NEW a, NEW b, NEW r, Balanced(w, a, b, r)
  PROVE  /\ a <= b + r /\ a >= a /\ a + 1 >= a
         /\ Balanced(w + 1, a, b, r + 1)
         /\ w > 0 => Balanced(w - 1, a + 1, b, r)
BY DEF Balanced

LEMMA TakeKeeps ==
  ASSUME LimitInv, NEW key, Take(key), UNCHANGED <<refills, limitEnabled>>
  PROVE  LimitInv' /\ Admits
<1>1. /\ Tokens(key) > 0 /\ clients' = Put(clients, key, Tokens(key) - 1)
      /\ admitted' = [admitted EXCEPT ![key] = @ + 1]
  BY DEF Take
<1>2. Tokens(key)' = Tokens(key) - 1 /\ \A k : k # key => Tokens(k)' = Tokens(k)
  BY <1>1 DEF Tokens, Put
<1>3. DOMAIN admitted' = LimiterKeys
  BY <1>1 DEF LimitInv
<1>4. ASSUME NEW k \in LimiterKeys
      PROVE  /\ Tokens(k)' \in Nat /\ admitted'[k] \in Nat /\ refills[k] \in Nat
             /\ Tokens(k)' + admitted'[k] = Burst + refills[k] /\ admitted'[k] >= admitted[k]
  <2>1. /\ Tokens(k) \in Nat /\ admitted[k] \in Nat /\ refills[k] \in Nat
        /\ Tokens(k) + admitted[k] = Burst + refills[k]
    BY Zenon DEF LimitInv
  <2>2. Balanced(Tokens(k), admitted[k], Burst, refills[k])
    BY Zenon, <2>1, LimiterAssumption DEF Balanced
  <2>3. CASE k = key
    <3>1. admitted'[k] = admitted[k] + 1 /\ Tokens(k)' = Tokens(k) - 1 /\ Tokens(k) > 0
      BY <1>1, <1>2, <2>3 DEF LimitInv
    <3>2. /\ Balanced(Tokens(k) - 1, admitted[k] + 1, Burst, refills[k])
          /\ admitted[k] + 1 >= admitted[k]
      BY Zenon, <2>2, <3>1, BucketCounts
    <3> QED BY Zenon, <3>1, <3>2 DEF Balanced
  <2>4. CASE k # key
    <3>1. admitted'[k] = admitted[k] /\ Tokens(k)' = Tokens(k)
      BY <1>1, <1>2, <2>4 DEF LimitInv
    <3> QED BY Zenon, <2>1, <2>2, <3>1, BucketCounts
  <2> QED BY <2>3, <2>4
<1> QED BY Zenon, <1>3, <1>4 DEF LimitInv, Admits

LEMMA SameLimits ==
  ASSUME LimitInv, UNCHANGED <<clients, admitted, refills, limitEnabled>>
  PROVE  LimitInv' /\ Admits
<1>1. \A k : Tokens(k)' = Tokens(k)
  BY Zenon DEF Tokens
<1>2. \A k \in LimiterKeys : admitted[k] >= admitted[k]
  BY Zenon, BucketCounts, LimiterAssumption DEF LimitInv, Balanced
<1> QED BY Zenon, <1>1, <1>2 DEF LimitInv, Admits

LEMMA RefillKeeps ==
  ASSUME LimitInv, NEW key \in LimiterKeys, Refill(key)
  PROVE  LimitInv' /\ Admits
<1>1. /\ key \in DOMAIN clients /\ clients' = [clients EXCEPT ![key] = @ + 1]
      /\ refills' = [refills EXCEPT ![key] = @ + 1]
      /\ UNCHANGED <<admitted, limitEnabled>>
  BY DEF Refill
<1>2. Tokens(key)' = Tokens(key) + 1 /\ \A k : k # key => Tokens(k)' = Tokens(k)
  BY <1>1 DEF Tokens
<1>3. DOMAIN refills' = LimiterKeys
  BY <1>1 DEF LimitInv
<1>4. ASSUME NEW k \in LimiterKeys
      PROVE  /\ Tokens(k)' \in Nat /\ admitted[k] \in Nat /\ refills'[k] \in Nat
             /\ Tokens(k)' + admitted[k] = Burst + refills'[k] /\ admitted[k] >= admitted[k]
  <2>1. /\ Tokens(k) \in Nat /\ admitted[k] \in Nat /\ refills[k] \in Nat
        /\ Tokens(k) + admitted[k] = Burst + refills[k]
    BY Zenon DEF LimitInv
  <2>2. Balanced(Tokens(k), admitted[k], Burst, refills[k])
    BY Zenon, <2>1, LimiterAssumption DEF Balanced
  <2>3. CASE k = key
    <3>1. refills'[k] = refills[k] + 1 /\ Tokens(k)' = Tokens(k) + 1
      BY <1>1, <1>2, <2>3 DEF LimitInv
    <3>2. /\ Balanced(Tokens(k) + 1, admitted[k], Burst, refills[k] + 1)
          /\ admitted[k] >= admitted[k]
      BY Zenon, <2>2, BucketCounts
    <3> QED BY Zenon, <3>1, <3>2 DEF Balanced
  <2>4. CASE k # key
    <3>1. refills'[k] = refills[k] /\ Tokens(k)' = Tokens(k)
      BY <1>1, <1>2, <2>4 DEF LimitInv
    <3> QED BY Zenon, <2>1, <2>2, <3>1, BucketCounts
  <2> QED BY Zenon, <2>3, <2>4
<1> QED BY Zenon, <1>1, <1>3, <1>4 DEF LimitInv, Admits

\* One answer more, or none.
LEMMA AnswerKeeps ==
  ASSUME AnswersInv, NEW req, NEW result, NEW uuid,
         answers' = answers \/ Answer(req, result, uuid),
         req.path \notin WhiteList /\ result = "forwarded" => uuid = req.token,
         result = "panic" => req.token = "short" /\ req.path \notin WhiteList
  PROVE  AnswersInv'
<1>1. PICK a : a = [path |-> req.path, token |-> req.token, result |-> result, uuid |-> uuid]
  OBVIOUS
<1>2. a.path = req.path /\ a.token = req.token /\ a.result = result /\ a.uuid = uuid
  BY <1>1
<1>3. \A b \in answers' : b \in answers \/ b = a
  BY <1>1 DEF Answer
<1> QED BY Zenon, <1>2, <1>3 DEF AnswersInv

LEMMA ArriveKeeps ==
  ASSUME LimitInv, AnswersInv, NEW q, NEW req, Arrive(q, req)
  PROVE  LimitInv' /\ Admits /\ AnswersInv'
<1>1. UNCHANGED <<limitEnabled, refills>>
  BY DEF Arrive
<1>2. LimitInv' /\ Admits
  <2>1. Take(<<"ip", req.ip>>) \/ UNCHANGED <<clients, admitted>>
    BY Zenon DEF Arrive, Refused
  <2> QED BY <1>1, <2>1, TakeKeeps, SameLimits
<1>3. AnswersInv'
  <2>1. \/ answers' = answers
        \/ \E r \in {"204", "429", "401"} : Answer(req, r, req.uuid)
        \/ req.path \in WhiteList /\ Answer(req, "forwarded", req.uuid)
        \/ /\ req.path \notin WhiteList /\ req.token = "short"
           /\ Answer(req, "panic", req.uuid)
    BY Zenon DEF Arrive, AfterLimit, Ends
  <2>2. ASSUME NEW r \in {"204", "429", "401"}, Answer(req, r, req.uuid) PROVE AnswersInv'
    BY <2>2, AnswerKeeps
  <2>3. CASE req.path \in WhiteList /\ Answer(req, "forwarded", req.uuid)
    BY <2>3, AnswerKeeps
  <2>4. CASE /\ req.path \notin WhiteList /\ req.token = "short"
             /\ Answer(req, "panic", req.uuid)
    BY <2>4, AnswerKeeps
  <2>5. CASE answers' = answers
    BY Zenon, <2>5 DEF AnswersInv
  <2> QED BY Zenon, <2>1, <2>2, <2>3, <2>4, <2>5
<1> QED BY <1>2, <1>3

LEMMA ForwardKeeps ==
  ASSUME LimitInv, AnswersInv, NEW q, InjectAndForward(q)
  PROVE  LimitInv' /\ Admits /\ AnswersInv'
<1>1. PICK req : req = slot[q].req
  OBVIOUS
<1>2. /\ Take(<<"uuid", req.token>>) \/ UNCHANGED <<clients, admitted>>
      /\ Answer(req, "429", req.uuid) \/ Answer(req, "forwarded", req.token)
      /\ UNCHANGED <<limitEnabled, refills>>
  BY Zenon, <1>1 DEF InjectAndForward, Forward, Refused
<1>3. LimitInv' /\ Admits
  BY <1>2, TakeKeeps, SameLimits
<1>4. AnswersInv'
  BY <1>2, AnswerKeeps
<1> QED BY <1>3, <1>4

LEMMA GatewayKeeps ==
  ASSUME LimitInv, AnswersInv, GatewayNext
  PROVE  LimitInv' /\ Admits /\ AnswersInv'
<1>1. ASSUME NEW q, NEW req, Request(q, req) PROVE LimitInv' /\ Admits /\ AnswersInv'
  BY Zenon, <1>1, ArriveKeeps DEF Request
<1>2. ASSUME NEW k \in LimiterKeys, Refill(k) PROVE LimitInv' /\ Admits /\ AnswersInv'
  <2>1. answers' = answers
    BY <1>2 DEF Refill
  <2> QED BY Zenon, <1>2, <2>1, RefillKeeps DEF AnswersInv
<1> QED BY Zenon, <1>1, <1>2, ForwardKeeps DEF GatewayNext

LEMMA PageKeys == \A p \in Pages : <<"ip", PageIp[p]>> \in LimiterKeys
BY PagesAssumption DEF LimiterKeys

LEMMA StaysExhausted ==
  ASSUME LimitInv, LimitInv', Admits, NEW p \in Pages, Exhausted(p)
  PROVE  Exhausted(p)'
<1>1. PICK k \in LimiterKeys : k = <<"ip", PageIp[p]>>
  BY Zenon, PageKeys
<1>2. admitted[k] \in Nat /\ admitted'[k] \in Nat /\ admitted'[k] >= admitted[k]
  BY DEF LimitInv, Admits
<1>3. admitted[k] >= Burst /\ limitEnabled
  BY Zenon, <1>1 DEF Exhausted
<1>4. admitted'[k] >= Burst
  BY <1>2, <1>3, LimiterAssumption
<1> QED BY Zenon, <1>1, <1>3, <1>4 DEF Exhausted, Admits

LEMMA StaysExcused ==
  ASSUME LimitInv, LimitInv', Admits, build' = build, cut \subseteq cut',
         NEW p \in Pages, Excused(p)
  PROVE  Excused(p)'
BY Zenon, StaysExhausted DEF Excused

\* A page that moves on, with files as they were.
LEMMA PageMoves ==
  ASSUME LimitInv, LimitInv', Admits, PageInv, UNCHANGED <<build, cut>>,
         \/ page' = page
         \/ \E p \in Pages, to \in {"ui", "shown", "broken"} :
              page' = [page EXCEPT ![p].at = to] /\ (to = "broken" => Excused(p))
  PROVE  PageInv'
<1>1. DOMAIN page' = Pages /\ \A r \in Pages : page'[r].got = page[r].got
  BY DEF PageInv
<1>2. \A r \in Pages : DOMAIN page'[r] = {"at", "got"}
  BY DEF PageInv
<1>3. \A r \in Pages : page'[r].at = "broken" => Excused(r)
  BY DEF PageInv
<1>4. \A r \in Pages : Excused(r) => Excused(r)'
  BY Zenon, StaysExcused
<1> QED BY Zenon, <1>1, <1>2, <1>3, <1>4 DEF PageInv

\* The routes give a page every file it needs, if the build has it.
LEMMA NeededServed ==
  ASSUME NEW file \in Needed, Needed \subseteq build.files, build.parses
  PROVE  addSwagger(file) = "ok"
<1>1. file \in build.files
  OBVIOUS
<1>2. FileType(file) \in {"HTML", "JS", "JSON"}
  BY DEF Needed, FileType
<1> QED BY <1>1, <1>2 DEF addSwagger

\* A file the page needs fails to come only by a limiter that has no token left,
\* by an upstream that is away, or by the build.
LEMMA FetchKeeps ==
  ASSUME LimitInv, AnswersInv, PageInv, NEW p \in Pages, NEW file, NEW q,
         Fetch(p, file, q)
  PROVE  LimitInv' /\ AnswersInv' /\ PageInv'
<1>1. LimitInv' /\ Admits /\ AnswersInv'
  BY Zenon, ArriveKeeps DEF Fetch
<1>2. PICK res : /\ Comes(p, file, res)
                 /\ \/ limitEnabled /\ Tokens(<<"ip", PageIp[p]>>) = 0
                    \/ res = addSwagger(file)
                    \/ p \in cut'
  <2>1. cut' = cut \cup {p} => p \in cut'
    OBVIOUS
  <2> QED BY Zenon, <2>1 DEF Fetch
<1>3. build' = build /\ cut \subseteq cut'
  BY DEF Fetch
<1>4. \A r \in Pages : Excused(r) => Excused(r)'
  BY Zenon, <1>1, <1>3, StaysExcused
<1>5. file \in Needed => res = "ok" \/ Excused(p)'
  <2>1. CASE limitEnabled /\ Tokens(<<"ip", PageIp[p]>>) = 0
    <3>1. PICK k \in LimiterKeys : k = <<"ip", PageIp[p]>>
      BY Zenon, PageKeys
    <3>2. /\ Tokens(k) \in Nat /\ admitted[k] \in Nat /\ refills[k] \in Nat
          /\ Tokens(k) + admitted[k] = Burst + refills[k]
      BY DEF LimitInv
    <3>3. Tokens(k) = 0 => admitted[k] >= Burst
      BY <3>2, LimiterAssumption
    <3> QED BY Zenon, <1>4, <2>1, <3>1, <3>3 DEF Excused, Exhausted
  <2>2. CASE res = addSwagger(file)
    <3>1. CASE Needed \subseteq build.files /\ build.parses
      BY Zenon, <2>2, <3>1, NeededServed
    <3>2. CASE ~(Needed \subseteq build.files /\ build.parses)
      BY Zenon, <1>4, <3>2 DEF Excused
    <3> QED BY Zenon, <3>1, <3>2
  <2>3. CASE p \in cut'
    BY Zenon, <2>3 DEF Excused
  <2> QED BY Zenon, <1>2, <2>1, <2>2, <2>3
<1>6. /\ DOMAIN page' = Pages /\ \A r \in Pages : r # p => page'[r] = page[r]
      /\ DOMAIN page'[p] = {"at", "got"} /\ page'[p].at = page[p].at
      /\ page'[p].got = Put(page[p].got, file, res)
  BY <1>2 DEF PageInv, Comes
<1>7. /\ DOMAIN page'[p].got = DOMAIN page[p].got \cup {file}
      /\ page'[p].got[file] = res
      /\ \A f \in DOMAIN page[p].got : f # file => page'[p].got[f] = page[p].got[f]
  BY <1>6 DEF Put
<1>8. \A f \in Needed \cap DOMAIN page'[p].got : page'[p].got[f] = "ok" \/ Excused(p)'
  <2> SUFFICES ASSUME NEW f \in Needed, f \in DOMAIN page'[p].got
               PROVE  page'[p].got[f] = "ok" \/ Excused(p)'
    BY Zenon
  <2>1. CASE f = file
    BY Zenon, <1>5, <1>7, <2>1
  <2>2. CASE f # file
    <3>1. f \in DOMAIN page[p].got /\ page'[p].got[f] = page[p].got[f]
      BY <1>7, <2>2
    <3>2. page[p].got[f] = "ok" \/ Excused(p)
      BY <3>1 DEF PageInv
    <3> QED BY Zenon, <1>4, <3>1, <3>2
  <2> QED BY Zenon, <2>1, <2>2
<1>9. ASSUME NEW r \in Pages
      PROVE  /\ DOMAIN page'[r] = {"at", "got"}
             /\ \A f \in Needed \cap DOMAIN page'[r].got :
                  page'[r].got[f] = "ok" \/ Excused(r)'
             /\ page'[r].at = "broken" => Excused(r)'
  BY Zenon, <1>4, <1>6, <1>8 DEF PageInv
<1>10. Needed' = Needed
  BY DEF Needed
<1> QED BY Zenon, <1>1, <1>6, <1>9, <1>10 DEF PageInv

DocsInv == LimitInv /\ AnswersInv /\ PageInv

LEMMA DocsInitInv ==
  ASSUME DocsInit
  PROVE  DocsInv
<1>1. /\ clients = [k \in {l \in LimiterKeys : Spent[l] > 0} |-> Burst - Spent[k]]
      /\ admitted = Spent /\ refills = [k \in LimiterKeys |-> 0] /\ answers = {}
      /\ page = [p \in Pages |-> [at |-> "opening", got |-> <<>>]]
  BY DEF DocsInit, GatewayInit
<1>2. LimitInv
  <2>1. ASSUME NEW k \in LimiterKeys
        PROVE  /\ Tokens(k) \in Nat /\ admitted[k] \in Nat /\ refills[k] \in Nat
               /\ Tokens(k) + admitted[k] = Burst + refills[k]
    <3>1. Spent[k] \in 0..Burst /\ Burst \in Nat
      BY LimiterAssumption
    <3>2. Tokens(k) = Burst - Spent[k]
      BY <1>1, <3>1 DEF Tokens
    <3>3. admitted[k] = Spent[k] /\ refills[k] = 0
      BY <1>1
    <3>4. /\ Burst - Spent[k] \in Nat /\ Spent[k] \in Nat /\ 0 \in Nat
          /\ (Burst - Spent[k]) + Spent[k] = Burst + 0
      BY <3>1
    <3> QED BY Zenon, <3>2, <3>3, <3>4
  <2>2. DOMAIN admitted = LimiterKeys /\ DOMAIN refills = LimiterKeys
    BY <1>1, LimiterAssumption
  <2> QED BY Zenon, <2>1, <2>2 DEF LimitInv
<1>3. AnswersInv
  BY <1>1 DEF AnswersInv
<1>4. PageInv
  <2> DEFINE new == [at |-> "opening", got |-> <<>>]
  <2>1. new.at = "opening" /\ new.got = <<>>
    BY Zenon
  <2>2. DOMAIN new = {"at", "got"}
    BY Zenon
  <2>3. DOMAIN <<>> = {} /\ "opening" # "broken"
    OBVIOUS
  <2>4. page = [p \in Pages |-> new]
    BY Zenon, <1>1
  <2> HIDE DEF new
  <2> QED BY Zenon, <2>1, <2>2, <2>3, <2>4 DEF PageInv
<1> QED BY Zenon, <1>2, <1>3, <1>4 DEF DocsInv

LEMMA DocsNextInv ==
  ASSUME DocsInv, [DocsNext]_<<gatewayVars, docsVars>>
  PROVE  DocsInv'
<1>1. LimitInv /\ AnswersInv /\ PageInv
  BY DEF DocsInv
<1>2. CASE GatewayNext /\ UNCHANGED docsVars
  <2>1. LimitInv' /\ Admits /\ AnswersInv' /\ UNCHANGED <<build, page, cut>>
    BY <1>1, <1>2, GatewayKeeps DEF docsVars
  <2> QED BY <1>1, <2>1, PageMoves DEF DocsInv
<1>3. ASSUME NEW p \in Pages, NEW file, NEW q, Fetch(p, file, q) PROVE DocsInv'
  BY <1>1, <1>3, FetchKeeps DEF DocsInv
<1>4. ASSUME UNCHANGED <<build, cut, gatewayVars>>,
             \/ page' = page
             \/ \E p \in Pages, to \in {"ui", "shown", "broken"} :
                  page' = [page EXCEPT ![p].at = to] /\ (to = "broken" => Excused(p))
      PROVE  DocsInv'
  <2>1. UNCHANGED <<clients, admitted, refills, limitEnabled, answers>>
    BY <1>4 DEF gatewayVars
  <2>2. LimitInv' /\ Admits /\ AnswersInv'
    BY Zenon, <1>1, <2>1, SameLimits DEF AnswersInv
  <2> QED BY Zenon, <1>1, <1>4, <2>2, PageMoves DEF DocsInv
<1>5. ASSUME NEW p \in Pages, NEW file \in Needed, Asked(p, file), ~Got(p, file)
      PROVE  Excused(p)
  BY Zenon, <1>1, <1>5 DEF Asked, Got, PageInv
<1>6. ASSUME NEW p \in Pages, NEW to \in {"ui", "shown", "broken"}, GoTo(p, to),
             to = "broken" => Excused(p)
      PROVE  DocsInv'
  BY Zenon, <1>4, <1>6 DEF GoTo
<1>7. ASSUME NEW p \in Pages, Onload(p) PROVE DocsInv'
  <2>1. Asked(p, Linked[5]) /\ Asked(p, Linked[6]) /\ Asked(p, Linked[7])
    <3>1. {5, 6, 7} \subseteq DOMAIN Linked
      BY DEF Linked
    <3> QED BY Zenon, <1>7, <3>1 DEF Onload
  <2>2. Linked[5] = "bundle.js" /\ Linked[6] = "preset.js" /\ Linked[7] = "initializer.js"
    BY DEF Linked
  <2>3. GoTo(p, "ui") \/ (GoTo(p, "broken") /\ Excused(p))
    <3>1. {"bundle.js", "preset.js", "initializer.js"} \subseteq Needed
      BY DEF Needed
    <3> QED BY Zenon, <1>5, <1>7, <2>1, <2>2, <3>1 DEF Onload, RunInitializer
  <2> QED BY <1>6, <2>3
<1>8. ASSUME NEW p \in Pages, NoIndex(p) PROVE DocsInv'
  <2>1. "index.html" \in Needed
    BY DEF Needed
  <2>2. GoTo(p, "broken") /\ Excused(p)
    BY Zenon, <1>5, <1>8, <2>1 DEF NoIndex
  <2> QED BY <1>6, <2>2
<1>9. ASSUME NEW p \in Pages, ShowDocs(p) PROVE DocsInv'
  <2>1. CASE Got(p, "openapi.json")
    <3>1. GoTo(p, "shown")
      BY Zenon, <1>9, <2>1 DEF ShowDocs
    <3> QED BY <1>6, <3>1
  <2>2. CASE ~Got(p, "openapi.json")
    <3>1. "openapi.json" \in Needed
      BY DEF Needed
    <3>2. GoTo(p, "broken") /\ Excused(p)
      BY Zenon, <1>5, <1>9, <2>2, <3>1 DEF ShowDocs
    <3> QED BY <1>6, <3>2
  <2> QED BY <2>1, <2>2
<1>10. CASE UNCHANGED <<gatewayVars, docsVars>>
  BY Zenon, <1>4, <1>10 DEF docsVars
<1> QED BY Zenon, <1>2, <1>3, <1>7, <1>8, <1>9, <1>10
       DEF DocsNext, OpenPage, FetchLinked, FetchSpec

LEMMA DocsInductive == DocsSpec => []DocsInv
BY DocsInitInv, DocsNextInv, PTL DEF DocsSpec

\* The gateway forwards a request that needs a token only under the token's own
\* user, panics only on a short token, and lets no more requests of an address or
\* a user through than a burst and what time has added, for any number of
\* addresses, users and requests at a time.
THEOREM GatewayServesRight == DocsSpec => []RequestsServedRight
<1>1. ASSUME LimitInv, NEW k \in LimiterKeys PROVE admitted[k] <= Burst + refills[k]
  <2>1. Balanced(Tokens(k), admitted[k], Burst, refills[k])
    BY Zenon, <1>1, LimiterAssumption DEF LimitInv, Balanced
  <2> QED BY Zenon, <2>1, BucketCounts
<1>2. DocsInv => RequestsServedRight
  BY Zenon, <1>1 DEF DocsInv, AnswersInv, RequestsServedRight
<1> QED BY <1>2, DocsInductive, PTL

\* The documentation page breaks only after its address has used up a whole
\* burst of the gateway's limiter, by an upstream that was away for one of its
\* requests, or by a build that lacks a file it needs or has an openapi.json that
\* does not parse, whatever other requests and pages come between its requests.
THEOREM PageBreaksWithCause == DocsSpec => []BrokenHasCause
<1>1. DocsInv => BrokenHasCause
  BY Zenon DEF DocsInv, PageInv, Excused, Exhausted, BrokenHasCause
<1> QED BY <1>1, DocsInductive, PTL

=============================================================================
