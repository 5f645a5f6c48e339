---------------------------- MODULE LedgerProofs ----------------------------
(***************************************************************************)
(* Proofs about Ledger, for every set of accounts, keys, amounts and       *)
(* requests.  IInv is the inductive invariant; its parts say what a        *)
(* request in the middle of its transaction knows about the tables.        *)
(***************************************************************************)
EXTENDS Ledger, FiniteSetTheorems, TLAPS

(***************************************************************************)
(* Which statements an operation passes through, and with which inputs.    *)
(***************************************************************************)
Control ==
  \A r \in Requests : pc[r] # "idle" =>
    /\ req[r].op \in MoneyOps => req[r].key \in Keys
    /\ req[r].op \notin MoneyOps => req[r].key = WelcomeKey(req[r].src)
    /\ Running(r) => req[r].amt > 0
    /\ pc[r] \in {"dest", "lock1", "lock2"} => req[r].op = "transfer"
    /\ pc[r] \in {"session", "status"} => req[r].op \notin MoneyOps
    /\ pc[r] \in {"consent", "holder", "grant"} => req[r].op \in OpenOps
    /\ pc[r] = "status" => req[r].op = "start"
    /\ pc[r] \in {"key", "insert", "update"} => req[r].op # "start"
    /\ req[r].op = "transfer" /\ pc[r] \notin {"dest", "failed"} => req[r].src # req[r].dst

PostingControl ==
  \A r \in Requests :
    /\ posting[r] => pc[r] \in {"update", "commit"} /\ req[r].op # "start"
    /\ pc[r] = "update" => posting[r]
    /\ rows[r] # {} => pc[r] # "idle" /\ req[r].op \in OpenOps

(***************************************************************************)
(* A key is in the journal, or in one uncommitted transaction, or free.    *)
(***************************************************************************)
KeyInv ==
  /\ OneEntryPerKey
  /\ \A r \in Requests : posting[r] =>
       /\ ~KeyUsed(req[r].key)
       /\ \A s \in Requests : posting[s] /\ req[s].key = req[r].key => s = r

(***************************************************************************)
(* Welcome keys name the grants, and only them.                            *)
(***************************************************************************)
GrantKeys ==
  \A e \in journal :
    /\ e.type = "welcome_grant" => e.key = WelcomeKey(e.credit)
    /\ \A a \in Accounts : e.key = WelcomeKey(a) => e.type = "welcome_grant" /\ e.credit = a

(***************************************************************************)
(* Whoever has read a ready account has read a granted one, and opening an *)
(* account ends with the grant committed or about to be.                   *)
(***************************************************************************)
GrantInv ==
  /\ ReadyIsGranted
  /\ \A r \in Requests : Running(r) =>
       /\ req[r].op \in MoneyOps => Granted(req[r].src)
       /\ req[r].op = "transfer" /\ pc[r] # "dest" => Granted(req[r].dst)
       /\ req[r].op \in OpenOps /\ pc[r] = "commit" => posting[r] \/ Granted(req[r].src)

(***************************************************************************)
(* Before its grant an account is empty, and so is every view of it.       *)
(***************************************************************************)
FreshInv ==
  \A a \in Accounts : ~Granted(a) =>
    /\ balance[a] = 0
    /\ \A r \in Requests : Running(r) /\ req[r].op \in OpenOps /\ req[r].src = a => view[r][a] = 0

FundsInv ==
  /\ CachedNonNegative
  /\ \A r \in Requests : \A a \in Accounts : view[r][a] >= 0
  /\ \A r \in Requests : pc[r] \in {"insert", "update"} \/ posting[r] => SufficientFunds(r)

(***************************************************************************)
(* A request about to commit holds the locks of the rows it writes.        *)
(***************************************************************************)
LockInv ==
  \A r \in Requests :
    /\ pc[r] = "commit" /\ posting[r] => \A a \in Lines(r) : lock[r][a] >= NoKeyUpdate
    /\ pc[r] = "commit" /\ WritesStatus(r) => lock[r][req[r].src] >= NoKeyUpdate
    /\ pc[r] \in {"key", "insert", "update", "commit"} /\ req[r].op \in OpenOps
         => lock[r][req[r].src] >= NoKeyUpdate

(***************************************************************************)
(* Locks of different transactions on one row never conflict.              *)
(***************************************************************************)
LocksCompatible ==
  \A r, s \in Requests : \A a \in Accounts :
    r # s => ~Conflict(lock[r][a], lock[s][a])

(***************************************************************************)
(* Which rows a request has locked where it may still have to wait: a      *)
(* transfer the lesser row, then both; an onboarding at most its own       *)
(* account; a withdrawal none.                                             *)
(***************************************************************************)
Held(r) ==
  /\ \/ pc[r] \in {"idle", "dest", "lock1", "session", "done", "failed"}
     \/ pc[r] \in {"key", "insert", "update"} /\ req[r].op = "withdraw"
     \/ pc[r] = "consent" /\ req[r].op = "skip"
     => \A a \in Accounts : lock[r][a] = Unlocked
  /\ pc[r] \in {"consent", "holder", "grant", "status"} =>
       \A a \in Accounts : lock[r][a] # Unlocked => a = req[r].src
  /\ pc[r] = "lock2" =>
       \A a \in Accounts :
         lock[r][a] = IF a = Lesser(req[r].src, req[r].dst) THEN ForUpdate ELSE Unlocked
  /\ pc[r] \in {"key", "insert", "update"} /\ req[r].op = "transfer" =>
       lock[r][req[r].src] = ForUpdate /\ lock[r][req[r].dst] = ForUpdate

HeldInv == \A r \in Requests : Held(r)

(***************************************************************************)
(* A transfer or withdrawal commits its own entry or has found its key.    *)
(***************************************************************************)
DoneInv ==
  \A r \in Requests : pc[r] \in {"commit", "done"} /\ req[r].op \in MoneyOps =>
    posting[r] \/ KeyUsed(req[r].key)

(***************************************************************************)
(* Every entry is the seed's or that of a committed request, as requested. *)
(***************************************************************************)
EntryInv ==
  \A e \in journal :
    \/ e.by = Seed /\ \E a \in Accounts : e.key = WelcomeKey(a)
    \/ e.by \in Requests /\ pc[e.by] = "done" /\ e = EntryOf(e.by)

(***************************************************************************)
(* Whoever has opened an account, or has seen it open, finds it granted    *)
(* and open, unless an onboarding was restarted on it and committed.       *)
(***************************************************************************)
Restarted(a) == \E s \in Requests : pc[s] = "done" /\ req[s].op = "start" /\ req[s].src = a

OpenedInv ==
  \A r \in Requests :
    /\ pc[r] = "done" /\ req[r].op \in OpenOps => Granted(req[r].src)
    /\ pc[r] # "idle" /\ (seen[r] \in READY_STATUSES \/ (pc[r] = "done" /\ req[r].op \in OpenOps))
         => status[req[r].src] \in READY_STATUSES \/ Restarted(req[r].src)

TypeInv == TypeOK /\ Control /\ PostingControl

IInv ==
  /\ TypeInv
  /\ KeyInv
  /\ GrantKeys
  /\ GrantInv
  /\ FreshInv
  /\ FundsInv
  /\ LockInv
  /\ LocksCompatible
  /\ DoneInv
  /\ InSyncUnlessStale
  /\ EntryInv
  /\ OpenedInv
  /\ HeldInv

-----------------------------------------------------------------------------
(***************************************************************************)
(* Distinct accounts have distinct welcome keys, and none is a client key. *)
(***************************************************************************)
LEMMA WelcomeKeys ==
  /\ \A a, b : WelcomeKey(a) = WelcomeKey(b) => a = b
  /\ \A a \in Accounts : WelcomeKey(a) \in AllKeys /\ WelcomeKey(a) \notin Keys
BY LedgerConstants DEF WelcomeKey, AllKeys

(***************************************************************************)
(* The entry of a request that posts is a journal entry, and its lines are *)
(* the accounts the request names.                                         *)
(***************************************************************************)
LEMMA EntryFacts ==
  ASSUME NEW r \in Requests, req[r] \in Req, req[r].op # "start"
  PROVE  /\ req[r].amt > 0 => EntryOf(r) \in Entry
         /\ EntryOf(r).key = req[r].key
         /\ EntryOf(r).amount = req[r].amt
         /\ EntryOf(r).debit = IF req[r].op \in OpenOps THEN SysCash ELSE req[r].src
         /\ EntryOf(r).credit = IF req[r].op = "transfer" THEN req[r].dst
                                ELSE IF req[r].op = "withdraw" THEN SysCash ELSE req[r].src
         /\ EntryOf(r).type = IF req[r].op \in OpenOps THEN "welcome_grant" ELSE req[r].op
BY LedgerConstants DEF EntryOf, Entry, Req, AllOps, OpenOps, LedgerAccounts

(***************************************************************************)
(* The initial state is well typed, and no request has begun.              *)
(***************************************************************************)
LEMMA InitType == Init => TypeInv
<1> SUFFICES ASSUME Init PROVE TypeInv
  OBVIOUS
<1>1. Cardinality(Opened) \in Nat
  BY LedgerConstants, FS_Subset, FS_CardinalityType
<1>2. 0 - Welcome * Cardinality(Opened) \in Int
  BY <1>1, LedgerConstants
<1>3. posted \in [LedgerAccounts -> Int]
  BY <1>2, LedgerConstants DEF Init, LedgerAccounts
<1>4. journal \subseteq Entry
  BY LedgerConstants, WelcomeKeys DEF Init, SeedEntry, Entry, LedgerAccounts
<1>5. TypeOK
  BY <1>3, <1>4, LedgerConstants
  DEF Init, TypeOK, PCs, Statuses, READY_STATUSES, Modes, Unlocked
<1> QED
  BY <1>5 DEF Init, TypeInv, Control, PostingControl

(***************************************************************************)
(* get_db's rollback, from wherever a request fails, keeps the types.      *)
(***************************************************************************)
LEMMA RollbackType ==
  ASSUME NEW r \in Requests, TypeInv, Rollback(r), pc[r] # "idle"
  PROVE  TypeInv'
BY DEF Rollback, Goto, table, TypeInv, TypeOK, PCs, Modes, Unlocked, Control, PostingControl, Running

(***************************************************************************)
(* What a request that arrives asks for, whatever the endpoint.            *)
(***************************************************************************)
Arrival(r, q, ok, l) ==
  /\ Begin(r, q, ok, l)
  /\ q.op \in MoneyOps => q.key \in Keys
  /\ q.op \notin MoneyOps => q.key = WelcomeKey(q.src)
  /\ ok => q.amt > 0
  /\ q.op \in MoneyOps /\ ok => status[q.src] \in READY_STATUSES
  /\ l = IF q.op = "transfer" THEN "dest" ELSE IF q.op = "withdraw" THEN "key"
         ELSE FirstStatement(q.op)

(***************************************************************************)
(* Every way a request begins (transfer, withdraw, onboarding) is an       *)
(* arrival.                                                                *)
(***************************************************************************)
LEMMA Arrivals ==
  ASSUME NEW r \in Requests, BeginTransfer(r) \/ BeginWithdraw(r) \/ BeginOnboarding(r)
  PROVE  \E q \in Req, ok \in BOOLEAN, l \in PCs : Arrival(r, q, ok, l)
<1>1. CASE BeginTransfer(r)
  <2>1. PICK s \in Accounts, d \in Accounts, m \in Amounts, k \in Keys :
          Begin(r, [op |-> "transfer", src |-> s, dst |-> d, amt |-> m, key |-> k],
                ValidAmount(m) /\ status[s] \in READY_STATUSES, "dest")
    BY <1>1 DEF BeginTransfer
  <2> DEFINE q == [op |-> "transfer", src |-> s, dst |-> d, amt |-> m, key |-> k]
             ok == ValidAmount(m) /\ status[s] \in READY_STATUSES
  <2>2. q \in Req /\ ok \in BOOLEAN /\ "dest" \in PCs
    BY LedgerConstants DEF Req, AllOps, AllKeys, ValidAmount, PCs
  <2>3. Arrival(r, q, ok, "dest")
    BY <2>1, LedgerConstants DEF Arrival, MoneyOps, ValidAmount
  <2> QED
    BY <2>2, <2>3
<1>2. CASE BeginWithdraw(r)
  <2>1. PICK s \in Accounts, m \in Amounts, k \in Keys :
          Begin(r, [op |-> "withdraw", src |-> s, dst |-> s, amt |-> m, key |-> k],
                ValidAmount(m) /\ status[s] \in READY_STATUSES, "key")
    BY <1>2 DEF BeginWithdraw
  <2> DEFINE q == [op |-> "withdraw", src |-> s, dst |-> s, amt |-> m, key |-> k]
             ok == ValidAmount(m) /\ status[s] \in READY_STATUSES
  <2>2. q \in Req /\ ok \in BOOLEAN /\ "key" \in PCs
    BY LedgerConstants DEF Req, AllOps, AllKeys, ValidAmount, PCs
  <2>3. Arrival(r, q, ok, "key")
    BY <2>1, LedgerConstants DEF Arrival, MoneyOps, ValidAmount
  <2> QED
    BY <2>2, <2>3
<1>3. CASE BeginOnboarding(r)
  <2>1. PICK o \in OpenOps \cup {"start"}, a \in Accounts :
          Begin(r, [op |-> o, src |-> a, dst |-> a, amt |-> Welcome, key |-> WelcomeKey(a)],
                TRUE, FirstStatement(o))
    BY <1>3 DEF BeginOnboarding
  <2> DEFINE q == [op |-> o, src |-> a, dst |-> a, amt |-> Welcome, key |-> WelcomeKey(a)]
             ok == TRUE
  <2>2. q \in Req /\ ok \in BOOLEAN /\ FirstStatement(q.op) \in PCs
    BY LedgerConstants, WelcomeKeys DEF Req, AllOps, OpenOps, PCs, SubjectRows, FirstStatement
  <2>3. Begin(r, q, ok, FirstStatement(q.op))
    BY <2>1
  <2>4. q.op \notin MoneyOps /\ q.key = WelcomeKey(q.src) /\ q.amt > 0
    BY LedgerConstants DEF OpenOps, MoneyOps
  <2> HIDE DEF q, ok
  <2>5. Arrival(r, q, ok, FirstStatement(q.op))
    BY <2>3, <2>4 DEF Arrival, MoneyOps
  <2> QED
    BY <2>2, <2>5
<1> QED
  BY <1>1, <1>2, <1>3

(***************************************************************************)
(* An arrival keeps the types.                                             *)
(***************************************************************************)
LEMMA ArrivalType ==
  ASSUME NEW r \in Requests, TypeInv, NEW q \in Req, NEW ok \in BOOLEAN, NEW l \in PCs,
         Arrival(r, q, ok, l)
  PROVE  TypeInv'
<1>1. TypeOK'
  BY DEF Arrival, Begin, Goto, table, TypeInv, TypeOK, PCs, Req
<1>2. Control'
  BY DEF Arrival, FirstStatement, Begin, Goto, table, TypeInv, TypeOK, Control, Running, MoneyOps, OpenOps
<1>3. PostingControl'
  <2>1. pc[r] = "idle" /\ posting' = posting /\ rows' = rows /\ rows[r] = {} /\ ~posting[r]
    BY DEF Arrival, Begin, TypeInv, PostingControl
  <2>2. /\ pc'[r] \notin {"idle", "update"}
        /\ \A s \in Requests \ {r} : pc'[s] = pc[s] /\ req'[s] = req[s]
    BY DEF Arrival, FirstStatement, Begin, Goto, TypeInv, TypeOK
  <2> QED
    BY <2>1, <2>2 DEF TypeInv, PostingControl
<1> QED
  BY <1>1, <1>2, <1>3 DEF TypeInv

(***************************************************************************)
(* A consent or the holder: kept or written.                               *)
(***************************************************************************)
SubjectRow(r) == KeepSubjectRow(r) \/ WriteSubjectRow(r)

(***************************************************************************)
(* The statement of record_consent or _upsert_holder moves an opening's    *)
(* control on, and only the account that skip loads is new to it.          *)
(***************************************************************************)
LEMMA SubjectRowFacts ==
  ASSUME TypeInv, NEW r \in Requests, SubjectRow(r)
  PROVE  /\ UNCHANGED <<table, req, lock, posting, stale>>
         /\ UNCHANGED <<balance, status, posted, journal>>
         /\ pc[r] \in {"consent", "holder"}
         /\ pc' \in [Requests -> PCs]
         /\ \A s \in Requests \ {r} : pc'[s] = pc[s]
         /\ pc'[r] \in {"session", "holder", "grant"}
         /\ pc'[r] = "session" => pc[r] = "consent" /\ req[r].op = "skip"
         /\ req[r] \in Req /\ req[r].op \in OpenOps
         /\ ~posting[r]
         /\ rows' \in [Requests -> SUBSET SubjectRows]
         /\ \A s \in Requests \ {r} : view'[s] = view[s] /\ seen'[s] = seen[s] /\ rows'[s] = rows[s]
         /\ view' \in [Requests -> [Accounts -> Int]]
         /\ seen' \in [Requests -> Statuses]
         /\ \A a \in Accounts : view'[r][a] \in {view[r][a], balance[a]}
         /\ seen'[r] \in {seen[r], status[req[r].src]}
<1> USE DEF SubjectRow, KeepSubjectRow, WriteSubjectRow, Goto
<1>1. UNCHANGED <<table, req, lock, posting, stale>> /\ UNCHANGED <<balance, status, posted, journal>>
  BY DEF table
<1>2. pc[r] \in {"consent", "holder"}
  BY DEF SubjectRows
<1>3. req[r] \in Req /\ req[r].op \in OpenOps /\ ~posting[r] /\ req[r].src \in Accounts
  BY <1>2 DEF TypeInv, TypeOK, Control, PostingControl, Req
<1>4. pc' = [pc EXCEPT ![r] = AfterSubjectRow(r)] /\ pc'[r] = AfterSubjectRow(r)
  BY DEF TypeInv, TypeOK
<1>5. /\ AfterSubjectRow(r) \in {"session", "holder", "grant"}
      /\ AfterSubjectRow(r) = "session" => pc[r] = "consent" /\ req[r].op = "skip"
  BY <1>2 DEF AfterSubjectRow
<1>9. pc' \in [Requests -> PCs] /\ \A s \in Requests \ {r} : pc'[s] = pc[s]
  BY <1>4, <1>5 DEF TypeInv, TypeOK, PCs, SubjectRows
<1>6. /\ rows' \in [Requests -> SUBSET SubjectRows]
      /\ \A s \in Requests \ {r} : rows'[s] = rows[s]
  <2>1. CASE KeepSubjectRow(r)
    BY <2>1 DEF TypeInv, TypeOK
  <2>2. CASE WriteSubjectRow(r)
    <3>1. rows' = [rows EXCEPT ![r] = rows[r] \cup {pc[r]}]
      BY <2>2 DEF TypeInv, TypeOK
    <3>2. rows[r] \cup {pc[r]} \in SUBSET SubjectRows
      BY <1>2 DEF TypeInv, TypeOK, SubjectRows
    <3> HIDE DEF WriteSubjectRow, KeepSubjectRow
    <3> QED
      BY <3>1, <3>2 DEF TypeInv, TypeOK
  <2> QED
    BY <2>1, <2>2
<1>7. LoadAfterConsent(r)
  OBVIOUS
<1>8. /\ view' \in [Requests -> [Accounts -> Int]]
      /\ seen' \in [Requests -> Statuses]
      /\ \A s \in Requests \ {r} : view'[s] = view[s] /\ seen'[s] = seen[s]
      /\ \A a \in Accounts : view'[r][a] \in {view[r][a], balance[a]}
      /\ seen'[r] \in {seen[r], status[req[r].src]}
  <2> HIDE DEF SubjectRow, KeepSubjectRow, WriteSubjectRow, Goto
  <2>1. CASE UNCHANGED <<view, seen>>
    BY <2>1 DEF TypeInv, TypeOK
  <2>2. CASE /\ view' = [view EXCEPT ![r][req[r].src] = balance[req[r].src]]
             /\ seen' = [seen EXCEPT ![r] = status[req[r].src]]
    BY <1>3, <2>2 DEF TypeInv, TypeOK
  <2> QED
    BY <1>7, <2>1, <2>2 DEF LoadAfterConsent
<1> QED
  BY <1>1, <1>2, <1>3, <1>4, <1>5, <1>6, <1>8, <1>9

(***************************************************************************)
(* Every step preserves the types and the control of the requests.         *)
(***************************************************************************)
LEMMA TypeStep == TypeInv /\ [Next]_vars => TypeInv'
<1> SUFFICES ASSUME TypeInv, [Next]_vars PROVE TypeInv'
  OBVIOUS
<1>1. ASSUME NEW r \in Requests, BeginTransfer(r) \/ BeginWithdraw(r) \/ BeginOnboarding(r)
      PROVE  TypeInv'
  BY <1>1, Arrivals, ArrivalType
<1>4. ASSUME NEW r \in Requests, LoadDest(r) PROVE TypeInv'
  <2>1. TypeOK'
    BY <1>4 DEF LoadDest, Goto, table, TypeInv, TypeOK, PCs, Req
  <2>2. Control' /\ PostingControl'
    BY <1>4 DEF LoadDest, Goto, table, TypeInv, TypeOK, Control, PostingControl, Running, MoneyOps, OpenOps
  <2> QED
    BY <2>1, <2>2 DEF TypeInv
<1>5. ASSUME NEW r \in Requests, LockRow(r) PROVE TypeInv'
  <2>1. RowToLock(r) \in Accounts
    BY <1>5 DEF LockRow, RowToLock, Lesser, Greater, TypeInv, TypeOK, Req
  <2>2. TypeOK'
    BY <1>5, <2>1 DEF LockRow, Goto, table, TypeInv, TypeOK, PCs, Modes, ForUpdate
  <2>3. Control' /\ PostingControl'
    BY <1>5 DEF LockRow, Goto, table, TypeInv, TypeOK, Control, PostingControl, Running
  <2> QED
    BY <2>2, <2>3 DEF TypeInv
<1>6. ASSUME NEW r \in Requests, FindKey(r) PROVE TypeInv'
  <2>1. TypeOK'
    BY <1>6 DEF FindKey, Goto, table, TypeInv, TypeOK, PCs
  <2>2. Control'
    BY <1>6 DEF FindKey, Goto, table, TypeInv, TypeOK, Control, Running
  <2>3. PostingControl'
    BY <1>6 DEF FindKey, Goto, TypeInv, TypeOK, PostingControl
  <2> QED
    BY <2>1, <2>2, <2>3 DEF TypeInv
<1>7. ASSUME NEW r \in Requests, InsertJournal(r) PROVE TypeInv'
  BY <1>7 DEF InsertJournal, Goto, table, TypeInv, TypeOK, PCs, Control, PostingControl, Running
<1>8. ASSUME NEW r \in Requests, UpdateAccounts(r) PROVE TypeInv'
  <2>1. TypeOK'
    BY <1>8 DEF UpdateAccounts, Goto, table, TypeInv, TypeOK, PCs, Modes, NoKeyUpdate, Strongest
  <2>2. Control' /\ PostingControl'
    BY <1>8 DEF UpdateAccounts, Goto, table, TypeInv, TypeOK, Control, PostingControl, Running
  <2> QED
    BY <2>1, <2>2 DEF TypeInv
<1>9. ASSUME NEW r \in Requests, KeepSession(r) PROVE TypeInv'
  <2>1. TypeOK'
    BY <1>9 DEF KeepSession, AfterSession, Goto, table, TypeInv, TypeOK, PCs, SubjectRows, Req
  <2>2. Control' /\ PostingControl'
    BY <1>9 DEF KeepSession, AfterSession, Goto, table, TypeInv, TypeOK, Control,
                PostingControl, Running, Req, AllOps, MoneyOps, OpenOps
  <2> QED
    BY <2>1, <2>2 DEF TypeInv
<1>10. ASSUME NEW r \in Requests, CreateSession(r) PROVE TypeInv'
  <2>1. TypeOK'
    BY <1>10 DEF CreateSession, AfterSession, Goto, table, TypeInv, TypeOK, PCs, SubjectRows, Modes, KeyShare, Req
  <2>2. Control' /\ PostingControl'
    BY <1>10 DEF CreateSession, AfterSession, Goto, table, TypeInv, TypeOK, Control,
                 PostingControl, Running, Req, AllOps, MoneyOps, OpenOps
  <2> QED
    BY <2>1, <2>2 DEF TypeInv
<1>11. ASSUME NEW r \in Requests, EnsureWelcome(r) PROVE TypeInv'
  <2>1. TypeOK'
    BY <1>11 DEF EnsureWelcome, Goto, table, TypeInv, TypeOK, PCs, Modes, ForUpdate, Req
  <2>2. Control' /\ PostingControl'
    BY <1>11 DEF EnsureWelcome, Goto, table, TypeInv, TypeOK, Control, PostingControl,
                 Running, MoneyOps, OpenOps
  <2> QED
    BY <2>1, <2>2 DEF TypeInv
<1>12. ASSUME NEW r \in Requests, WriteStatus(r) PROVE TypeInv'
  <2>1. TypeOK'
    BY <1>12 DEF WriteStatus, Goto, table, TypeInv, TypeOK, PCs, Modes, NoKeyUpdate, Req
  <2>2. Control' /\ PostingControl'
    BY <1>12 DEF WriteStatus, Goto, table, TypeInv, TypeOK, Control, PostingControl, Running
  <2> QED
    BY <2>1, <2>2 DEF TypeInv
<1>13. ASSUME NEW r \in Requests, Commit(r) PROVE TypeInv'
  <2>1. req[r] \in Req /\ pc[r] = "commit" /\ req[r].amt > 0 /\ (posting[r] => req[r].op # "start")
    BY <1>13 DEF Commit, TypeInv, TypeOK, Control, PostingControl, Running
  <2>2. posting[r] => EntryOf(r) \in Entry
    BY <2>1, EntryFacts
  <2>3. \A x \in LedgerAccounts : posting[r] => Delta(EntryOf(r), x) \in Int
    BY <2>2 DEF Delta, Entry
  <2>4. balance' \in [Accounts -> Int] /\ posted' \in [LedgerAccounts -> Int]
    BY <1>13, <2>3 DEF Commit, TypeInv, TypeOK, LedgerAccounts
  <2>5. journal' \subseteq Entry /\ stale' \subseteq Accounts
    BY <1>13, <2>2 DEF Commit, TypeInv, TypeOK, Lines
  <2>6. status' \in [Accounts -> Statuses]
    BY <1>13 DEF Commit, TypeInv, TypeOK, NewStatus, Statuses, READY_STATUSES
  <2>7. TypeOK'
    BY <1>13, <2>1, <2>4, <2>5, <2>6 DEF Commit, Goto, TypeInv, TypeOK, PCs, Modes, Unlocked
  <2>8. Control' /\ PostingControl'
    BY <1>13, <2>1 DEF Commit, Goto, TypeInv, TypeOK, Control, PostingControl, Running
  <2> QED
    BY <2>7, <2>8 DEF TypeInv
<1>16. ASSUME NEW r \in Requests, SubjectRow(r) PROVE TypeInv'
  <2>1. TypeOK'
    BY <1>16, SubjectRowFacts DEF TypeInv, TypeOK, PCs, SubjectRows
  <2>2. \A s \in Requests : req'[s] = req[s] /\ posting'[s] = posting[s] /\ (s # r => pc'[s] = pc[s] /\ rows'[s] = rows[s])
    BY <1>16, SubjectRowFacts
  <2>3. /\ pc[r] \in {"consent", "holder"} /\ pc'[r] \in {"session", "holder", "grant"}
        /\ req[r].op \in OpenOps /\ ~posting[r]
    BY <1>16, SubjectRowFacts
  <2>4. Control'
    BY <2>2, <2>3 DEF TypeInv, Control, Running, MoneyOps, OpenOps
  <2>5. PostingControl'
    BY <2>2, <2>3 DEF TypeInv, PostingControl
  <2> QED
    BY <2>1, <2>4, <2>5 DEF TypeInv
<1>14. ASSUME NEW r \in Requests, Rollback(r), pc[r] # "idle" PROVE TypeInv'
  BY <1>14, RollbackType
<1>15. CASE UNCHANGED vars
  BY <1>15 DEF vars, table, TypeInv, TypeOK, Control, PostingControl, Running
<1> QED
  BY <1>1, <1>4, <1>5, <1>6, <1>7, <1>8, <1>9, <1>10, <1>11, <1>12, <1>13, <1>14, <1>15, <1>16
  DEF Next, Step, SubjectRow, RejectRequest, DuplicateKey, Crash, DeadlockVictim, Running

(***************************************************************************)
(* What any step does to the tables, the inputs and the uncommitted keys:  *)
(* only a commit writes the tables, only an arrival sets an input.         *)
(***************************************************************************)
LEMMA Frame ==
  ASSUME TypeInv, [Next]_vars
  PROVE  \/ UNCHANGED <<table, req, posting, stale>>
         \/ \E r \in Requests : pc[r] = "idle" /\ (\E q : req' = [req EXCEPT ![r] = q])
                                /\ UNCHANGED <<table, posting, stale>>
         \/ \E r \in Requests : InsertJournal(r)
         \/ \E r \in Requests : Rollback(r) /\ pc[r] # "idle"
         \/ \E r \in Requests : Commit(r)
<1>2. ASSUME NEW r \in Requests, BeginTransfer(r) \/ BeginWithdraw(r) \/ BeginOnboarding(r)
      PROVE  pc[r] = "idle" /\ (\E q : req' = [req EXCEPT ![r] = q]) /\ UNCHANGED <<table, posting, stale>>
  BY <1>2, Arrivals DEF Arrival, Begin
<1>3. ASSUME NEW r \in Requests,
             LoadDest(r) \/ LockRow(r) \/ FindKey(r) \/ UpdateAccounts(r) \/ KeepSession(r)
               \/ CreateSession(r) \/ EnsureWelcome(r) \/ WriteStatus(r)
      PROVE  UNCHANGED <<table, req, posting, stale>>
  BY <1>3 DEF LoadDest, LockRow, FindKey, UpdateAccounts, KeepSession, CreateSession,
              EnsureWelcome, WriteStatus
<1>4. ASSUME NEW r \in Requests,
             RejectRequest(r) \/ DuplicateKey(r) \/ Crash(r) \/ DeadlockVictim(r)
      PROVE  Rollback(r) /\ pc[r] # "idle"
  BY <1>4 DEF RejectRequest, DuplicateKey, Crash, DeadlockVictim, Running
<1>5. CASE UNCHANGED vars
  BY <1>5 DEF vars
<1>6. ASSUME NEW r \in Requests, SubjectRow(r)
      PROVE  UNCHANGED <<table, req, posting, stale>>
  BY <1>6, SubjectRowFacts
<1> QED
  BY <1>2, <1>3, <1>4, <1>5, <1>6 DEF Next, Step, SubjectRow

(***************************************************************************)
(* Every step preserves the uniqueness of keys.                            *)
(***************************************************************************)
LEMMA KeyStep == TypeInv /\ KeyInv /\ [Next]_vars => KeyInv'
<1> SUFFICES ASSUME TypeInv, KeyInv, [Next]_vars PROVE KeyInv'
  OBVIOUS
<1>1. CASE UNCHANGED <<table, req, posting, stale>>
  BY <1>1 DEF table, KeyInv, OneEntryPerKey, KeyUsed
<1>2. ASSUME NEW r \in Requests, pc[r] = "idle", NEW q, req' = [req EXCEPT ![r] = q],
             UNCHANGED <<table, posting, stale>>
      PROVE  KeyInv'
  <2>1. ~posting[r]
    BY <1>2 DEF TypeInv, PostingControl
  <2> QED
    BY <1>2, <2>1 DEF table, KeyInv, OneEntryPerKey, KeyUsed, TypeInv, TypeOK
<1>3. ASSUME NEW r \in Requests, InsertJournal(r) PROVE KeyInv'
  BY <1>3 DEF InsertJournal, KeyPending, table, KeyInv, OneEntryPerKey, KeyUsed, TypeInv, TypeOK
<1>4. ASSUME NEW r \in Requests, Rollback(r) PROVE KeyInv'
  BY <1>4 DEF Rollback, table, KeyInv, OneEntryPerKey, KeyUsed, TypeInv, TypeOK
<1>5. ASSUME NEW r \in Requests, Commit(r) PROVE KeyInv'
  <2>1. CASE ~posting[r]
    BY <1>5, <2>1 DEF Commit, KeyInv, OneEntryPerKey, KeyUsed, TypeInv, TypeOK
  <2>2. CASE posting[r]
    <3>1. journal' = journal \cup {EntryOf(r)} /\ EntryOf(r).key = req[r].key
      BY <1>5, <2>2 DEF Commit, EntryOf
    <3>2. req' = req /\ posting' = [posting EXCEPT ![r] = FALSE]
      BY <1>5 DEF Commit
    <3> QED
      BY <2>2, <3>1, <3>2 DEF KeyInv, OneEntryPerKey, KeyUsed, TypeInv, TypeOK
  <2> QED
    BY <2>1, <2>2
<1> QED
  BY <1>1, <1>2, <1>3, <1>4, <1>5, Frame

(***************************************************************************)
(* Every step preserves the naming of grants by their keys.                *)
(***************************************************************************)
LEMMA GrantKeysStep == TypeInv /\ GrantKeys /\ [Next]_vars => GrantKeys'
<1> SUFFICES ASSUME TypeInv, GrantKeys, [Next]_vars PROVE GrantKeys'
  OBVIOUS
<1>1. CASE UNCHANGED journal
  BY <1>1 DEF GrantKeys
<1>2. ASSUME NEW r \in Requests, Commit(r), posting[r] PROVE GrantKeys'
  <2>1. journal' = journal \cup {EntryOf(r)}
    BY <1>2 DEF Commit
  <2>2. req[r] \in Req /\ pc[r] = "commit" /\ req[r].op # "start"
    BY <1>2 DEF Commit, TypeInv, TypeOK, PostingControl
  <2>3. CASE req[r].op \in OpenOps
    <3>1. EntryOf(r).type = "welcome_grant" /\ EntryOf(r).credit = req[r].src
          /\ EntryOf(r).key = WelcomeKey(req[r].src)
      BY <2>2, <2>3, EntryFacts DEF TypeInv, Control, OpenOps, MoneyOps
    <3> QED
      BY <2>1, <3>1, WelcomeKeys DEF GrantKeys
  <2>4. CASE req[r].op \in MoneyOps
    <3>1. EntryOf(r).type # "welcome_grant" /\ EntryOf(r).key \in Keys
      BY <2>2, <2>4, EntryFacts DEF TypeInv, Control, OpenOps, MoneyOps
    <3> QED
      BY <2>1, <3>1, WelcomeKeys DEF GrantKeys
  <2> QED
    BY <2>2, <2>3, <2>4 DEF Req, AllOps, OpenOps, MoneyOps
<1> QED
  BY <1>1, <1>2, Frame DEF table, InsertJournal, Rollback, Commit

(***************************************************************************)
(* The journal only grows, so a grant is never lost.                       *)
(***************************************************************************)
LEMMA GrantedStays ==
  ASSUME TypeInv, [Next]_vars
  PROVE  journal \subseteq journal' /\ \A a : Granted(a) => Granted(a)'
<1>1. journal \subseteq journal'
  BY Frame DEF table, InsertJournal, Rollback, Commit
<1> QED
  BY <1>1 DEF Granted

(***************************************************************************)
(* The steps that move one request's control and leave the tables and all  *)
(* inputs alone.                                                           *)
(***************************************************************************)
Quiet(r) ==
  \/ LoadDest(r) \/ LockRow(r) \/ FindKey(r) \/ InsertJournal(r) \/ UpdateAccounts(r)
  \/ KeepSession(r) \/ CreateSession(r) \/ EnsureWelcome(r) \/ WriteStatus(r)

(***************************************************************************)
(* A step leaves the tables alone, ends a request, or commits one.         *)
(***************************************************************************)
LEMMA Cases ==
  ASSUME [Next]_vars
  PROVE  \/ UNCHANGED vars
         \/ \E r \in Requests : BeginTransfer(r) \/ BeginWithdraw(r) \/ BeginOnboarding(r)
         \/ \E r \in Requests : Quiet(r)
         \/ \E r \in Requests : SubjectRow(r)
         \/ \E r \in Requests : Rollback(r) /\ pc[r] # "idle"
         \/ \E r \in Requests : Commit(r)
BY DEF Next, Step, Quiet, SubjectRow, RejectRequest, DuplicateKey, Crash, DeadlockVictim, Running

(***************************************************************************)
(* Every step preserves that ready accounts have their grant.              *)
(***************************************************************************)
LEMMA GrantStep == TypeInv /\ GrantKeys /\ GrantInv /\ [Next]_vars => GrantInv'
<1> SUFFICES ASSUME TypeInv, GrantKeys, GrantInv, [Next]_vars PROVE GrantInv'
  OBVIOUS
<1> USE DEF MoneyOps, OpenOps
<1>0. \A a : Granted(a) => Granted(a)'
  BY GrantedStays
<1>1. CASE UNCHANGED vars
  BY <1>1 DEF vars, table, GrantInv, ReadyIsGranted, Running, Granted
<1>2. ASSUME NEW r \in Requests, NEW q \in Req, NEW ok \in BOOLEAN, NEW l \in PCs,
             Arrival(r, q, ok, l)
      PROVE  GrantInv'
  <2>1. ReadyIsGranted'
    BY <1>2 DEF Arrival, Begin, table, GrantInv, ReadyIsGranted
  <2>2. q.op \in MoneyOps /\ ok => Granted(q.src)'
    BY <1>0, <1>2 DEF Arrival, GrantInv, ReadyIsGranted, Granted, Req
  <2> QED
    BY <1>0, <1>2, <2>1, <2>2 DEF Arrival, FirstStatement, Begin, Goto, GrantInv, Running, TypeInv, TypeOK
<1>3. ASSUME NEW r \in Requests, BeginTransfer(r) \/ BeginWithdraw(r) \/ BeginOnboarding(r)
      PROVE  GrantInv'
  BY <1>2, <1>3, Arrivals
<1>4. ASSUME NEW r \in Requests, Quiet(r) PROVE GrantInv'
  <2>1. UNCHANGED <<table, req>> /\ \A s \in Requests \ {r} : pc'[s] = pc[s] /\ posting'[s] = posting[s]
    BY <1>4 DEF Quiet, LoadDest, LockRow, FindKey, InsertJournal, UpdateAccounts, KeepSession,
                CreateSession, EnsureWelcome, WriteStatus, Goto, TypeInv, TypeOK
  <2>2. ReadyIsGranted'
    BY <2>1 DEF table, GrantInv, ReadyIsGranted
  <2>3. (Running(r) /\ (Running(r))' /\ req[r] \in Req) \/ pc'[r] = "failed"
    BY <1>4 DEF Quiet, LoadDest, LockRow, FindKey, InsertJournal, UpdateAccounts, KeepSession,
                CreateSession, EnsureWelcome, WriteStatus, AfterSession, Goto, Running, TypeInv, TypeOK
  <2>4. pc[r] = "dest" /\ pc'[r] # "failed" => Granted(req[r].dst)
    BY <1>4, <2>3 DEF Quiet, LoadDest, LockRow, FindKey, InsertJournal, UpdateAccounts, KeepSession,
                CreateSession, EnsureWelcome, WriteStatus, Goto, TypeInv, TypeOK, Req,
                GrantInv, ReadyIsGranted, Granted
  <2>5. req[r].op \in OpenOps /\ pc'[r] = "commit" => posting'[r] \/ Granted(req[r].src)
    <3>1. CASE FindKey(r)
      <4>1. pc[r] = "key" /\ (pc'[r] = "commit" => KeyUsed(req[r].key))
        BY <3>1 DEF FindKey, Goto, TypeInv, TypeOK
      <4>2. req[r] \in Req
        BY <4>1 DEF TypeInv, TypeOK
      <4>3. req[r].op \in OpenOps => req[r].key = WelcomeKey(req[r].src) /\ req[r].src \in Accounts
        BY <4>1, <4>2 DEF TypeInv, Control, Req
      <4> QED
        BY <4>1, <4>3 DEF KeyUsed, Granted, GrantKeys
    <3>2. CASE EnsureWelcome(r)
      BY <3>2 DEF EnsureWelcome, Goto, TypeInv, TypeOK
    <3>3. CASE UpdateAccounts(r)
      BY <3>3 DEF UpdateAccounts, TypeInv, PostingControl
    <3>4. CASE KeepSession(r) \/ CreateSession(r)
      BY <3>4 DEF KeepSession, CreateSession, AfterSession, Goto, TypeInv, TypeOK
    <3>5. CASE LoadDest(r) \/ LockRow(r) \/ InsertJournal(r) \/ WriteStatus(r)
      BY <3>5 DEF LoadDest, LockRow, InsertJournal, WriteStatus, Goto, TypeInv, TypeOK, Control
    <3> QED
      BY <1>4, <3>1, <3>2, <3>3, <3>4, <3>5 DEF Quiet
  <2> QED
    BY <1>0, <2>1, <2>2, <2>3, <2>4, <2>5 DEF GrantInv, Running, TypeInv, TypeOK
<1>5. ASSUME NEW r \in Requests, Rollback(r) PROVE GrantInv'
  BY <1>5 DEF Rollback, Goto, table, GrantInv, ReadyIsGranted, Running, Granted, TypeInv, TypeOK
<1>6. ASSUME NEW r \in Requests, Commit(r) PROVE GrantInv'
  <2>1. req[r] \in Req /\ pc[r] = "commit" /\ Running(r) /\ req' = req
    BY <1>6 DEF Commit, TypeInv, TypeOK, Running
  <2>2. req[r].op \in OpenOps => Granted(req[r].src)'
    <3>1. CASE ~posting[r]
      <4>1. req[r].op \in OpenOps => Granted(req[r].src)
        BY <2>1, <3>1 DEF GrantInv
      <4> QED
        BY <1>0, <2>1, <4>1 DEF Granted
    <3>2. CASE posting[r] /\ req[r].op \in OpenOps
      <4>1. EntryOf(r).type = "welcome_grant" /\ EntryOf(r).credit = req[r].src
        BY <2>1, <3>2, EntryFacts
      <4>2. EntryOf(r) \in journal'
        BY <1>6, <3>2 DEF Commit
      <4> QED
        BY <2>1, <4>1, <4>2 DEF Granted
    <3> QED
      BY <3>1, <3>2
  <2>3. \A a \in Accounts : status'[a] \in READY_STATUSES =>
          status[a] \in READY_STATUSES \/ (a = req[r].src /\ req[r].op \in OpenOps)
    BY <1>6, <2>1 DEF Commit, TypeInv, TypeOK, NewStatus, READY_STATUSES
  <2>4. ReadyIsGranted'
    BY <1>0, <2>1, <2>2, <2>3 DEF GrantInv, ReadyIsGranted, Granted
  <2> QED
    BY <1>0, <1>6, <2>4 DEF Commit, Goto, GrantInv, Running, TypeInv, TypeOK
<1>7. ASSUME NEW r \in Requests, SubjectRow(r) PROVE GrantInv'
  <2>1. \A s \in Requests : (Running(s))' => Running(s)
    BY <1>7, SubjectRowFacts DEF Running, TypeInv, TypeOK
  <2>2. /\ UNCHANGED <<status, journal, req, posting>>
        /\ pc[r] \notin {"dest", "commit"} /\ pc'[r] \notin {"dest", "commit"}
        /\ \A s \in Requests \ {r} : pc'[s] = pc[s]
        /\ req[r].op \in OpenOps
    BY <1>7, SubjectRowFacts
  <2>3. ReadyIsGranted'
    BY <2>2 DEF GrantInv, ReadyIsGranted
  <2> QED
    BY <2>1, <2>2, <2>3 DEF GrantInv, Granted
<1> QED
  BY <1>1, <1>3, <1>4, <1>5, <1>6, <1>7, Cases

(***************************************************************************)
(* Every step preserves that accounts without a grant are empty.           *)
(***************************************************************************)
LEMMA FreshStep == TypeInv /\ GrantInv /\ FreshInv /\ [Next]_vars => FreshInv'
<1> SUFFICES ASSUME TypeInv, GrantInv, FreshInv, [Next]_vars PROVE FreshInv'
  OBVIOUS
<1> USE DEF MoneyOps, OpenOps
<1>0. \A a : ~Granted(a)' => ~Granted(a)
  BY GrantedStays
<1>1. CASE UNCHANGED vars
  BY <1>1 DEF vars, table, FreshInv, Running, Granted
<1>2. ASSUME NEW r \in Requests, BeginTransfer(r) \/ BeginWithdraw(r) \/ BeginOnboarding(r)
      PROVE  FreshInv'
  <2>1. PICK q \in Req, ok \in BOOLEAN, l \in PCs : Arrival(r, q, ok, l)
    BY <1>2, Arrivals
  <2>2. /\ pc' = [pc EXCEPT ![r] = IF ok THEN l ELSE "failed"]
        /\ req' = [req EXCEPT ![r] = q]
        /\ view' = [view EXCEPT ![r][q.src] = balance[q.src]]
        /\ balance' = balance
    BY <2>1 DEF Arrival, FirstStatement, Begin, Goto, table
  <2> QED
    BY <1>0, <2>2 DEF FreshInv, Running, TypeInv, TypeOK, Req
<1>3. ASSUME NEW r \in Requests, Quiet(r) PROVE FreshInv'
  <2>1. /\ UNCHANGED <<balance, req>>
        /\ \A s \in Requests : (Running(s))' => Running(s)
        /\ \A s \in Requests : req[s].op # "transfer" => view'[s] = view[s]
    BY <1>3 DEF Quiet, LoadDest, LockRow, FindKey, InsertJournal, UpdateAccounts, KeepSession,
                CreateSession, EnsureWelcome, WriteStatus, Goto, table, Running, TypeInv, TypeOK, Control
  <2> QED
    BY <1>0, <2>1 DEF FreshInv, Running
<1>4. ASSUME NEW r \in Requests, Rollback(r) PROVE FreshInv'
  BY <1>0, <1>4 DEF Rollback, Goto, table, FreshInv, Running, TypeInv, TypeOK
<1>5. ASSUME NEW r \in Requests, Commit(r) PROVE FreshInv'
  <2>1. req[r] \in Req /\ Running(r) /\ (posting[r] => req[r].op # "start")
    BY <1>5 DEF Commit, TypeInv, TypeOK, Running, PostingControl
  <2>2. UNCHANGED <<req, view>> /\ \A s \in Requests : (Running(s))' => Running(s)
    BY <1>5 DEF Commit, Goto, Running, TypeInv, TypeOK
  <2>3. ASSUME NEW a \in Accounts, ~Granted(a)' PROVE balance'[a] = balance[a]
    <3>1. CASE posting[r] /\ a \in Lines(r)
      <4>1. CASE req[r].op \in MoneyOps
        <5>1. a = req[r].src \/ (req[r].op = "transfer" /\ a = req[r].dst)
          BY <2>1, <3>1, <4>1, EntryFacts, LedgerConstants DEF Lines
        <5>2. Granted(a)
          BY <1>5, <2>1, <4>1, <5>1 DEF GrantInv, Commit
        <5> QED
          BY <1>0, <2>3, <5>2
      <4>2. CASE req[r].op \in OpenOps
        <5>1. a = req[r].src /\ EntryOf(r).type = "welcome_grant" /\ EntryOf(r).credit = a
          BY <2>1, <3>1, <4>2, EntryFacts, LedgerConstants DEF Lines
        <5>2. EntryOf(r) \in journal'
          BY <1>5, <3>1 DEF Commit
        <5> QED
          BY <2>3, <5>1, <5>2 DEF Granted
      <4> QED
        BY <2>1, <3>1, <4>1, <4>2 DEF Req, AllOps
    <3>2. CASE ~(posting[r] /\ a \in Lines(r))
      BY <1>5, <3>2 DEF Commit, TypeInv, TypeOK
    <3> QED
      BY <3>1, <3>2
  <2> QED
    BY <1>0, <2>2, <2>3 DEF FreshInv, Running
<1>6. ASSUME NEW r \in Requests, SubjectRow(r) PROVE FreshInv'
  <2>1. \A s \in Requests : (Running(s))' => Running(s)
    BY <1>6, SubjectRowFacts DEF Running, TypeInv, TypeOK
  <2> QED
    BY <1>0, <1>6, <2>1, SubjectRowFacts DEF FreshInv
<1> QED
  BY <1>1, <1>2, <1>3, <1>4, <1>5, <1>6, Cases

(***************************************************************************)
(* Every step preserves that cached balances are not negative.             *)
(***************************************************************************)
LEMMA FundsStep == TypeInv /\ FundsInv /\ [Next]_vars => FundsInv'
<1> SUFFICES ASSUME TypeInv, FundsInv, [Next]_vars PROVE FundsInv'
  OBVIOUS
<1> USE DEF MoneyOps
<1>1. CASE UNCHANGED vars
  BY <1>1 DEF vars, table, FundsInv, CachedNonNegative, SufficientFunds
<1>2. ASSUME NEW r \in Requests, BeginTransfer(r) \/ BeginWithdraw(r) \/ BeginOnboarding(r)
      PROVE  FundsInv'
  <2>1. PICK q \in Req, ok \in BOOLEAN, l \in PCs : Arrival(r, q, ok, l)
    BY <1>2, Arrivals
  <2>2. /\ pc' = [pc EXCEPT ![r] = IF ok THEN l ELSE "failed"]
        /\ l \notin {"insert", "update"}
        /\ ~posting[r]
        /\ req' = [req EXCEPT ![r] = q]
        /\ view' = [view EXCEPT ![r][q.src] = balance[q.src]]
        /\ UNCHANGED <<balance, posting>>
    BY <2>1 DEF Arrival, FirstStatement, Begin, Goto, table, TypeInv, PostingControl
  <2> QED
    BY <2>2 DEF FundsInv, CachedNonNegative, SufficientFunds, TypeInv, TypeOK, Req
<1>3. ASSUME NEW r \in Requests, Quiet(r) PROVE FundsInv'
  <2>1. CASE LoadDest(r)
    <3>1. ~posting[r] /\ req[r] \in Req
      BY <2>1 DEF LoadDest, TypeInv, TypeOK, PostingControl
    <3> QED
      BY <2>1, <3>1 DEF LoadDest, Goto, table, FundsInv, CachedNonNegative, SufficientFunds,
                        TypeInv, TypeOK, Req
  <2>2. CASE ~LoadDest(r)
    <3>1. UNCHANGED <<balance, req, view>>
      BY <1>3, <2>2 DEF Quiet, LockRow, FindKey, InsertJournal, UpdateAccounts, KeepSession,
                        CreateSession, EnsureWelcome, WriteStatus, table
    <3>2. ASSUME NEW s \in Requests, pc'[s] \in {"insert", "update"} \/ posting'[s]
          PROVE  SufficientFunds(s)
      BY <1>3, <2>2, <3>2 DEF Quiet, LockRow, FindKey, InsertJournal, UpdateAccounts, KeepSession,
              CreateSession, EnsureWelcome, WriteStatus, AfterSession, Goto, FundsInv, TypeInv, TypeOK
    <3> QED
      BY <3>1, <3>2 DEF FundsInv, CachedNonNegative, SufficientFunds
  <2> QED
    BY <2>1, <2>2
<1>4. ASSUME NEW r \in Requests, Rollback(r) PROVE FundsInv'
  BY <1>4 DEF Rollback, Goto, table, FundsInv, CachedNonNegative, SufficientFunds, TypeInv, TypeOK
<1>5. ASSUME NEW r \in Requests, Commit(r) PROVE FundsInv'
  <2>1. req[r] \in Req /\ req[r].amt > 0 /\ (posting[r] => req[r].op # "start")
        /\ (req[r].op = "transfer" => req[r].src # req[r].dst)
    BY <1>5 DEF Commit, TypeInv, TypeOK, Control, Running, PostingControl
  <2>2. ASSUME NEW a \in Accounts, posting[r], a \in Lines(r)
        PROVE  view[r][a] + Delta(EntryOf(r), a) >= 0
    <3>1. view[r][a] \in Int /\ view[r][a] >= 0 /\ SufficientFunds(r)
      BY <2>2 DEF FundsInv, TypeInv, TypeOK
    <3>2. EntryOf(r).amount = req[r].amt /\ req[r].amt \in Int
      BY <2>1, <2>2, EntryFacts DEF Req
    <3>3. CASE a = EntryOf(r).debit
      <4>1. a = req[r].src /\ req[r].op \in MoneyOps /\ EntryOf(r).credit # a
        BY <2>1, <2>2, <3>3, EntryFacts, LedgerConstants DEF Req, AllOps, OpenOps
      <4> QED
        BY <3>1, <3>2, <3>3, <4>1 DEF SufficientFunds, Delta
    <3>4. CASE a # EntryOf(r).debit
      BY <2>1, <3>1, <3>2, <3>4 DEF Delta
    <3> QED
      BY <3>3, <3>4
  <2>3. CachedNonNegative'
    BY <1>5, <2>2 DEF Commit, FundsInv, CachedNonNegative, TypeInv, TypeOK
  <2> QED
    BY <1>5, <2>3 DEF Commit, Goto, FundsInv, SufficientFunds, TypeInv, TypeOK
<1>6. ASSUME NEW r \in Requests, SubjectRow(r) PROVE FundsInv'
  <2>1. /\ UNCHANGED <<balance, req, posting>>
        /\ \A s \in Requests \ {r} : view'[s] = view[s] /\ pc'[s] = pc[s]
        /\ ~posting[r] /\ pc'[r] \notin {"insert", "update"}
        /\ \A a \in Accounts : view'[r][a] \in {view[r][a], balance[a]}
    BY <1>6, SubjectRowFacts
  <2> QED
    BY <2>1 DEF FundsInv, CachedNonNegative, SufficientFunds
<1> QED
  BY <1>1, <1>2, <1>3, <1>4, <1>5, <1>6, Cases

(***************************************************************************)
(* Every step preserves the compatibility of row locks.                    *)
(***************************************************************************)
LEMMA CompatibleStep == TypeInv /\ LocksCompatible /\ [Next]_vars => LocksCompatible'
<1> SUFFICES ASSUME TypeInv, LocksCompatible, [Next]_vars PROVE LocksCompatible'
  OBVIOUS
<1>0. /\ lock \in [Requests -> [Accounts -> Modes]]
      /\ \A s \in Requests, b \in Accounts : lock[s][b] \in 0..3
  BY DEF TypeInv, TypeOK, Modes
<1>1. ASSUME NEW r \in Requests, NEW a \in Accounts, NEW m \in Modes, CanLock(r, a, m),
             lock' = [lock EXCEPT ![r][a] = m]
      PROVE  LocksCompatible'
  <2>1. \A s \in Requests, b \in Accounts :
          lock'[s][b] = IF s = r /\ b = a THEN m ELSE lock[s][b]
    BY <1>0, <1>1
  <2>2. m \in 0..3
    BY <1>1 DEF Modes
  <2> QED
    BY <1>0, <1>1, <2>1, <2>2 DEF CanLock, LocksCompatible, Conflict
<1>2. ASSUME NEW r \in Requests, lock' = [lock EXCEPT ![r] = [a \in Accounts |-> Unlocked]]
      PROVE  LocksCompatible'
  <2>1. \A s \in Requests, b \in Accounts : lock'[s][b] = IF s = r THEN 0 ELSE lock[s][b]
    BY <1>0, <1>2 DEF Unlocked
  <2> QED
    BY <1>0, <2>1 DEF LocksCompatible, Conflict
<1>3. CASE UNCHANGED lock
  BY <1>3 DEF LocksCompatible
<1>4. ASSUME NEW r \in Requests, UpdateAccounts(r) PROVE LocksCompatible'
  <2>1. \A s \in Requests, b \in Accounts :
          lock'[s][b] = IF s = r /\ b \in Lines(r) THEN Strongest(lock[r][b], 2) ELSE lock[s][b]
    BY <1>0, <1>4 DEF UpdateAccounts, NoKeyUpdate
  <2>2. \A b \in Lines(r) : CanLock(r, b, 2)
    BY <1>4 DEF UpdateAccounts, NoKeyUpdate
  <2> QED
    BY <1>0, <2>1, <2>2 DEF CanLock, Strongest, LocksCompatible, Conflict
<1>5. ASSUME NEW r \in Requests, LockRow(r) PROVE LocksCompatible'
  <2>1. RowToLock(r) \in Accounts
    BY <1>5 DEF LockRow, RowToLock, Lesser, Greater, TypeInv, TypeOK, Req
  <2>2. ForUpdate \in Modes
    BY DEF ForUpdate, Modes
  <2> QED
    BY <1>1, <1>5, <2>1, <2>2 DEF LockRow
<1>6. ASSUME NEW r \in Requests, CreateSession(r) \/ EnsureWelcome(r) \/ WriteStatus(r)
      PROVE  LocksCompatible'
  <2>1. req[r].src \in Accounts
    BY <1>6 DEF CreateSession, EnsureWelcome, WriteStatus, TypeInv, TypeOK, Req
  <2>2. KeyShare \in Modes /\ NoKeyUpdate \in Modes /\ ForUpdate \in Modes
    BY DEF KeyShare, NoKeyUpdate, ForUpdate, Modes
  <2> QED
    BY <1>1, <1>6, <2>1, <2>2 DEF CreateSession, EnsureWelcome, WriteStatus
<1>7. ASSUME NEW r \in Requests, Rollback(r) \/ Commit(r) PROVE LocksCompatible'
  BY <1>2, <1>7 DEF Rollback, Commit
<1>8. ASSUME NEW r \in Requests,
             LoadDest(r) \/ FindKey(r) \/ InsertJournal(r) \/ KeepSession(r)
      PROVE  UNCHANGED lock
  BY <1>8 DEF LoadDest, FindKey, InsertJournal, KeepSession
<1>9. ASSUME NEW r \in Requests, BeginTransfer(r) \/ BeginWithdraw(r) \/ BeginOnboarding(r)
      PROVE  UNCHANGED lock
  BY <1>9, Arrivals DEF Arrival, Begin
<1>10. ASSUME NEW r \in Requests, SubjectRow(r) PROVE UNCHANGED lock
  BY <1>10, SubjectRowFacts
<1> QED
  BY <1>3, <1>4, <1>5, <1>6, <1>7, <1>8, <1>9, <1>10, Cases DEF Quiet, vars

(***************************************************************************)
(* Every step preserves that a request about to commit holds its locks.    *)
(***************************************************************************)
LEMMA LockStep == TypeInv /\ LockInv /\ [Next]_vars => LockInv'
<1> SUFFICES ASSUME TypeInv, LockInv, [Next]_vars PROVE LockInv'
  OBVIOUS
<1> USE DEF MoneyOps, OpenOps, NoKeyUpdate, ForUpdate
<1>1. CASE UNCHANGED vars
  BY <1>1 DEF vars, LockInv, Lines, EntryOf, WritesStatus, NewStatus
<1>2. ASSUME NEW r \in Requests, UNCHANGED <<req, seen>>, pc'[r] \in {"done", "failed"},
             \A s \in Requests \ {r} : pc'[s] = pc[s] /\ lock'[s] = lock[s] /\ posting'[s] = posting[s]
      PROVE  LockInv'
  BY <1>2 DEF LockInv, Lines, EntryOf, WritesStatus, NewStatus
<1>3. ASSUME NEW r \in Requests, Rollback(r) \/ Commit(r) PROVE LockInv'
  BY <1>2, <1>3 DEF Rollback, Commit, Goto, TypeInv, TypeOK
<1>4. ASSUME NEW r \in Requests, BeginTransfer(r) \/ BeginWithdraw(r) \/ BeginOnboarding(r)
      PROVE  LockInv'
  <2>1. PICK q \in Req, ok \in BOOLEAN, l \in PCs : Arrival(r, q, ok, l)
    BY <1>4, Arrivals
  <2>2. /\ req' = [req EXCEPT ![r] = q] /\ UNCHANGED <<lock, posting>>
        /\ \A s \in Requests \ {r} : pc'[s] = pc[s] /\ seen'[s] = seen[s]
        /\ pc'[r] \in {"dest", "key", "session", "consent", "failed"}
        /\ pc'[r] = "key" => q.op = "withdraw"
    BY <2>1 DEF Arrival, FirstStatement, Begin, Goto, TypeInv, TypeOK
  <2> QED
    BY <2>2 DEF LockInv, Lines, EntryOf, WritesStatus, NewStatus, TypeInv, TypeOK
<1>5. ASSUME NEW r \in Requests, Quiet(r) PROVE LockInv'
  <2>1. UNCHANGED <<req, seen>> /\ req[r] \in Req
        /\ \A s \in Requests \ {r} : pc'[s] = pc[s] /\ lock'[s] = lock[s] /\ posting'[s] = posting[s]
    BY <1>5 DEF Quiet, LoadDest, LockRow, FindKey, InsertJournal, UpdateAccounts, KeepSession,
                CreateSession, EnsureWelcome, WriteStatus, Goto, TypeInv, TypeOK
  <2>2. /\ pc'[r] = "commit" /\ posting'[r] => \A a \in Lines(r) : lock'[r][a] >= NoKeyUpdate
        /\ pc'[r] = "commit" /\ WritesStatus(r) => lock'[r][req[r].src] >= NoKeyUpdate
        /\ pc'[r] \in {"key", "insert", "update", "commit"} /\ req[r].op \in OpenOps
             => lock'[r][req[r].src] >= NoKeyUpdate
    <3>1. CASE UpdateAccounts(r)
      <4>1. \A b \in Accounts : lock[r][b] \in 0..3
        BY DEF TypeInv, TypeOK, Modes
      <4>2. \A b \in Accounts :
              lock'[r][b] = IF b \in Lines(r) THEN Strongest(lock[r][b], 2) ELSE lock[r][b]
        BY <3>1 DEF UpdateAccounts, TypeInv, TypeOK
      <4>3. req[r].op \in OpenOps => lock[r][req[r].src] >= NoKeyUpdate
        BY <3>1 DEF UpdateAccounts, LockInv
      <4>4. req[r].op \in OpenOps => lock'[r][req[r].src] >= NoKeyUpdate
        BY <2>1, <4>1, <4>2, <4>3 DEF Strongest, Req
      <4>5. \A a \in Lines(r) : lock'[r][a] >= NoKeyUpdate
        BY <4>1, <4>2 DEF Strongest, Lines
      <4>6. req[r].op # "start"
        BY <3>1 DEF UpdateAccounts, TypeInv, Control
      <4> QED
        BY <2>1, <4>4, <4>5, <4>6 DEF WritesStatus, Req, AllOps
    <3>2. CASE FindKey(r) \/ InsertJournal(r)
      BY <2>1, <3>2 DEF FindKey, InsertJournal, Goto, LockInv, TypeInv, TypeOK, Control, PostingControl,
                  WritesStatus, Req, AllOps
    <3>3. CASE KeepSession(r) \/ CreateSession(r)
      BY <2>1, <3>3 DEF KeepSession, CreateSession, AfterSession, Goto, TypeInv, TypeOK, Control,
                  PostingControl, WritesStatus, NewStatus, Req, AllOps
    <3>4. CASE EnsureWelcome(r)
      <4>1. lock'[r][req[r].src] = ForUpdate /\ posting'[r] = FALSE
        BY <2>1, <3>4 DEF EnsureWelcome, TypeInv, TypeOK, PostingControl, Req
      <4> QED
        BY <4>1
    <3>5. CASE WriteStatus(r)
      <4>1. lock'[r][req[r].src] = NoKeyUpdate /\ posting'[r] = FALSE
        BY <2>1, <3>5 DEF WriteStatus, TypeInv, TypeOK, PostingControl, Req
      <4> QED
        BY <4>1
    <3>6. CASE LoadDest(r) \/ LockRow(r)
      BY <3>6 DEF LoadDest, LockRow, Goto, TypeInv, TypeOK, Control
    <3> QED
      BY <1>5, <3>1, <3>2, <3>3, <3>4, <3>5, <3>6 DEF Quiet
  <2> QED
    BY <2>1, <2>2 DEF LockInv, Lines, EntryOf, WritesStatus, NewStatus
<1>6. ASSUME NEW r \in Requests, SubjectRow(r) PROVE LockInv'
  <2>1. /\ UNCHANGED <<req, lock, posting>>
        /\ \A s \in Requests \ {r} : seen'[s] = seen[s] /\ pc'[s] = pc[s]
        /\ pc'[r] \in {"session", "holder", "grant"}
    BY <1>6, SubjectRowFacts
  <2> QED
    BY <2>1 DEF LockInv, Lines, EntryOf, WritesStatus, NewStatus
<1> QED
  BY <1>1, <1>3, <1>4, <1>5, <1>6, Cases

(***************************************************************************)
(* Every step preserves that a finished transfer has its key journaled.    *)
(***************************************************************************)
LEMMA DoneStep == TypeInv /\ DoneInv /\ [Next]_vars => DoneInv'
<1> SUFFICES ASSUME TypeInv, DoneInv, [Next]_vars PROVE DoneInv'
  OBVIOUS
<1> USE DEF MoneyOps, OpenOps
<1>0. \A k : KeyUsed(k) => KeyUsed(k)'
  BY GrantedStays DEF KeyUsed
<1>1. CASE UNCHANGED vars
  BY <1>1 DEF vars, table, DoneInv, KeyUsed
<1>2. ASSUME NEW r \in Requests, BeginTransfer(r) \/ BeginWithdraw(r) \/ BeginOnboarding(r)
      PROVE  DoneInv'
  <2>1. PICK q \in Req, ok \in BOOLEAN, l \in PCs : Arrival(r, q, ok, l)
    BY <1>2, Arrivals
  <2>2. pc'[r] \notin {"commit", "done"} /\ journal' = journal /\ posting' = posting
        /\ \A s \in Requests \ {r} : pc'[s] = pc[s] /\ req'[s] = req[s]
    BY <2>1 DEF Arrival, FirstStatement, Begin, Goto, table, TypeInv, TypeOK
  <2> QED
    BY <2>2 DEF DoneInv, KeyUsed
<1>3. ASSUME NEW r \in Requests, Quiet(r) PROVE DoneInv'
  <2>1. UNCHANGED <<req, journal>>
        /\ \A s \in Requests \ {r} : pc'[s] = pc[s] /\ posting'[s] = posting[s]
    BY <1>3 DEF Quiet, LoadDest, LockRow, FindKey, InsertJournal, UpdateAccounts, KeepSession,
                CreateSession, EnsureWelcome, WriteStatus, Goto, table, TypeInv, TypeOK
  <2>2. pc'[r] \in {"commit", "done"} /\ req[r].op \in MoneyOps => posting'[r] \/ KeyUsed(req[r].key)
    BY <1>3 DEF Quiet, LoadDest, LockRow, FindKey, InsertJournal, UpdateAccounts, KeepSession,
                CreateSession, EnsureWelcome, WriteStatus, AfterSession, Goto, TypeInv, TypeOK,
                Control, PostingControl
  <2> QED
    BY <2>1, <2>2 DEF DoneInv, KeyUsed
<1>4. ASSUME NEW r \in Requests, Rollback(r) PROVE DoneInv'
  BY <1>4 DEF Rollback, Goto, table, DoneInv, KeyUsed, TypeInv, TypeOK
<1>5. ASSUME NEW r \in Requests, Commit(r) PROVE DoneInv'
  <2>1. req' = req /\ \A s \in Requests \ {r} : pc'[s] = pc[s] /\ posting'[s] = posting[s]
    BY <1>5 DEF Commit, Goto, TypeInv, TypeOK
  <2>2. posting[r] => KeyUsed(req[r].key)'
    <3>1. posting[r] => EntryOf(r) \in journal' /\ EntryOf(r).key = req[r].key
      BY <1>5 DEF Commit, EntryOf
    <3> QED
      BY <2>1, <3>1 DEF KeyUsed
  <2>3. req[r].op \in MoneyOps => KeyUsed(req[r].key)'
    BY <1>0, <1>5, <2>1, <2>2 DEF Commit, DoneInv, KeyUsed
  <2> QED
    BY <1>0, <2>1, <2>3 DEF DoneInv, KeyUsed
<1>6. ASSUME NEW r \in Requests, SubjectRow(r) PROVE DoneInv'
  <2>1. /\ UNCHANGED <<journal, req, posting>>
        /\ \A s \in Requests \ {r} : pc'[s] = pc[s]
        /\ pc'[r] \in {"session", "holder", "grant"}
    BY <1>6, SubjectRowFacts
  <2> QED
    BY <2>1 DEF DoneInv, KeyUsed
<1> QED
  BY <1>1, <1>2, <1>3, <1>4, <1>5, <1>6, Cases

(***************************************************************************)
(* Every step keeps cached balances equal to the postings on accounts that *)
(* are never written from an out-of-date view.                             *)
(***************************************************************************)
LEMMA SyncStep == TypeInv /\ InSyncUnlessStale /\ [Next]_vars => InSyncUnlessStale'
<1> SUFFICES ASSUME TypeInv, InSyncUnlessStale, [Next]_vars PROVE InSyncUnlessStale'
  OBVIOUS
<1>1. CASE UNCHANGED <<balance, posted, stale>>
  BY <1>1 DEF InSyncUnlessStale
<1>2. ASSUME NEW r \in Requests, Commit(r), posting[r] PROVE InSyncUnlessStale'
  <2>1. req[r] \in Req /\ req[r].op # "start" /\ req[r].amt \in Int
    BY <1>2 DEF Commit, TypeInv, TypeOK, PostingControl, Req
  <2>2. EntryOf(r).amount \in Int
    BY <2>1, EntryFacts
  <2> SUFFICES ASSUME NEW a \in Accounts, a \notin stale' PROVE balance'[a] = posted'[a]
    BY DEF InSyncUnlessStale
  <2>3. /\ posted'[a] = posted[a] + Delta(EntryOf(r), a)
        /\ balance'[a] = IF a \in Lines(r) THEN view[r][a] + Delta(EntryOf(r), a) ELSE balance[a]
        /\ a \in Lines(r) => view[r][a] = balance[a]
        /\ balance[a] = posted[a]
        /\ balance[a] \in Int
    BY <1>2 DEF Commit, InSyncUnlessStale, TypeInv, TypeOK, LedgerAccounts
  <2>4. a \notin Lines(r) => Delta(EntryOf(r), a) = 0
    BY <2>2 DEF Lines, Delta
  <2> QED
    BY <2>3, <2>4
<1> QED
  BY <1>1, <1>2, Frame DEF table, InsertJournal, Rollback, Commit

(***************************************************************************)
(* What a request asked for never changes, nor does a finished request.    *)
(***************************************************************************)
LEMMA ReqStays ==
  ASSUME TypeInv, [Next]_vars, NEW r \in Requests, pc[r] # "idle"
  PROVE  /\ req'[r] = req[r]
         /\ seen'[r] \in {seen[r], status[req[r].src]}
         /\ pc[r] = "done" => pc'[r] = "done"
<1>1. ASSUME NEW s \in Requests, BeginTransfer(s) \/ BeginWithdraw(s) \/ BeginOnboarding(s)
      PROVE  req'[r] = req[r] /\ seen'[r] = seen[r] /\ pc'[r] = pc[r]
  <2>1. PICK q \in Req, ok \in BOOLEAN, l \in PCs : Arrival(s, q, ok, l)
    BY <1>1, Arrivals
  <2> QED
    BY <2>1 DEF Arrival, FirstStatement, Begin, Goto, TypeInv, TypeOK
<1>2. ASSUME NEW s \in Requests, Quiet(s)
      PROVE  req' = req /\ seen' = seen /\ (pc[r] = "done" => pc'[r] = "done")
  BY <1>2 DEF Quiet, LoadDest, LockRow, FindKey, InsertJournal, UpdateAccounts, KeepSession,
              CreateSession, EnsureWelcome, WriteStatus, Goto, TypeInv, TypeOK
<1>3. ASSUME NEW s \in Requests, RejectRequest(s) \/ DuplicateKey(s) \/ Crash(s) \/ DeadlockVictim(s)
      PROVE  req' = req /\ seen' = seen /\ (pc[r] = "done" => pc'[r] = "done")
  BY <1>3 DEF RejectRequest, DuplicateKey, Crash, DeadlockVictim, Rollback, Goto, Running,
              TypeInv, TypeOK
<1>4. ASSUME NEW s \in Requests, Commit(s)
      PROVE  req' = req /\ seen' = seen /\ (pc[r] = "done" => pc'[r] = "done")
  BY <1>4 DEF Commit, Goto, TypeInv, TypeOK
<1>5. CASE UNCHANGED vars
  BY <1>5 DEF vars
<1>6. ASSUME NEW s \in Requests, SubjectRow(s)
      PROVE  /\ req' = req /\ seen'[r] \in {seen[r], status[req[r].src]}
             /\ pc[r] = "done" => pc'[r] = "done"
  BY <1>6, SubjectRowFacts DEF TypeInv, TypeOK
<1> QED
  BY <1>1, <1>2, <1>3, <1>4, <1>5, <1>6 DEF Next, Step, Quiet, SubjectRow

(***************************************************************************)
(* Only a commit adds an entry, and it adds its own.                       *)
(***************************************************************************)
LEMMA EntryStep == TypeInv /\ EntryInv /\ [Next]_vars => EntryInv'
<1> SUFFICES ASSUME TypeInv, EntryInv, [Next]_vars PROVE EntryInv'
  OBVIOUS
<1>1. \A r \in Requests : pc[r] = "done" => pc'[r] = "done" /\ EntryOf(r)' = EntryOf(r)
  BY ReqStays DEF EntryOf
<1>2. CASE journal' = journal
  BY <1>1, <1>2 DEF EntryInv
<1>3. ASSUME NEW r \in Requests, Commit(r), posting[r] PROVE EntryInv'
  <2>1. journal' = journal \cup {EntryOf(r)} /\ EntryOf(r).by = r
    BY <1>3 DEF Commit, EntryOf
  <2>2. pc'[r] = "done" /\ EntryOf(r)' = EntryOf(r)
    BY <1>3 DEF Commit, Goto, EntryOf, TypeInv, TypeOK
  <2> QED
    BY <1>1, <2>1, <2>2 DEF EntryInv
<1> QED
  BY <1>2, <1>3, Frame DEF table, InsertJournal, Rollback, Commit

(***************************************************************************)
(* Only a commit of start takes an account's status back.                  *)
(***************************************************************************)
LEMMA OpenedStep == TypeInv /\ GrantInv /\ OpenedInv /\ [Next]_vars => OpenedInv'
<1> SUFFICES ASSUME TypeInv, GrantInv, OpenedInv, [Next]_vars PROVE OpenedInv'
  OBVIOUS
<1> DEFINE Open(a) == status[a] \in READY_STATUSES \/ Restarted(a)
           Told(r) == seen[r] \in READY_STATUSES \/ (pc[r] = "done" /\ req[r].op \in OpenOps)
<1>1. \A a : Granted(a) => Granted(a)'
  BY GrantedStays
<1>2. \A a : Restarted(a) => Restarted(a)'
  BY ReqStays DEF Restarted
<1>3. \A r \in Requests : pc[r] # "idle" /\ Told(r) => Open(req[r].src)
  BY DEF OpenedInv
<1>4. CASE status' = status /\ \A r \in Requests : pc[r] # "idle" => (pc'[r] = "done" => pc[r] = "done")
  <2>1. \A r \in Requests : pc[r] # "idle" =>
          /\ pc'[r] = "done" /\ req'[r].op \in OpenOps => Granted(req[r].src)'
          /\ Told(r)' => Open(req[r].src)'
    <3> SUFFICES ASSUME NEW r \in Requests, pc[r] # "idle"
                 PROVE  /\ pc'[r] = "done" /\ req'[r].op \in OpenOps => Granted(req[r].src)'
                        /\ Told(r)' => Open(req[r].src)'
      OBVIOUS
    <3>1. req'[r] = req[r] /\ seen'[r] \in {seen[r], status[req[r].src]} /\ (pc'[r] = "done" => pc[r] = "done")
      BY <1>4, ReqStays
    <3>2. pc'[r] = "done" /\ req'[r].op \in OpenOps => Granted(req[r].src)
      BY <3>1 DEF OpenedInv
    <3>3. Told(r)' => Open(req[r].src)
      BY <1>3, <3>1
    <3>4. \A a : Open(a) => status'[a] \in READY_STATUSES \/ Restarted(a)'
      BY <1>2, <1>4
    <3>5. Granted(req[r].src) => Granted(req[r].src)'
      BY <1>1, <3>1 DEF Granted
    <3> QED
      BY <1>3, <3>1, <3>2, <3>3, <3>4, <3>5 DEF Restarted
  <2>2. ASSUME NEW r \in Requests, pc[r] = "idle", pc'[r] # "idle"
        PROVE  pc'[r] # "done" /\ seen'[r] = status[req'[r].src]
    <3>1. BeginTransfer(r) \/ BeginWithdraw(r) \/ BeginOnboarding(r)
      <4>1. \A s \in Requests \ {r} :
              ~(BeginTransfer(s) \/ BeginWithdraw(s) \/ BeginOnboarding(s))
        BY <2>2, Arrivals DEF Arrival, Begin, Goto, TypeInv, TypeOK
      <4>2. ~\E s \in Requests : Quiet(s)
        BY <2>2 DEF Quiet, LoadDest, LockRow, FindKey, InsertJournal, UpdateAccounts, KeepSession,
                    CreateSession, EnsureWelcome, WriteStatus, Goto, TypeInv, TypeOK
      <4>3. ~\E s \in Requests : (Rollback(s) /\ pc[s] # "idle") \/ SubjectRow(s)
        BY <2>2, SubjectRowFacts DEF Rollback, Goto, TypeInv, TypeOK
      <4>4. ~\E s \in Requests : Commit(s)
        BY <2>2 DEF Commit, Goto, TypeInv, TypeOK
      <4> QED
        BY <2>2, <4>1, <4>2, <4>3, <4>4, Cases DEF vars
    <3>2. PICK q \in Req, ok \in BOOLEAN, l \in PCs : Arrival(r, q, ok, l)
      BY <3>1, Arrivals
    <3> QED
      BY <3>2 DEF Arrival, FirstStatement, Begin, Goto, TypeInv, TypeOK
  <2>3. \A r \in Requests : pc[r] = "idle" /\ pc'[r] # "idle" => (Told(r)' => Open(req[r].src)')
    BY <1>4, <2>2
  <2> QED
    BY <2>1, <2>2, <2>3 DEF OpenedInv
<1>5. ASSUME NEW r \in Requests, Commit(r) PROVE OpenedInv'
  <2> DEFINE a == req[r].src
  <2>1. pc[r] = "commit" /\ req' = req /\ seen' = seen /\ pc' = [pc EXCEPT ![r] = "done"]
        /\ status' = [status EXCEPT ![a] = IF WritesStatus(r) THEN NewStatus(r) ELSE @]
    BY <1>5 DEF Commit, Goto
  <2>2. req[r] \in Req /\ a \in Accounts /\ Running(r)
    BY <2>1 DEF TypeInv, TypeOK, Req, Running
  <2>3. \A b \in Accounts : Open(b) => Open(b)'
    <3> SUFFICES ASSUME NEW b \in Accounts, Open(b) PROVE Open(b)'
      OBVIOUS
    <3>1. CASE b = a /\ WritesStatus(r) /\ req[r].op = "start"
      BY <2>1, <3>1 DEF Restarted, TypeInv, TypeOK
    <3>2. CASE b = a /\ WritesStatus(r) /\ req[r].op # "start"
      <4>1. NewStatus(r) \in READY_STATUSES
        BY <2>2, <3>2 DEF WritesStatus, NewStatus, READY_STATUSES, Req, AllOps, MoneyOps
      <4> QED
        BY <2>1, <2>2, <3>2, <4>1 DEF TypeInv, TypeOK
    <3>3. CASE ~(b = a /\ WritesStatus(r))
      BY <1>2, <2>1, <3>3 DEF TypeInv, TypeOK
    <3> QED
      BY <3>1, <3>2, <3>3
  <2>4. req[r].op \in OpenOps => Open(a)'
    <3>1. CASE WritesStatus(r)
      BY <2>1, <2>2, <3>1 DEF NewStatus, READY_STATUSES, OpenOps, TypeInv, TypeOK
    <3>2. CASE ~WritesStatus(r) /\ req[r].op \in OpenOps
      <4>1. seen[r] \in READY_STATUSES
        BY <3>2 DEF WritesStatus, NewStatus, READY_STATUSES, OpenOps, MoneyOps
      <4> QED
        BY <1>3, <2>1, <2>2, <2>3, <4>1
    <3> QED
      BY <3>1, <3>2
  <2>5. req[r].op \in OpenOps => Granted(a)'
    <3>1. posting[r] /\ req[r].op \in OpenOps =>
            EntryOf(r) \in journal' /\ EntryOf(r).type = "welcome_grant" /\ EntryOf(r).credit = a
      BY <1>5, <2>2, EntryFacts DEF Commit, OpenOps
    <3>2. req[r].op \in OpenOps => posting[r] \/ Granted(a)
      BY <2>1, <2>2 DEF GrantInv
    <3>3. \A b : (\E e \in journal' : e.type = "welcome_grant" /\ e.credit = b) => Granted(b)'
      BY DEF Granted
    <3> QED
      BY <1>1, <2>1, <3>1, <3>2, <3>3
  <2>6. \A s \in Requests \ {r} : pc'[s] = pc[s]
    BY <2>1 DEF TypeInv, TypeOK
  <2>7. \A s \in Requests : pc[s] # "idle" => req[s].src \in Accounts
    BY DEF TypeInv, TypeOK, Req
  <2> QED
    BY <1>1, <1>3, <2>1, <2>3, <2>4, <2>5, <2>6, <2>7 DEF OpenedInv
<1>6. ASSUME NEW r \in Requests, BeginTransfer(r) \/ BeginWithdraw(r) \/ BeginOnboarding(r)
      PROVE  status' = status /\ \A s \in Requests : pc[s] # "idle" => pc'[s] = pc[s]
  BY <1>6, Arrivals DEF Arrival, Begin, Goto, table, TypeInv, TypeOK
<1>7. ASSUME NEW r \in Requests, Quiet(r) \/ Rollback(r)
      PROVE  status' = status /\ pc'[r] # "done" /\ \A s \in Requests \ {r} : pc'[s] = pc[s]
  BY <1>7 DEF Quiet, LoadDest, LockRow, FindKey, InsertJournal, UpdateAccounts, KeepSession,
              CreateSession, EnsureWelcome, WriteStatus, AfterSession, Rollback, Goto, table,
              TypeInv, TypeOK
<1>8. CASE UNCHANGED vars
  BY <1>4, <1>8 DEF vars, table
<1>9. ASSUME NEW r \in Requests, SubjectRow(r)
      PROVE  status' = status /\ pc'[r] # "done" /\ \A s \in Requests \ {r} : pc'[s] = pc[s]
  BY <1>9, SubjectRowFacts DEF TypeInv, TypeOK
<1> QED
  BY <1>4, <1>5, <1>6, <1>7, <1>8, <1>9, Cases

(***************************************************************************)
(* Every step keeps to the rows a request may have locked.                 *)
(***************************************************************************)
LEMMA HeldStep == TypeInv /\ HeldInv /\ [Next]_vars => HeldInv'
<1> SUFFICES ASSUME TypeInv, HeldInv, [Next]_vars PROVE HeldInv'
  OBVIOUS
<1> USE DEF Unlocked, ForUpdate
<1>0. /\ lock \in [Requests -> [Accounts -> Modes]]
      /\ \A s \in Requests : pc[s] # "idle" => req[s] \in Req
  BY DEF TypeInv, TypeOK
<1>1. ASSUME NEW r \in Requests, Held(r)',
             \A s \in Requests \ {r} : pc'[s] = pc[s] /\ lock'[s] = lock[s] /\ req'[s] = req[s]
      PROVE  HeldInv'
  <2>1. \A s \in Requests \ {r} : Held(s)'
    BY <1>1 DEF HeldInv, Held
  <2> QED
    BY <1>1, <2>1 DEF HeldInv
<1>2. ASSUME NEW r \in Requests, Rollback(r) \/ Commit(r) PROVE HeldInv'
  <2>1. /\ pc'[r] \in {"done", "failed"} /\ \A a \in Accounts : lock'[r][a] = 0
        /\ \A s \in Requests \ {r} : pc'[s] = pc[s] /\ lock'[s] = lock[s] /\ req'[s] = req[s]
    BY <1>0, <1>2 DEF Rollback, Commit, Goto, TypeInv, TypeOK
  <2> QED
    BY <1>1, <2>1 DEF Held
<1>3. ASSUME NEW r \in Requests, BeginTransfer(r) \/ BeginWithdraw(r) \/ BeginOnboarding(r)
      PROVE  HeldInv'
  <2>1. PICK q \in Req, ok \in BOOLEAN, l \in PCs : Arrival(r, q, ok, l)
    BY <1>3, Arrivals
  <2>2. /\ pc[r] = "idle" /\ lock' = lock /\ req'[r] = q
        /\ pc'[r] \in {"dest", "key", "session", "consent", "failed"} /\ (pc'[r] = "key" => q.op = "withdraw")
        /\ (pc'[r] = "consent" => q.op = "skip")
        /\ \A s \in Requests \ {r} : pc'[s] = pc[s] /\ lock'[s] = lock[s] /\ req'[s] = req[s]
    BY <2>1 DEF Arrival, FirstStatement, Begin, Goto, TypeInv, TypeOK
  <2>3. \A a \in Accounts : lock[r][a] = 0
    BY <2>2 DEF HeldInv, Held
  <2> QED
    BY <1>1, <2>2, <2>3 DEF Held
<1>4. ASSUME NEW r \in Requests, Quiet(r) PROVE HeldInv'
  <2>1. /\ req' = req /\ req[r] \in Req
        /\ \A s \in Requests \ {r} : pc'[s] = pc[s] /\ lock'[s] = lock[s] /\ req'[s] = req[s]
    BY <1>4 DEF Quiet, LoadDest, LockRow, FindKey, InsertJournal, UpdateAccounts, KeepSession,
                CreateSession, EnsureWelcome, WriteStatus, Goto, TypeInv, TypeOK
  <2>2. Held(r)
    BY DEF HeldInv
  <2>3. Held(r)'
    <3>1. CASE LoadDest(r)
      <4>1. pc[r] = "dest" /\ pc'[r] \in {"lock1", "failed"} /\ lock' = lock
        BY <3>1 DEF LoadDest, Goto, TypeInv, TypeOK
      <4> QED
        BY <2>1, <2>2, <4>1 DEF Held
    <3>2. CASE LockRow(r)
      <4>1. RowToLock(r) \in Accounts /\ req[r].src # req[r].dst /\ req[r].op = "transfer"
            /\ req[r].src \in Nat /\ req[r].dst \in Nat
        BY <2>1, <3>2, LedgerConstants DEF LockRow, RowToLock, Lesser, Greater, TypeInv, Control, Req
      <4>2. \A a \in Accounts : lock'[r][a] = IF a = RowToLock(r) THEN 3 ELSE lock[r][a]
        BY <1>0, <3>2, <4>1 DEF LockRow
      <4>3. CASE pc[r] = "lock1"
        <5>1. pc'[r] = "lock2"
          BY <3>2, <4>3 DEF LockRow, Goto, TypeInv, TypeOK
        <5> QED
          BY <2>1, <2>2, <4>2, <4>3, <5>1 DEF Held, RowToLock
      <4>4. CASE pc[r] = "lock2"
        <5>1. pc'[r] = "key"
          BY <3>2, <4>4 DEF LockRow, Goto, TypeInv, TypeOK
        <5>2. lock'[r][req[r].src] = 3 /\ lock'[r][req[r].dst] = 3
          BY <2>1, <2>2, <4>1, <4>2, <4>4 DEF Held, RowToLock, Lesser, Greater, Req
        <5> QED
          BY <2>1, <4>1, <5>1, <5>2 DEF Held
      <4> QED
        BY <3>2, <4>3, <4>4 DEF LockRow
    <3>3. CASE FindKey(r) \/ InsertJournal(r)
      <4>1. /\ pc[r] \in {"key", "insert"} /\ pc'[r] \in {"insert", "update", "commit"}
            /\ lock' = lock
        BY <3>3 DEF FindKey, InsertJournal, Goto, TypeInv, TypeOK
      <4> QED
        BY <2>1, <2>2, <4>1 DEF Held
    <3>4. CASE UpdateAccounts(r) \/ WriteStatus(r)
      <4>1. pc'[r] = "commit"
        BY <3>4 DEF UpdateAccounts, WriteStatus, Goto, TypeInv, TypeOK
      <4> QED
        BY <4>1 DEF Held
    <3>5. CASE KeepSession(r) \/ CreateSession(r)
      <4>1. /\ pc[r] = "session" /\ pc'[r] \in {"consent", "holder", "commit", "status"}
            /\ pc'[r] = "consent" => req[r].op = "complete"
        BY <3>5 DEF KeepSession, CreateSession, AfterSession, Goto, TypeInv, TypeOK
      <4>2. \A a \in Accounts : lock[r][a] = 0
        BY <2>2, <4>1 DEF Held
      <4>3. \A a \in Accounts : a # req[r].src => lock'[r][a] = lock[r][a]
        BY <1>0, <2>1, <3>5 DEF KeepSession, CreateSession, Req
      <4> QED
        BY <2>1, <4>1, <4>2, <4>3 DEF Held
    <3>6. CASE EnsureWelcome(r)
      <4>1. pc[r] = "grant" /\ pc'[r] \in {"key", "commit"} /\ req[r].op \in OpenOps
        BY <3>6 DEF EnsureWelcome, Goto, TypeInv, TypeOK, Control
      <4> QED
        BY <2>1, <4>1 DEF Held, OpenOps
    <3> QED
      BY <1>4, <3>1, <3>2, <3>3, <3>4, <3>5, <3>6 DEF Quiet
  <2> QED
    BY <1>1, <2>1, <2>3
<1>5. CASE UNCHANGED vars
  BY <1>5 DEF vars, HeldInv, Held
<1>6. ASSUME NEW r \in Requests, SubjectRow(r) PROVE HeldInv'
  <2>1. Held(r)
    BY DEF HeldInv
  <2>2. Held(r)'
    BY <1>6, <2>1, SubjectRowFacts DEF Held
  <2> QED
    BY <1>1, <1>6, <2>2, SubjectRowFacts DEF TypeInv, TypeOK
<1> QED
  BY <1>2, <1>3, <1>4, <1>5, <1>6, Cases

-----------------------------------------------------------------------------
(***************************************************************************)
(* The inductive invariant holds initially and is preserved.               *)
(***************************************************************************)
LEMMA InitIInv == Init => IInv
<1> SUFFICES ASSUME Init PROVE IInv
  OBVIOUS
<1>1. TypeInv
  BY InitType
<1>2. \A r \in Requests : pc[r] = "idle" /\ posting[r] = FALSE /\ \A a \in Accounts : lock[r][a] = 0 /\ view[r][a] = 0
  BY DEF Init, Unlocked
<1>3. \A e \in journal : e.type = "welcome_grant" /\ e.credit \in Accounts /\ e.key = WelcomeKey(e.credit)
                         /\ e = SeedEntry(e.credit)
  BY LedgerConstants DEF Init, SeedEntry
<1>4. \A a \in Opened : SeedEntry(a) \in journal /\ SeedEntry(a).type = "welcome_grant" /\ SeedEntry(a).credit = a
  BY DEF Init, SeedEntry
<1>5. KeyInv /\ GrantKeys
  BY <1>2, <1>3, WelcomeKeys DEF KeyInv, OneEntryPerKey, GrantKeys
<1>6. \A a \in Accounts : a \in Opened <=> Granted(a)
  <2>1. \A a \in Accounts : Granted(a) => a \in Opened
    BY DEF Init, Granted, SeedEntry
  <2> QED
    BY <1>4, <2>1 DEF Granted
<1>7. GrantInv
  BY <1>2, <1>6 DEF Init, GrantInv, ReadyIsGranted, Granted, READY_STATUSES, Running
<1>8. FreshInv
  BY <1>2, <1>6 DEF Init, FreshInv, Running
<1>9. FundsInv
  BY <1>2, LedgerConstants DEF Init, FundsInv, CachedNonNegative
<1>10. LockInv /\ LocksCompatible /\ DoneInv
  BY <1>2 DEF LockInv, LocksCompatible, DoneInv, Conflict
<1>11. InSyncUnlessStale
  BY LedgerConstants DEF Init, InSyncUnlessStale, LedgerAccounts
<1>12. EntryInv
  BY LedgerConstants DEF Init, SeedEntry, EntryInv
<1>13. OpenedInv
  BY <1>2 DEF OpenedInv
<1>14. HeldInv
  BY <1>2 DEF Init, HeldInv, Held
<1> QED
  BY <1>1, <1>5, <1>7, <1>8, <1>9, <1>10, <1>11, <1>12, <1>13, <1>14 DEF IInv

(***************************************************************************)
(* The inductive invariant is preserved by every step.                     *)
(***************************************************************************)
LEMMA StepIInv == IInv /\ [Next]_vars => IInv'
BY TypeStep, KeyStep, GrantKeysStep, GrantStep, FreshStep, FundsStep, LockStep, CompatibleStep,
   DoneStep, SyncStep, EntryStep, OpenedStep, HeldStep
DEF IInv

(***************************************************************************)
(* The inductive invariant holds in every reachable state of the ledger.   *)
(***************************************************************************)
THEOREM Inductive == Spec => []IInv
BY InitIInv, StepIInv, PTL DEF Spec

(***************************************************************************)
(* Every variable keeps its type (post, get_db and the services write only *)
(* well-formed rows).                                                      *)
(***************************************************************************)
THEOREM TypeCorrect == Spec => []TypeOK
<1>1. IInv => TypeOK
  BY DEF IInv, TypeInv
<1> QED
  BY <1>1, Inductive, PTL

(***************************************************************************)
(* LedgerService.post journals a key at most once, for any number of       *)
(* concurrent requests, retries and failures.                              *)
(***************************************************************************)
THEOREM KeysUnique == Spec => []OneEntryPerKey
<1>1. IInv => OneEntryPerKey
  BY DEF IInv, KeyInv
<1> QED
  BY <1>1, Inductive, PTL

(***************************************************************************)
(* Requests about to commit write different account rows.                  *)
(***************************************************************************)
THEOREM WritersExclude == Spec => []OneWriterPerRow
<1>1. IInv => OneWriterPerRow
  <2> SUFFICES ASSUME IInv, NEW r \in Requests, NEW s \in Requests, r # s,
                      pc[r] = "commit", pc[s] = "commit",
                      NEW a \in Writes(r), a \in Writes(s)
               PROVE  FALSE
    BY DEF OneWriterPerRow
  <2>1. a \in Accounts
    BY DEF Writes, Lines, WritesStatus, IInv, TypeInv, TypeOK, Control, Running, Req
  <2>2. lock[r][a] >= NoKeyUpdate /\ lock[s][a] >= NoKeyUpdate
    BY DEF Writes, IInv, LockInv
  <2>3. lock[r][a] \in 0..3 /\ lock[s][a] \in 0..3
    BY <2>1 DEF IInv, TypeInv, TypeOK, Modes
  <2>4. ~Conflict(lock[r][a], lock[s][a])
    BY <2>1 DEF IInv, LocksCompatible
  <2> QED
    BY <2>2, <2>3, <2>4 DEF Conflict, NoKeyUpdate
<1> QED
  BY <1>1, Inductive, PTL

(***************************************************************************)
(* _finish_account never leaves an account ready without its grant.        *)
(***************************************************************************)
THEOREM ReadyGranted == Spec => []ReadyIsGranted
<1>1. IInv => ReadyIsGranted
  BY DEF IInv, GrantInv
<1> QED
  BY <1>1, Inductive, PTL

(***************************************************************************)
(* _ensure_welcome never overwrites a balance changed since it was loaded. *)
(***************************************************************************)
THEOREM GrantsFresh == Spec => []GrantIsFresh
<1>1. IInv => GrantIsFresh
  <2> SUFFICES ASSUME IInv, NEW r \in Requests, pc[r] = "commit", posting[r], req[r].op \in OpenOps
               PROVE  view[r][req[r].src] = balance[req[r].src]
    BY DEF GrantIsFresh
  <2>1. req[r] \in Req /\ req[r].key = WelcomeKey(req[r].src) /\ Running(r) /\ req[r].src \in Accounts
    BY DEF IInv, TypeInv, TypeOK, Control, Running, MoneyOps, OpenOps, Req
  <2>2. ~KeyUsed(WelcomeKey(req[r].src))
    BY <2>1 DEF IInv, KeyInv
  <2>3. ~Granted(req[r].src)
    BY <2>2 DEF IInv, GrantKeys, Granted, KeyUsed
  <2> QED
    BY <2>1, <2>3 DEF IInv, FreshInv
<1> QED
  BY <1>1, Inductive, PTL

(***************************************************************************)
(* The cached balance respects the overdraft limit although the check of   *)
(* LedgerService.transfer and .withdraw reads a loaded value.              *)
(***************************************************************************)
THEOREM CacheNotOverdrawn == Spec => []CachedNonNegative
<1>1. IInv => CachedNonNegative
  BY DEF IInv, FundsInv
<1> QED
  BY <1>1, Inductive, PTL

(***************************************************************************)
(* A committed transfer or withdrawal has its key in the journal.          *)
(***************************************************************************)
THEOREM DoneJournaled == Spec => []DoneIsJournaled
<1>1. IInv => DoneIsJournaled
  BY DEF IInv, DoneInv, DoneIsJournaled, TypeInv, PostingControl
<1> QED
  BY <1>1, Inductive, PTL

(***************************************************************************)
(* Out-of-date views are the only source of drift between balance_cached   *)
(* and the postings.                                                       *)
(***************************************************************************)
THEOREM DriftOnlyFromStaleViews == Spec => []InSyncUnlessStale
<1>1. IInv => InSyncUnlessStale
  BY DEF IInv
<1> QED
  BY <1>1, Inductive, PTL

(***************************************************************************)
(* Account rows change only under an update lock that the same step ends.  *)
(***************************************************************************)
THEOREM WritesUnderLock == Spec => RowWritesLocked
<1> DEFINE A == \A a \in Accounts : balance'[a] # balance[a] \/ status'[a] # status[a] =>
                  \E r \in Requests : lock[r][a] >= NoKeyUpdate /\ lock'[r][a] = Unlocked
<1>1. IInv /\ [Next]_vars => A
  <2> SUFFICES ASSUME IInv, [Next]_vars, NEW a \in Accounts,
                      balance'[a] # balance[a] \/ status'[a] # status[a]
               PROVE  \E r \in Requests : lock[r][a] >= NoKeyUpdate /\ lock'[r][a] = Unlocked
    OBVIOUS
  <2>1. PICK r \in Requests : Commit(r)
    BY Frame DEF IInv, table, InsertJournal, Rollback
  <2>2. lock'[r][a] = Unlocked
    BY <2>1 DEF Commit, IInv, TypeInv, TypeOK
  <2>3. CASE balance'[a] # balance[a]
    <3>1. posting[r] /\ a \in Lines(r)
      BY <2>1, <2>3 DEF Commit, IInv, TypeInv, TypeOK
    <3> QED
      BY <2>1, <2>2, <3>1 DEF IInv, LockInv, Commit
  <2>4. CASE status'[a] # status[a]
    <3>1. a = req[r].src /\ WritesStatus(r)
      BY <2>1, <2>4 DEF Commit, IInv, TypeInv, TypeOK
    <3> QED
      BY <2>1, <2>2, <3>1 DEF IInv, LockInv, Commit
  <2> QED
    BY <2>3, <2>4
<1>2. IInv /\ [Next]_vars => [A]_vars
  BY <1>1
<1> QED
  BY <1>2, Inductive, PTL DEF Spec, RowWritesLocked

(***************************************************************************)
(* An opening that commits leaves its account ready, unless it had loaded  *)
(* the status it wanted to write and a start has committed on the account. *)
(***************************************************************************)
THEOREM OpenedStaysReady == Spec => OpenedIsReadyUnlessOvertaken
<1> DEFINE A == \A r \in Requests :
                  pc[r] = "commit" /\ pc'[r] = "done" /\ req[r].op \in OpenOps =>
                    \/ status'[req[r].src] \in READY_STATUSES
                    \/ /\ seen[r] = NewStatus(r)
                       /\ \E s \in Requests :
                            pc[s] = "done" /\ req[s].op = "start" /\ req[s].src = req[r].src
<1>1. IInv /\ [Next]_vars => A
  <2> SUFFICES ASSUME IInv, [Next]_vars, NEW r \in Requests,
                      pc[r] = "commit", pc'[r] = "done", req[r].op \in OpenOps
               PROVE  \/ status'[req[r].src] \in READY_STATUSES
                      \/ seen[r] = NewStatus(r) /\ Restarted(req[r].src)
    BY DEF Restarted
  <2>1. TypeInv /\ OpenedInv
    BY DEF IInv
  <2>2. req[r] \in Req /\ req[r].src \in Accounts
    BY <2>1 DEF TypeInv, TypeOK, Req
  <2>3. Commit(r)
    <3>1. ~UNCHANGED vars
      BY DEF vars
    <3>2. ~\E s \in Requests : BeginTransfer(s) \/ BeginWithdraw(s) \/ BeginOnboarding(s)
      BY <2>1, Arrivals DEF Arrival, Begin, Goto, TypeInv, TypeOK
    <3>3. ~\E s \in Requests : Quiet(s)
      BY <2>1 DEF Quiet, LoadDest, LockRow, FindKey, InsertJournal, UpdateAccounts, KeepSession,
                  CreateSession, EnsureWelcome, WriteStatus, AfterSession, Goto, TypeInv, TypeOK
    <3>4. ~\E s \in Requests : SubjectRow(s) \/ Rollback(s)
      BY <2>1, SubjectRowFacts DEF Rollback, Goto, TypeInv, TypeOK
    <3>5. \A s \in Requests : Commit(s) => s = r
      BY <2>1 DEF Commit, Goto, TypeInv, TypeOK
    <3> QED
      BY <3>1, <3>2, <3>3, <3>4, <3>5, Cases
  <2>4. NewStatus(r) \in READY_STATUSES
    BY DEF NewStatus, READY_STATUSES, OpenOps
  <2>5. CASE WritesStatus(r)
    BY <2>1, <2>2, <2>3, <2>4, <2>5 DEF Commit, TypeInv, TypeOK
  <2>6. CASE ~WritesStatus(r)
    <3>1. seen[r] = NewStatus(r)
      BY <2>6 DEF WritesStatus, OpenOps, MoneyOps
    <3>2. status[req[r].src] \in READY_STATUSES \/ Restarted(req[r].src)
      BY <2>1, <2>4, <3>1 DEF OpenedInv
    <3>3. status' = status
      BY <2>1, <2>2, <2>3, <2>6 DEF Commit, TypeInv, TypeOK
    <3> QED
      BY <3>1, <3>2, <3>3
  <2> QED
    BY <2>5, <2>6
<1>2. IInv /\ [Next]_vars => [A]_vars
  BY <1>1
<1> QED
  BY <1>2, Inductive, PTL DEF Spec, OpenedIsReadyUnlessOvertaken

(***************************************************************************)
(* The committed tables implement the append-only double-entry ledger: a   *)
(* commit that posts is one Post step, every other step a stutter.         *)
(***************************************************************************)
THEOREM Refinement == Spec => ImplementsDoubleEntry
<1>1. Init => DE!Init
  <2> SUFFICES ASSUME Init PROVE DE!Init
    OBVIOUS
  <2>1. IInv
    BY InitIInv
  <2> QED
    BY <2>1 DEF IInv, TypeInv, TypeOK, KeyInv, OneEntryPerKey, DE!Init
<1>2. IInv /\ [Next]_vars => [DE!Post]_<<journal, posted>>
  <2> SUFFICES ASSUME IInv, [Next]_vars PROVE [DE!Post]_<<journal, posted>>
    OBVIOUS
  <2>1. CASE UNCHANGED <<journal, posted>>
    BY <2>1
  <2>2. ASSUME NEW r \in Requests, Commit(r), posting[r] PROVE DE!Post
    <3>1. req[r] \in Req /\ req[r].op # "start" /\ req[r].amt > 0
          /\ (req[r].op = "transfer" => req[r].src # req[r].dst)
      BY <2>2 DEF Commit, IInv, TypeInv, TypeOK, Control, PostingControl, Running
    <3>2. EntryOf(r) \in Entry
      BY <3>1, EntryFacts
    <3>3. EntryOf(r).debit # EntryOf(r).credit
      BY <3>1, EntryFacts, LedgerConstants DEF Req, AllOps, OpenOps
    <3>4. \A f \in journal : f.key # EntryOf(r).key
      BY <2>2, <3>1, EntryFacts DEF IInv, KeyInv, KeyUsed
    <3>5. journal' = journal \cup {EntryOf(r)}
          /\ posted' = [x \in LedgerAccounts |-> posted[x] + Delta(EntryOf(r), x)]
      BY <2>2 DEF Commit
    <3> HIDE DEF EntryOf
    <3> QED
      BY <3>2, <3>3, <3>4, <3>5 DEF Entry, DE!Post, DE!Delta, Delta
  <2> QED
    BY <2>1, <2>2, Frame DEF IInv, table, InsertJournal, Rollback, Commit
<1> QED
  BY <1>1, <1>2, Inductive, PTL DEF Spec, ImplementsDoubleEntry, DE!Spec

-----------------------------------------------------------------------------
(***************************************************************************)
(* A finite set of numbers has a greatest element.                         *)
(***************************************************************************)
LEMMA Greatest ==
  ASSUME NEW G, G \subseteq Nat, IsFiniteSet(G), G # {}
  PROVE  \E a \in G : \A b \in G : b <= a
<1> DEFINE Above(a) == {b \in G : b > a}
           T == {Above(a) : a \in G}
<1>1. IsWellFoundedOn(StrictSubsetOrdering(G), FiniteSubsetsOf(G))
  BY FS_StrictSubsetOrderingWellFounded
<1>2. T \subseteq FiniteSubsetsOf(G)
  BY FS_FiniteSubsetsOfFinite
<1>3. T # {}
  OBVIOUS
<1> HIDE DEF T
<1>4. PICK x \in T : \A y \in T : ~(<<y, x>> \in StrictSubsetOrdering(G))
  BY <1>1, <1>2, <1>3, WFMin
<1>5. PICK a \in G : x = Above(a)
  BY <1>4 DEF T
<1>6. ASSUME NEW b \in G, b > a PROVE FALSE
  <2>1. Above(b) \in T
    BY DEF T
  <2>2. a \in Nat /\ b \in Nat /\ \A c \in G : c \in Nat
    BY <1>5, <1>6
  <2>3. \A c \in G : c > b => c > a
    BY <1>6, <2>2
  <2>4. Above(b) \subseteq Above(a) /\ b \in Above(a) /\ b \notin Above(b)
    <3>1. b > a /\ ~(b > b)
      BY <1>6, <2>2
    <3> QED
      BY <1>6, <2>3, <3>1, Zenon
  <2>5. <<Above(b), Above(a)>> \in StrictSubsetOrdering(G)
    BY <2>4 DEF StrictSubsetOrdering
  <2> QED
    BY <1>4, <1>5, <2>1, <2>5
<1> QED
  BY <1>6

(***************************************************************************)
(* Who is part of a waiting cycle of unrelated requests: a transfer that   *)
(* holds its lesser row and waits for another transfer with its greater.   *)
(***************************************************************************)
LEMMA OnlyTransfersWait ==
  ASSUME IInv, NEW S \in SUBSET Requests, Deadlocked(S),
         \A r, s \in S : r # s => ~Related(r, s)
  PROVE  \A r \in S : pc[r] = "lock2"
<1>1. TypeInv /\ HeldInv /\ LocksCompatible /\ LockInv
  BY DEF IInv
<1>2. \A s \in Requests, a \in Accounts : lock[s][a] \in 0..3
  BY <1>1 DEF TypeInv, TypeOK, Modes
<1>3. ASSUME NEW r \in S, NEW s \in S, WaitsFor(r, s)
      PROVE  \E w \in Wanted(r) : Conflict(w[2], lock[s][w[1]])
  <2>1. r # s /\ ~Related(r, s)
    BY <1>3 DEF WaitsFor
  <2>2. pc[r] \in SubjectRows => s \notin RowWriters(r)
    BY <1>1, <2>1 DEF RowWriters, Related, SubjectRows, TypeInv, Control, PostingControl
  <2> QED
    BY <1>3, <2>1, <2>2 DEF WaitsFor, KeyPending, Related
<1>4. ASSUME NEW r \in S PROVE req[r] \in Req /\ pc[r] \in {"lock1", "lock2", "update", "grant", "status"}
  <2>1. PICK s \in S : WaitsFor(r, s)
    BY DEF Deadlocked
  <2>2. Wanted(r) # {}
    BY <1>3, <2>1
  <2>3. pc[r] \in {"lock1", "lock2", "update", "grant", "status"}
    BY <2>2 DEF Wanted
  <2> QED
    BY <1>1, <2>3 DEF TypeInv, TypeOK
<1>5. ASSUME NEW r \in S PROVE \A w \in Wanted(r) : w[1] \in Accounts /\ w[2] \in {2, 3}
  <2>1. RowToLock(r) \in Accounts /\ req[r].src \in Accounts /\ Lines(r) \subseteq Accounts
    BY <1>4 DEF RowToLock, Lesser, Greater, Req, Lines
  <2> QED
    BY <1>4, <2>1 DEF Wanted, ForUpdate, NoKeyUpdate
<1>6. ASSUME NEW s \in S PROVE \E a \in Accounts : lock[s][a] # 0
  <2>1. PICK r \in S : WaitsFor(r, s)
    BY DEF Deadlocked
  <2>2. PICK w \in Wanted(r) : Conflict(w[2], lock[s][w[1]])
    BY <1>3, <2>1
  <2> QED
    BY <1>2, <1>5, <2>2 DEF Conflict
<1>7. ASSUME NEW r \in S PROVE pc[r] # "lock1"
  BY <1>1, <1>6 DEF HeldInv, Held, Unlocked
<1>8. ASSUME NEW r \in S PROVE pc[r] # "update"
  <2> SUFFICES ASSUME pc[r] = "update" PROVE FALSE
    OBVIOUS
  <2>1. PICK s \in S : WaitsFor(r, s)
    BY DEF Deadlocked
  <2>2. PICK w \in Wanted(r) : Conflict(w[2], lock[s][w[1]])
    BY <1>3, <2>1
  <2>3. PICK a \in Lines(r) : w = <<a, 2>>
    BY <2>2 DEF Wanted, NoKeyUpdate
  <2>4. Conflict(2, lock[s][a]) /\ a \in Accounts /\ s # r
    BY <2>1, <2>2, <2>3 DEF Lines, WaitsFor
  <2>5. lock[r][a] >= 2
    <3>1. req[r].op # "withdraw"
      BY <1>1, <1>6 DEF HeldInv, Held, Unlocked
    <3>2. CASE req[r].op = "transfer"
      <4>1. a \in {req[r].src, req[r].dst}
        BY <2>3, <3>2 DEF Lines, EntryOf, OpenOps
      <4> QED
        BY <1>1, <3>2, <4>1 DEF HeldInv, Held, ForUpdate
    <3>3. CASE req[r].op \in OpenOps
      <4>1. a = req[r].src
        BY <2>3, <2>4, <3>3, LedgerConstants DEF Lines, EntryOf, OpenOps
      <4> QED
        BY <1>1, <3>3, <4>1 DEF LockInv, NoKeyUpdate
    <3> QED
      BY <1>1, <1>4, <3>1, <3>2, <3>3 DEF TypeInv, Control, Req, AllOps, OpenOps, MoneyOps
  <2> QED
    BY <1>1, <1>2, <2>4, <2>5 DEF LocksCompatible, Conflict
<1>9. ASSUME NEW r \in S PROVE pc[r] \notin {"grant", "status"}
  <2> SUFFICES ASSUME pc[r] \in {"grant", "status"} PROVE FALSE
    OBVIOUS
  <2> DEFINE a == req[r].src
  <2>1. PICK s \in S : WaitsFor(r, s)
    BY DEF Deadlocked
  <2>2. PICK w \in Wanted(r) : Conflict(w[2], lock[s][w[1]])
    BY <1>3, <2>1
  <2>3. w[1] = a /\ a \in Accounts /\ s # r
    BY <1>4, <2>1, <2>2 DEF Wanted, Req, WaitsFor
  <2>4. lock[s][a] # 0
    BY <1>2, <1>5, <2>2, <2>3 DEF Conflict
  <2>5. lock[r][a] # 0
    BY <1>1, <1>6 DEF HeldInv, Held, Unlocked
  <2>6. CASE pc[s] \in {"grant", "status"}
    <3>1. req[s].src = a
      BY <1>1, <2>3, <2>4, <2>6 DEF HeldInv, Held, Unlocked
    <3>2. req[s].key = WelcomeKey(a) /\ req[r].key = WelcomeKey(a)
      BY <1>1, <2>6, <3>1 DEF TypeInv, Control, OpenOps, MoneyOps
    <3> QED
      BY <2>3, <3>2 DEF Related
  <2>7. CASE pc[s] = "lock2"
    <3>1. lock[s][a] = 3
      BY <1>1, <2>3, <2>4, <2>7 DEF HeldInv, Held, Unlocked, ForUpdate
    <3> QED
      BY <1>1, <1>2, <2>3, <2>5, <3>1 DEF LocksCompatible, Conflict
  <2> QED
    BY <1>4, <1>7, <1>8, <2>6, <2>7
<1> QED
  BY <1>4, <1>7, <1>8, <1>9

(***************************************************************************)
(* Because transfer locks its rows in the order of their ids, every cycle  *)
(* of waiting transactions contains two requests with one key, or two      *)
(* openings of accounts of one subject.                                    *)
(***************************************************************************)
THEOREM DeadlockFreeUnlessRelated == Spec => []DeadlockNeedsRelated
<1>1. ASSUME IInv PROVE DeadlockNeedsRelated
  <2> SUFFICES ASSUME NEW S \in SUBSET Requests, Deadlocked(S),
                      \A r, s \in S : r # s => ~Related(r, s)
               PROVE  FALSE
    BY DEF DeadlockNeedsRelated
  <2> DEFINE High(r) == Greater(req[r].src, req[r].dst)
             G == {High(r) : r \in S}
  <2>1. TypeInv /\ HeldInv
    BY <1>1 DEF IInv
  <2>2. \A r \in S : pc[r] = "lock2"
    BY <1>1, OnlyTransfersWait
  <2>3. \A r \in S : /\ req[r].src \in Accounts /\ req[r].dst \in Accounts
                    /\ req[r].src # req[r].dst
    BY <2>1, <2>2 DEF TypeInv, TypeOK, Control, Req
  <2>4. G \subseteq Accounts
    BY <2>3 DEF Greater
  <2>5. G \subseteq Nat /\ IsFiniteSet(G)
    BY <2>4, LedgerConstants, FS_Subset
  <2>6. G # {}
    BY DEF Deadlocked
  <2> HIDE DEF G
  <2>7. PICK g \in G : \A b \in G : b <= g
    BY <2>5, <2>6, Greatest
  <2>8. PICK r \in S : g = High(r)
    BY <2>7 DEF G
  <2>9. PICK s \in S : WaitsFor(r, s)
    BY DEF Deadlocked
  <2>10. s # r /\ Conflict(3, lock[s][High(r)])
    BY <2>2, <2>9 DEF WaitsFor, Wanted, RowToLock, ForUpdate, SubjectRows
  <2>11. High(r) = Lesser(req[s].src, req[s].dst)
    BY <2>1, <2>2, <2>4, <2>8, <2>10 DEF HeldInv, Held, Conflict, Unlocked, G
  <2>12. High(s) > High(r)
    <3>1. req[s].src \in Nat /\ req[s].dst \in Nat /\ req[s].src # req[s].dst
      BY <2>3, LedgerConstants
    <3> QED
      BY <2>11, <3>1 DEF Lesser, Greater
  <2>13. High(s) \in G /\ High(r) \in G
    BY DEF G
  <2> HIDE DEF High
  <2>14. High(s) \in Nat /\ High(r) \in Nat /\ High(s) <= High(r)
    BY <2>5, <2>7, <2>8, <2>13
  <2> QED
    BY <2>12, <2>14
<1> QED
  BY <1>1, Inductive, PTL

=============================================================================
