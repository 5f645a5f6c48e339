------------------------------- MODULE Ledger -------------------------------
(***************************************************************************)
(* The money-moving requests of the demo bank as concurrent database       *)
(* transactions: POST /me/transfer, /me/withdraw, /onboarding/complete,    *)
(* /onboarding/skip and /onboarding/start.  Every request runs in one      *)
(* transaction of PostgreSQL (READ COMMITTED, get_db), and one action      *)
(* stands for one statement the handler awaits; between two statements     *)
(* any other request may run.                                              *)
(*                                                                         *)
(* The SQLAlchemy session keeps one object per row for the whole request:  *)
(* a later SELECT, FOR UPDATE included, does not reload its attributes.    *)
(* view and seen are those attributes as they were when the row was first  *)
(* read.  The ledger_postings table is kept as its sum per ledger account, *)
(* which is all customer_balance reads.                                    *)
(***************************************************************************)
EXTENDS Integers, FiniteSets

CONSTANTS
  Accounts,   \* ids of the customers' checking accounts; sorted() orders them
  SysCash,    \* the ledger account sys_cash
  Keys,       \* idempotency keys the clients send
  Amounts,    \* amounts the clients ask for
  MaxAmount,  \* settings.max_transfer_amount, max_withdraw_amount
  Welcome,    \* settings.welcome_amount
  Requests,   \* requests the server receives, one transaction each
  Ops,        \* the endpoints in use
  Owner,      \* accounts.owner_subject
  Opened,     \* accounts opened before the behaviour starts
  Seed,       \* stands for the requests that opened them
  NoReq       \* a request that has not arrived

AllOps == {"transfer", "withdraw", "complete", "skip", "start"}
MoneyOps == {"transfer", "withdraw"}
OpenOps == {"complete", "skip"}

READY_STATUSES == {"completed", "skipped"}
Statuses == READY_STATUSES \cup {"in_progress"}

(***************************************************************************)
(* The key _ensure_welcome gives the grant of account a.                   *)
(***************************************************************************)
WelcomeKey(a) == <<"welcome", a>>

ASSUME LedgerConstants ==
  /\ Accounts \subseteq Nat /\ IsFiniteSet(Accounts)
  /\ SysCash \notin Accounts
  /\ Amounts \subseteq Int
  /\ MaxAmount \in Nat
  /\ Welcome \in Nat \ {0}
  /\ Ops \subseteq AllOps
  /\ Opened \subseteq Accounts
  /\ Seed \notin Requests
  /\ \A a \in Accounts : WelcomeKey(a) \notin Keys

LedgerAccounts == Accounts \cup {SysCash}
AllKeys == Keys \cup {WelcomeKey(a) : a \in Accounts}

(***************************************************************************)
(* Row-lock modes of PostgreSQL used here, numbered so that two modes      *)
(* conflict exactly when they add up to 4 or more: a foreign-key check     *)
(* takes KeyShare, UPDATE takes NoKeyUpdate, SELECT .. FOR UPDATE takes    *)
(* ForUpdate.                                                              *)
(***************************************************************************)
Unlocked == 0
KeyShare == 1
NoKeyUpdate == 2
ForUpdate == 3
Modes == 0..3

Conflict(m, n) == m + n >= 4

VARIABLES
  balance,  \* accounts.balance_cached
  status,   \* accounts.onboarding_status
  posted,   \* sum of ledger_postings per ledger account, credits - debits
  journal,  \* journal_entries, each with its two postings and transactions
  pc,       \* the statement each request is at
  req,      \* what the request asks for
  view,     \* balance_cached as the request's session loaded it
  seen,     \* onboarding_status as the request's session loaded it
  rows,     \* which of its subject's own rows the transaction has written
  lock,     \* strongest lock of the request's transaction on each account row
  posting,  \* whether the request's transaction has inserted its journal entry
  stale     \* history: accounts written from a view that was out of date

table == <<balance, status, posted, journal>>
vars == <<table, pc, req, view, seen, rows, lock, posting, stale>>

(***************************************************************************)
(* The rows a subject has once: its consents, written by INSERT under a    *)
(* unique constraint, and its holder.                                      *)
(***************************************************************************)
SubjectRows == {"consent", "holder"}

PCs == SubjectRows \cup
       {"idle", "dest", "lock1", "lock2", "session", "grant", "status", "key", "insert", "update", "commit", "done", "failed"}
Running(r) == pc[r] \notin {"idle", "done", "failed"}

Req == [op : AllOps, src : Accounts, dst : Accounts, amt : Int, key : AllKeys]
Entry == [by : Requests \cup {Seed}, key : AllKeys,
          type : {"transfer", "withdraw", "welcome_grant"},
          debit : LedgerAccounts, credit : LedgerAccounts, amount : Nat \ {0}]

\* Fault: the query for the demo_grant forgets the account.
GrantedAnyone(a) == \E e \in journal : e.type = "welcome_grant"

(***************************************************************************)
(* A Transaction row of type demo_grant exists for account a.              *)
(***************************************************************************)
Granted(a) == \E e \in journal : e.type = "welcome_grant" /\ e.credit = a

KeyUsed(k) == \E e \in journal : e.key = k

(***************************************************************************)
(* The journal entry of a request: transfer, withdraw and welcome_grant    *)
(* each post one debit and one credit line of the same amount.             *)
(***************************************************************************)
EntryOf(r) ==
  LET q == req[r] IN
  [by     |-> r,
   key    |-> q.key,
   type   |-> IF q.op \in OpenOps THEN "welcome_grant" ELSE q.op,
   debit  |-> IF q.op \in OpenOps THEN SysCash ELSE q.src,
   credit |-> IF q.op = "transfer" THEN q.dst
              ELSE IF q.op = "withdraw" THEN SysCash ELSE q.src,
   amount |-> q.amt]

Delta(e, x) ==
  (IF e.credit = x THEN e.amount ELSE 0) - (IF e.debit = x THEN e.amount ELSE 0)

\* Fault: only the debited account is updated.
LinesDebited(r) == {EntryOf(r).debit} \cap Accounts

(***************************************************************************)
(* The customer accounts on the lines of the entry: the rows post updates. *)
(***************************************************************************)
Lines(r) == {EntryOf(r).debit, EntryOf(r).credit} \cap Accounts

CanLock(r, a, m) == \A s \in Requests \ {r} : ~Conflict(m, lock[s][a])

Strongest(m, n) == IF m >= n THEN m ELSE n

\* Fault: no unique index on idempotency_key.
KeyPendingUnindexed(r) == {}

(***************************************************************************)
(* Another transaction has inserted the key and not committed: the unique  *)
(* index makes an INSERT of the same key wait for it.                      *)
(***************************************************************************)
KeyPending(r) == {s \in Requests \ {r} : posting[s] /\ req[s].key = req[r].key}

Lesser(a, b) == IF a < b THEN a ELSE b
Greater(a, b) == IF a < b THEN b ELSE a

-----------------------------------------------------------------------------
(***************************************************************************)
(* The database holds accounts that are drafts (create_draft_checking) or  *)
(* opened earlier, with their welcome grant.                               *)
(***************************************************************************)
SeedEntry(a) ==
  [by |-> Seed, key |-> WelcomeKey(a), type |-> "welcome_grant",
   debit |-> SysCash, credit |-> a, amount |-> Welcome]

Init ==
  /\ balance = [a \in Accounts |-> IF a \in Opened THEN Welcome ELSE 0]
  /\ status = [a \in Accounts |-> IF a \in Opened THEN "completed" ELSE "in_progress"]
  /\ posted = [x \in LedgerAccounts |->
                 IF x = SysCash THEN 0 - Welcome * Cardinality(Opened)
                 ELSE IF x \in Opened THEN Welcome ELSE 0]
  /\ journal = {SeedEntry(a) : a \in Opened}
  /\ pc = [r \in Requests |-> "idle"]
  /\ req = [r \in Requests |-> NoReq]
  /\ view = [r \in Requests |-> [a \in Accounts |-> 0]]
  /\ seen = [r \in Requests |-> "in_progress"]
  /\ rows = [r \in Requests |-> {}]
  /\ lock = [r \in Requests |-> [a \in Accounts |-> Unlocked]]
  /\ posting = [r \in Requests |-> FALSE]
  /\ stale = {}

(***************************************************************************)
(* Control of one request.                                                 *)
(***************************************************************************)
Goto(r, l) == pc' = [pc EXCEPT ![r] = l]

\* Fault: the transaction is abandoned without a rollback.
RollbackKeepsLocks(r) ==
  /\ Goto(r, "failed")
  /\ UNCHANGED <<table, req, view, seen, rows, lock, posting, stale>>

(***************************************************************************)
(* get_db: an exception rolls the transaction back and frees its locks.    *)
(***************************************************************************)
Rollback(r) ==
  /\ Goto(r, "failed")
  /\ rows' = [rows EXCEPT ![r] = {}]
  /\ lock' = [lock EXCEPT ![r] = [a \in Accounts |-> Unlocked]]
  /\ posting' = [posting EXCEPT ![r] = FALSE]
  /\ UNCHANGED <<table, req, view, seen, stale>>

(***************************************************************************)
(* The first SELECT of a request loads its account into the session;       *)
(* control goes to l when ok holds, and the request fails otherwise.       *)
(***************************************************************************)
Begin(r, q, ok, l) ==
  /\ pc[r] = "idle"
  /\ q.op \in Ops
  /\ req' = [req EXCEPT ![r] = q]
  /\ Goto(r, IF ok THEN l ELSE "failed")
  /\ view' = [view EXCEPT ![r][q.src] = balance[q.src]]
  /\ seen' = [seen EXCEPT ![r] = status[q.src]]
  /\ UNCHANGED <<table, rows, lock, posting, stale>>

ValidAmount(m) == m > 0 /\ m <= MaxAmount

BeginTransfer(r) ==
  \E s, d \in Accounts, m \in Amounts, k \in Keys :
    Begin(r, [op |-> "transfer", src |-> s, dst |-> d, amt |-> m, key |-> k],
          ValidAmount(m) /\ status[s] \in READY_STATUSES, "dest")

BeginWithdraw(r) ==
  \E s \in Accounts, m \in Amounts, k \in Keys :
    Begin(r, [op |-> "withdraw", src |-> s, dst |-> s, amt |-> m, key |-> k],
          ValidAmount(m) /\ status[s] \in READY_STATUSES, "key")

(***************************************************************************)
(* The order of the statements: skip records the consents before it looks  *)
(* for a session, complete after it, and start none; the holder's row      *)
(* comes before the account's lock.  The subject's users row is written    *)
(* before all of them, by a transaction that holds nothing yet.            *)
(***************************************************************************)
FirstStatement(o) == IF o = "skip" THEN "consent" ELSE "session"

BeginOnboarding(r) ==
  \E o \in OpenOps \cup {"start"}, a \in Accounts :
    Begin(r, [op |-> o, src |-> a, dst |-> a, amt |-> Welcome, key |-> WelcomeKey(a)],
          TRUE, FirstStatement(o))

-----------------------------------------------------------------------------
(***************************************************************************)
(* TransferService.transfer: load the destination, refuse the same account *)
(* and one that is not ready.                                              *)
(***************************************************************************)
LoadDest(r) ==
  LET d == req[r].dst IN
  /\ pc[r] = "dest"
  /\ Goto(r, IF d # req[r].src /\ status[d] \in READY_STATUSES THEN "lock1" ELSE "failed")
  /\ view' = [view EXCEPT ![r][d] = IF d = req[r].src THEN @ ELSE balance[d]]
  /\ UNCHANGED <<table, req, seen, rows, lock, posting, stale>>

\* Fault: the rows are locked origin first.
RowToLockUnsorted(r) == IF pc[r] = "lock1" THEN req[r].src ELSE req[r].dst

(***************************************************************************)
(* "Lock both rows in stable order": the lesser id first.  The locks are   *)
(* taken, the loaded attributes stay as they were.                         *)
(***************************************************************************)
RowToLock(r) ==
  IF pc[r] = "lock1" THEN Lesser(req[r].src, req[r].dst) ELSE Greater(req[r].src, req[r].dst)

LockRow(r) ==
  /\ pc[r] \in {"lock1", "lock2"}
  /\ CanLock(r, RowToLock(r), ForUpdate)
  /\ lock' = [lock EXCEPT ![r][RowToLock(r)] = ForUpdate]
  /\ Goto(r, IF pc[r] = "lock1" THEN "lock2" ELSE "key")
  /\ UNCHANGED <<table, req, view, seen, rows, posting, stale>>

\* Fault: the limit is compared off by one.
SufficientFundsOffByOne(r) ==
  req[r].op \in MoneyOps => view[r][req[r].src] - req[r].amt >= 0 - 1

(***************************************************************************)
(* LedgerService.transfer and .withdraw: the balance check, on the loaded  *)
(* balance and before the key is looked up.  overdraft_limit is 0.         *)
(***************************************************************************)
SufficientFunds(r) ==
  req[r].op \in MoneyOps => view[r][req[r].src] - req[r].amt >= 0

(***************************************************************************)
(* post: SELECT by idempotency key.  A hit raises IdempotentReplay, which  *)
(* transfer and _ensure_welcome swallow and withdraw does not.             *)
(***************************************************************************)
FindKey(r) ==
  /\ pc[r] = "key"
  /\ SufficientFunds(r)
  /\ \/ /\ ~KeyUsed(req[r].key)
        /\ Goto(r, "insert")
     \/ /\ KeyUsed(req[r].key)
        /\ req[r].op # "withdraw"
        /\ Goto(r, "commit")
  /\ UNCHANGED <<table, req, view, seen, rows, lock, posting, stale>>

RejectRequest(r) ==
  /\ pc[r] = "key"
  /\ \/ ~SufficientFunds(r)
     \/ KeyUsed(req[r].key) /\ req[r].op = "withdraw"
  /\ Rollback(r)

(***************************************************************************)
(* post: INSERT of the journal entry.  It waits for an uncommitted entry   *)
(* with the same key; a committed one is an IntegrityError, after which    *)
(* the session is unusable and the request fails.                          *)
(***************************************************************************)
InsertJournal(r) ==
  /\ pc[r] = "insert"
  /\ KeyPending(r) = {}
  /\ ~KeyUsed(req[r].key)
  /\ posting' = [posting EXCEPT ![r] = TRUE]
  /\ Goto(r, "update")
  /\ UNCHANGED <<table, req, view, seen, rows, lock, stale>>

DuplicateKey(r) ==
  /\ pc[r] = "insert"
  /\ KeyPending(r) = {}
  /\ KeyUsed(req[r].key)
  /\ Rollback(r)

(***************************************************************************)
(* post: postings, then UPDATE of the accounts on the lines (which takes   *)
(* their row locks, if the request does not hold them) and the mirrored    *)
(* transactions.                                                           *)
(***************************************************************************)
UpdateAccounts(r) ==
  /\ pc[r] = "update"
  /\ \A a \in Lines(r) : CanLock(r, a, NoKeyUpdate)
  /\ lock' = [lock EXCEPT ![r] =
                [a \in Accounts |-> IF a \in Lines(r) THEN Strongest(@[a], NoKeyUpdate) ELSE @[a]]]
  /\ Goto(r, "commit")
  /\ UNCHANGED <<table, req, view, seen, rows, posting, stale>>

-----------------------------------------------------------------------------
(***************************************************************************)
(* ensure_session: whether a new onboarding session is inserted depends on *)
(* sessions this module does not keep; the INSERT takes a KeyShare lock on *)
(* the account (its foreign key).                                          *)
(***************************************************************************)
AfterSession(r) ==
  CASE req[r].op = "complete" -> "consent"
    [] req[r].op = "skip" -> "holder"
    [] OTHER -> IF seen[r] = "in_progress" THEN "commit" ELSE "status"

KeepSession(r) ==
  /\ pc[r] = "session"
  /\ Goto(r, AfterSession(r))
  /\ UNCHANGED <<table, req, view, seen, rows, lock, posting, stale>>

CreateSession(r) ==
  /\ pc[r] = "session"
  /\ CanLock(r, req[r].src, KeyShare)
  /\ lock' = [lock EXCEPT ![r][req[r].src] = KeyShare]
  /\ Goto(r, AfterSession(r))
  /\ UNCHANGED <<table, req, view, seen, rows, posting, stale>>

(***************************************************************************)
(* record_consent and _upsert_holder.  Whether the row is written depends  *)
(* on its contents, which are Onboarding's; one that is written, by INSERT *)
(* or UPDATE, makes another transaction that writes it wait.               *)
(***************************************************************************)
AfterSubjectRow(r) ==
  CASE pc[r] = "holder" -> "grant"
    [] pc[r] = "consent" -> IF req[r].op = "skip" THEN "session" ELSE "holder"

RowWriters(r) ==
  {s \in Requests \ {r} : pc[r] \in rows[s] /\ Owner[req[s].src] = Owner[req[r].src]}

(***************************************************************************)
(* skip resolves its account only after its consents.                      *)
(***************************************************************************)
LoadAfterConsent(r) ==
  IF pc[r] = "consent" /\ req[r].op = "skip"
  THEN /\ view' = [view EXCEPT ![r][req[r].src] = balance[req[r].src]]
       /\ seen' = [seen EXCEPT ![r] = status[req[r].src]]
  ELSE UNCHANGED <<view, seen>>

KeepSubjectRow(r) ==
  /\ pc[r] \in SubjectRows
  /\ Goto(r, AfterSubjectRow(r))
  /\ LoadAfterConsent(r)
  /\ UNCHANGED <<table, req, rows, lock, posting, stale>>

WriteSubjectRow(r) ==
  /\ pc[r] \in SubjectRows
  /\ RowWriters(r) = {}
  /\ rows' = [rows EXCEPT ![r] = @ \cup {pc[r]}]
  /\ Goto(r, AfterSubjectRow(r))
  /\ LoadAfterConsent(r)
  /\ UNCHANGED <<table, req, lock, posting, stale>>

(***************************************************************************)
(* _ensure_welcome: lock the account row, then look for its demo_grant.    *)
(***************************************************************************)
EnsureWelcome(r) ==
  /\ pc[r] = "grant"
  /\ CanLock(r, req[r].src, ForUpdate)
  /\ lock' = [lock EXCEPT ![r][req[r].src] = ForUpdate]
  /\ Goto(r, IF Granted(req[r].src) THEN "commit" ELSE "key")
  /\ UNCHANGED <<table, req, view, seen, rows, posting, stale>>

(***************************************************************************)
(* start: onboarding_status = "in_progress" is written unless the session  *)
(* loaded that very value (no net change, no UPDATE).                      *)
(***************************************************************************)
WriteStatus(r) ==
  /\ pc[r] = "status"
  /\ CanLock(r, req[r].src, NoKeyUpdate)
  /\ lock' = [lock EXCEPT ![r][req[r].src] = NoKeyUpdate]
  /\ Goto(r, "commit")
  /\ UNCHANGED <<table, req, view, seen, rows, posting, stale>>

-----------------------------------------------------------------------------
(***************************************************************************)
(* The status a request leaves in its account.  As in start, setting the   *)
(* attribute to the value it was loaded with writes nothing.               *)
(***************************************************************************)
NewStatus(r) ==
  IF req[r].op = "complete" THEN "completed"
  ELSE IF req[r].op = "skip" THEN "skipped" ELSE "in_progress"

\* Fault: complete and skip pass over an account that was ready.
WritesStatusOnce(r) ==
  req[r].op \notin MoneyOps /\ seen[r] \notin (IF req[r].op = "start" THEN {"in_progress"} ELSE READY_STATUSES)

WritesStatus(r) == req[r].op \notin MoneyOps /\ seen[r] # NewStatus(r)

(***************************************************************************)
(* get_db commits: what the transaction wrote becomes visible, and its     *)
(* locks are freed.  The balances written are the loaded ones plus the     *)
(* entry's delta, whatever the rows hold by now.                           *)
(***************************************************************************)
Commit(r) ==
  LET e == EntryOf(r) IN
  /\ pc[r] = "commit"
  /\ IF posting[r]
     THEN /\ journal' = journal \cup {e}
          /\ posted' = [x \in LedgerAccounts |-> posted[x] + Delta(e, x)]
          /\ balance' = [a \in Accounts |->
                           IF a \in Lines(r) THEN view[r][a] + Delta(e, a) ELSE balance[a]]
          /\ stale' = stale \cup {a \in Lines(r) : view[r][a] # balance[a]}
     ELSE UNCHANGED <<journal, posted, balance, stale>>
  /\ status' = [status EXCEPT ![req[r].src] = IF WritesStatus(r) THEN NewStatus(r) ELSE @]
  /\ Goto(r, "done")
  /\ rows' = [rows EXCEPT ![r] = {}]
  /\ lock' = [lock EXCEPT ![r] = [a \in Accounts |-> Unlocked]]
  /\ posting' = [posting EXCEPT ![r] = FALSE]
  /\ UNCHANGED <<req, view, seen>>

(***************************************************************************)
(* The worker, the connection or the database dies before the commit.      *)
(***************************************************************************)
Crash(r) ==
  /\ Running(r)
  /\ Rollback(r)

-----------------------------------------------------------------------------
(***************************************************************************)
(* r waits for s: for a row lock, or for the outcome of an uncommitted key *)
(* or row of its subject.                                                  *)
(***************************************************************************)
Wanted(r) ==
  CASE pc[r] \in {"lock1", "lock2"} -> {<<RowToLock(r), ForUpdate>>}
    [] pc[r] = "update" -> Lines(r) \X {NoKeyUpdate}
    [] pc[r] = "grant" -> {<<req[r].src, ForUpdate>>}
    [] pc[r] = "status" -> {<<req[r].src, NoKeyUpdate>>}
    [] OTHER -> {}

WaitsFor(r, s) ==
  /\ s # r
  /\ \/ \E w \in Wanted(r) : Conflict(w[2], lock[s][w[1]])
     \/ pc[r] = "insert" /\ s \in KeyPending(r)
     \/ pc[r] \in SubjectRows /\ s \in RowWriters(r)

Deadlocked(S) ==
  /\ S # {}
  /\ \A r \in S : \E s \in S : WaitsFor(r, s)
  /\ \A s \in S : \E r \in S : WaitsFor(r, s)

(***************************************************************************)
(* PostgreSQL aborts a transaction of a waiting cycle.                     *)
(***************************************************************************)
DeadlockVictim(r) ==
  /\ Running(r)
  /\ \E S \in SUBSET Requests : r \in S /\ Deadlocked(S)
  /\ Rollback(r)

Step(r) ==
  \/ LoadDest(r) \/ LockRow(r)
  \/ FindKey(r) \/ RejectRequest(r) \/ InsertJournal(r) \/ DuplicateKey(r) \/ UpdateAccounts(r)
  \/ KeepSession(r) \/ CreateSession(r) \/ KeepSubjectRow(r) \/ WriteSubjectRow(r)
  \/ EnsureWelcome(r) \/ WriteStatus(r)
  \/ Commit(r)

Next ==
  \E r \in Requests :
    \/ BeginTransfer(r) \/ BeginWithdraw(r) \/ BeginOnboarding(r)
    \/ Step(r) \/ Crash(r) \/ DeadlockVictim(r)

Spec == Init /\ [][Next]_vars

(***************************************************************************)
(* A request that has begun is driven on by the event loop and the         *)
(* database, and a waiting cycle is broken by the deadlock detector.       *)
(* Nothing obliges a client to send, or a worker to crash.                 *)
(***************************************************************************)
Fairness == \A r \in Requests : WF_vars(Step(r)) /\ WF_vars(DeadlockVictim(r))

FairSpec == Spec /\ Fairness
-----------------------------------------------------------------------------
(***************************************************************************)
(* Properties.                                                             *)
(***************************************************************************)

(***************************************************************************)
(* Every variable holds values of its type.                                *)
(***************************************************************************)
TypeOK ==
  /\ balance \in [Accounts -> Int]
  /\ status \in [Accounts -> Statuses]
  /\ posted \in [LedgerAccounts -> Int]
  /\ journal \subseteq Entry
  /\ pc \in [Requests -> PCs]
  /\ req \in [Requests -> Req \cup {NoReq}]
  /\ \A r \in Requests : pc[r] # "idle" => req[r] \in Req
  /\ view \in [Requests -> [Accounts -> Int]]
  /\ seen \in [Requests -> Statuses]
  /\ rows \in [Requests -> SUBSET SubjectRows]
  /\ lock \in [Requests -> [Accounts -> Modes]]
  /\ posting \in [Requests -> BOOLEAN]
  /\ stale \subseteq Accounts

(***************************************************************************)
(* However requests with one key interleave, fail and are retried, at most *)
(* one journal entry carries the key: money moves once per key.            *)
(***************************************************************************)
OneEntryPerKey == \A e, f \in journal : e.key = f.key => e = f

(***************************************************************************)
(* The account rows a request writes when it commits.                      *)
(***************************************************************************)
Writes(r) ==
  (IF posting[r] THEN Lines(r) ELSE {}) \cup (IF WritesStatus(r) THEN {req[r].src} ELSE {})

(***************************************************************************)
(* Two requests that have executed all their statements never write the    *)
(* same account row, whichever of transfer's row locks, post's updates,    *)
(* the grant's lock and the status writes they went through: the commit of *)
(* one cannot undo that of the other (an outdated view still can).         *)
(***************************************************************************)
OneWriterPerRow ==
  \A r, s \in Requests :
    r # s /\ pc[r] = "commit" /\ pc[s] = "commit" => Writes(r) \cap Writes(s) = {}

(***************************************************************************)
(* An account that may move money has received its welcome grant, also     *)
(* when complete, skip and start run against it at once.                   *)
(***************************************************************************)
ReadyIsGranted ==
  \A a \in Accounts : status[a] \in READY_STATUSES =>
    \E e \in journal : e.type = "welcome_grant" /\ e.credit = a

(***************************************************************************)
(* balance_cached equals customer_balance (the sum of the postings) on     *)
(* every account that no request has written from an out-of-date view:     *)
(* stale views are the only way the two drift apart.                       *)
(***************************************************************************)
InSyncUnlessStale == \A a \in Accounts \ stale : balance[a] = posted[a]

(***************************************************************************)
(* The welcome grant never loses an update: although _ensure_welcome adds  *)
(* to a balance loaded before the lock, nothing can have changed it.       *)
(***************************************************************************)
GrantIsFresh ==
  \A r \in Requests :
    pc[r] = "commit" /\ posting[r] /\ req[r].op \in OpenOps
      => view[r][req[r].src] = balance[req[r].src]

(***************************************************************************)
(* balance_cached never falls below the overdraft limit of 0, even when    *)
(* the balance check ran on an out-of-date view.                           *)
(***************************************************************************)
CachedNonNegative == \A a \in Accounts : balance[a] >= 0

(***************************************************************************)
(* A transfer or withdrawal whose transaction committed, as a first        *)
(* execution or as a replay, has its key in the committed journal.         *)
(***************************************************************************)
DoneIsJournaled ==
  \A r \in Requests :
    pc[r] = "done" /\ req[r].op \in MoneyOps => KeyUsed(req[r].key)

(***************************************************************************)
(* Sorting the two rows of a transfer is enough against deadlock among     *)
(* strangers: a cycle of waiting transactions always contains two requests *)
(* for one key (for onboarding, one account), or two openings of accounts  *)
(* of one subject, which write that subject's consent and holder before    *)
(* they lock their account.                                                *)
(***************************************************************************)
Related(r, s) ==
  \/ req[r].key = req[s].key
  \/ req[r].op \in OpenOps /\ req[s].op \in OpenOps /\ Owner[req[r].src] = Owner[req[s].src]

DeadlockNeedsRelated ==
  \A S \in SUBSET Requests : Deadlocked(S) => \E r, s \in S : r # s /\ Related(r, s)

(***************************************************************************)
(* A row changes only in a step that ends a transaction holding an update  *)
(* lock on it.                                                             *)
(***************************************************************************)
RowWritesLocked ==
  [][\A a \in Accounts : balance'[a] # balance[a] \/ status'[a] # status[a] =>
       \E r \in Requests : lock[r][a] >= NoKeyUpdate /\ lock'[r][a] = Unlocked]_vars

(***************************************************************************)
(* A complete or skip that commits, and answers that it did, leaves its    *)
(* account ready, unless the account already had that status when it was   *)
(* loaded and a committed start has taken it back: the status assigned is  *)
(* then the one loaded, and no UPDATE is sent.                             *)
(***************************************************************************)
OpenedIsReadyUnlessOvertaken ==
  [][\A r \in Requests :
       pc[r] = "commit" /\ pc'[r] = "done" /\ req[r].op \in OpenOps =>
         \/ status'[req[r].src] \in READY_STATUSES
         \/ /\ seen[r] = NewStatus(r)
            /\ \E s \in Requests :
                 pc[s] = "done" /\ req[s].op = "start" /\ req[s].src = req[r].src]_vars

(***************************************************************************)
(* Every request that begins is answered: no request waits for ever for a  *)
(* row or a key.                                                           *)
(***************************************************************************)
Finishes == \A r \in Requests : Running(r) ~> pc[r] \in {"done", "failed"}

(***************************************************************************)
(* The committed tables implement the double-entry ledger.                 *)
(***************************************************************************)
DE == INSTANCE DoubleEntry
        WITH EntryKeys <- AllKeys, entries <- journal, net <- posted

ImplementsDoubleEntry == DE!Spec

(***************************************************************************)
(* "Keep customer checking balance_cached + legacy transactions in sync"   *)
(* (ledger.py, post): the cached balance is the sum of the postings.       *)
(***************************************************************************)
CachedInSync == \A a \in Accounts : balance[a] = posted[a]
=============================================================================
