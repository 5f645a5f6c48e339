----------------------------- MODULE Migrations -----------------------------
(***************************************************************************)
(* The Alembic revisions 0001 to 0011 as steps on the data: what upgrade   *)
(* and downgrade do to accounts, transactions, ledger, sessions and the    *)
(* number sequence, on PostgreSQL, with the application's writes between   *)
(* deployments.                                                            *)
(*                                                                         *)
(* env.py runs a command in one transaction, so a revision that fails      *)
(* leaves everything as it was: failing is not a step here, and `upgrade   *)
(* head` is a run of single steps.  Migrations run before the application  *)
(* starts ("alembic upgrade head && uvicorn").  A column that does not     *)
(* exist holds its default.  Tables no revision rewrites (holders,         *)
(* consents, documents, demo_grants, journal_entries) are left out.        *)
(***************************************************************************)
EXTENDS Integers, FiniteSets, FiniteSetsExt, Functions

CONSTANTS
  Keys,      \* accounts, in the order of their creation
  Subjects,
  None,      \* NULL
  High,      \* 100000, the first account number of revision 0004
  MaxSeq,    \* bound on the numbers drawn in vain
  Amounts,   \* amounts of deposits and starting balances
  MaxTxs,    \* bound on transactions
  MaxSessions,  \* bound on sessions
  MaxDowns   \* bound on downgrades

ASSUME MigrationConstants ==
  /\ Keys \subseteq Nat \ {0} /\ Keys # {} /\ IsFiniteSet(Keys) /\ None \notin Subjects
  /\ {High, MaxSeq, MaxTxs, MaxSessions, MaxDowns} \subseteq Nat /\ High > 1
  /\ Amounts \subseteq Int

VARIABLES
  rev,       \* alembic_version, 0 when there is none
  cols,      \* which of the columns that come and go accounts has
  accounts,  \* partial function from Keys to rows
  users,     \* partial function from Subjects to users.onboarding_status
  txs,       \* transactions
  ledger,    \* ids of ledger_accounts, sys_cash apart
  postings,  \* ids that ledger_postings refer to
  sessions,  \* onboarding_sessions
  seq,       \* next value of account_number_seq, 0 if there is no sequence
  downs,     \* downgrades so far
  astray,    \* history: accounts that had money when 0004 ran, or whose
             \* balance_cached was written from a value loaded earlier
  restarts   \* history: how often 0006 restarted the numbers

vars == <<rev, cols, accounts, users, txs, ledger, postings, sessions, seq, downs, astray, restarts>>

Statuses == {"not_started", "in_progress", "completed", "skipped"}
READY_STATUSES == {"completed", "skipped"}
NoId == <<"none", 0>>

Id(k) == <<accounts[k].form, k>>
Opened == DOMAIN accounts
Owned(s) == {k \in Opened : accounts[k].owner = s}
RowsOf(k) == {t \in txs : t.acct = Id(k)}
SumOf(k) == MapThenSumSet(LAMBDA t : t.amt, RowsOf(k))
Granted(k) == \E t \in RowsOf(k) : t.type = "demo_grant"
NextTx == IF txs = {} THEN 1 ELSE Max({t.n : t \in txs}) + 1
NextSession == IF sessions = {} THEN 1 ELSE Max({s.n : s \in sessions}) + 1
HasStatus == "onboarding_status" \in cols

NewAccount(form, s, num, status) ==
  [form |-> form, owner |-> s, num |-> num, balance |-> 0, cached |-> 0, status |-> status]

(***************************************************************************)
(* A database of revision 0001, from before or after balances were         *)
(* columns, with legacy accounts in it.                                    *)
(***************************************************************************)
Init ==
  /\ rev = 1
  /\ cols \in {{}, {"balance"}}
  /\ \E K \in SUBSET {Min(Keys)} : \E b \in [K -> Amounts \cup {0}] :
       /\ cols = {} => \A k \in K : b[k] = 0
       /\ accounts = [k \in K |-> [NewAccount("legacy", None, 0, "not_started") EXCEPT !.balance = b[k]]]
  /\ users = <<>> /\ txs = {} /\ ledger = {} /\ postings = {} /\ sessions = {}
  /\ seq = 0 /\ downs = 0 /\ astray = {} /\ restarts = 0

history == <<downs, astray, restarts>>
schema == <<rev, cols, history>>

SetAccounts(F(_)) == accounts' = [k \in Opened |-> F(accounts[k])]
To(n) == rev' = n
Up(n) == rev = n - 1 /\ To(n) /\ downs' = downs
Down(n) == rev = n /\ To(n - 1) /\ downs < MaxDowns /\ downs' = downs + 1

-----------------------------------------------------------------------------
(***************************************************************************)
(* 0001: empty tables, without a balance column; back, they are dropped    *)
(* with everything in them.                                                *)
(***************************************************************************)
Up0001 ==
  /\ Up(1)
  /\ UNCHANGED <<cols, accounts, users, txs, ledger, postings, sessions, seq, astray, restarts>>

Down0001 ==
  /\ Down(1)
  /\ cols' = {} /\ accounts' = <<>> /\ txs' = {}
  /\ UNCHANGED <<users, ledger, postings, sessions, seq, astray, restarts>>

(***************************************************************************)
(* 0002: a balance column becomes a deposit; back, the sum becomes the     *)
(* column and the transactions are deleted.                                *)
(***************************************************************************)
Up0002 ==
  /\ Up(2)
  /\ LET moved == {k \in Opened : "balance" \in cols /\ accounts[k].balance # 0} IN
     txs' = txs \cup {[n |-> NextTx + k, acct |-> Id(k), cp |-> NoId,
                       amt |-> accounts[k].balance, type |-> "deposit"] : k \in moved}
  /\ SetAccounts(LAMBDA a : [a EXCEPT !.balance = 0])
  /\ cols' = cols \ {"balance"}
  /\ UNCHANGED <<users, ledger, postings, sessions, seq, astray, restarts>>

\* Fault: the transactions are kept beside the sums.
Down0002Keeping ==
  /\ Down(2)
  /\ accounts' = [k \in Opened |-> [accounts[k] EXCEPT !.balance = SumOf(k)]]
  /\ cols' = cols \cup {"balance"}
  /\ UNCHANGED <<users, txs, ledger, postings, sessions, seq, astray, restarts>>

Down0002 ==
  /\ Down(2)
  /\ accounts' = [k \in Opened |-> [accounts[k] EXCEPT !.balance = SumOf(k)]]
  /\ cols' = cols \cup {"balance"}
  /\ txs' = {}
  /\ UNCHANGED <<users, ledger, postings, sessions, seq, astray, restarts>>

(***************************************************************************)
(* 0003: users, owners (unique per kind until 0007) and sessions.          *)
(***************************************************************************)
Up0003 ==
  /\ Up(3)
  /\ UNCHANGED <<cols, accounts, users, txs, ledger, postings, sessions, seq, astray, restarts>>

Down0003 ==
  /\ Down(3)
  /\ SetAccounts(LAMBDA a : [a EXCEPT !.owner = None])
  /\ users' = <<>> /\ sessions' = {}
  /\ UNCHANGED <<cols, txs, ledger, postings, seq, astray, restarts>>

\* Fault: the sequence starts at 1, its default.
Up0004Low ==
  /\ Up(4)
  /\ seq' = 1
  /\ astray' = {k \in Opened : SumOf(k) # 0}
  /\ UNCHANGED <<cols, accounts, users, txs, ledger, postings, sessions, restarts>>

(***************************************************************************)
(* 0004: numbers from a sequence, balance_cached at 0 on every row (not    *)
(* the sum of its transactions), an empty ledger.                          *)
(***************************************************************************)
Up0004 ==
  /\ Up(4)
  /\ seq' = High
  /\ astray' = {k \in Opened : SumOf(k) # 0}
  /\ UNCHANGED <<cols, accounts, users, txs, ledger, postings, sessions, restarts>>

Down0004 ==
  /\ Down(4)
  /\ SetAccounts(LAMBDA a : [a EXCEPT !.num = 0, !.cached = 0])
  /\ ledger' = {} /\ postings' = {} /\ seq' = 0
  /\ UNCHANGED <<cols, users, txs, sessions, astray, restarts>>

(***************************************************************************)
(* 0005: every chk_ id becomes a uuid, wherever it occurs.  The foreign    *)
(* key of ledger_postings is not dropped and is checked by the UPDATE that *)
(* precedes the one of ledger_accounts: a posting on a chk_ account makes  *)
(* the upgrade fail.                                                       *)
(***************************************************************************)
NewId(i) == IF i[1] = "chk" THEN <<"uuid", i[2]>> ELSE i

\* Fault: counterparties, which no foreign key protects, keep the old ids.
RemapTxOwnOnly(t) == [t EXCEPT !.acct = NewId(@)]

RemapTx(t) == [t EXCEPT !.acct = NewId(@), !.cp = NewId(@)]

Up0005 ==
  /\ Up(5)
  /\ \A i \in postings : NewId(i) = i
  /\ txs' = {RemapTx(t) : t \in txs}
  /\ ledger' = {NewId(i) : i \in ledger}
  /\ SetAccounts(LAMBDA a : [a EXCEPT !.form = IF @ = "chk" THEN "uuid" ELSE @])
  /\ UNCHANGED <<cols, users, postings, sessions, seq, astray, restarts>>

Down0005 ==
  /\ Down(5)
  /\ UNCHANGED <<cols, accounts, users, txs, ledger, postings, sessions, seq, astray, restarts>>

(***************************************************************************)
(* 0006: the numbers restart at 1; back, at 100000.                        *)
(***************************************************************************)
Up0006 ==
  /\ Up(6)
  /\ seq' = 1 /\ restarts' = restarts + 1
  /\ UNCHANGED <<cols, accounts, users, txs, ledger, postings, sessions, astray>>

Down0006 ==
  /\ Down(6)
  /\ seq' = High
  /\ UNCHANGED <<cols, accounts, users, txs, ledger, postings, sessions, astray, restarts>>

(***************************************************************************)
(* 0007: one account per owner and kind is no longer required; back, the   *)
(* constraint cannot be created while somebody has two.                    *)
(***************************************************************************)
OnePerOwner == \A s \in Subjects : Cardinality(Owned(s)) <= 1

Up0007 ==
  /\ Up(7)
  /\ UNCHANGED <<cols, accounts, users, txs, ledger, postings, sessions, seq, astray, restarts>>

Down0007 ==
  /\ Down(7)
  /\ OnePerOwner
  /\ UNCHANGED <<cols, accounts, users, txs, ledger, postings, sessions, seq, astray, restarts>>

(***************************************************************************)
(* 0008: the holder's status is copied to every account, and sessions are  *)
(* bound to the subject's oldest account, if there is one.                 *)
(***************************************************************************)
CopyStatus(a) == IF a.owner = None THEN a ELSE [a EXCEPT !.status = users[a.owner]]

OldestAccount(s) == IF Owned(s) = {} THEN NoId ELSE Id(Min(Owned(s)))

Up0008 ==
  /\ Up(8)
  /\ ~HasStatus
  /\ cols' = cols \cup {"onboarding_status"}
  /\ SetAccounts(CopyStatus)
  /\ sessions' = {[s EXCEPT !.acct = OldestAccount(s.subject)] : s \in sessions}
  /\ UNCHANGED <<users, txs, ledger, postings, seq, astray, restarts>>

DropStatus ==
  /\ cols' = cols \ {"onboarding_status"}
  /\ SetAccounts(LAMBDA a : [a EXCEPT !.status = "not_started"])

Down0008 ==
  /\ Down(8)
  /\ HasStatus
  /\ DropStatus
  /\ sessions' = {[s EXCEPT !.acct = NoId] : s \in sessions}
  /\ UNCHANGED <<users, txs, ledger, postings, seq, astray, restarts>>

(***************************************************************************)
(* 0009: refused while a session has no account.                           *)
(***************************************************************************)
Up0009 ==
  /\ Up(9)
  /\ \A s \in sessions : s.acct # NoId
  /\ UNCHANGED <<cols, accounts, users, txs, ledger, postings, sessions, seq, astray, restarts>>

Down0009 ==
  /\ Down(9)
  /\ UNCHANGED <<cols, accounts, users, txs, ledger, postings, sessions, seq, astray, restarts>>

(***************************************************************************)
(* 0010: the status column is added, and copied, if it is missing; back,   *)
(* it is dropped, also when it was 0008 that had added it.                 *)
(***************************************************************************)
Up0010 ==
  /\ Up(10)
  /\ IF HasStatus THEN UNCHANGED <<cols, accounts>>
     ELSE cols' = cols \cup {"onboarding_status"} /\ SetAccounts(CopyStatus)
  /\ UNCHANGED <<users, txs, ledger, postings, sessions, seq, astray, restarts>>

Down0010 ==
  /\ Down(10)
  /\ DropStatus
  /\ UNCHANGED <<users, txs, ledger, postings, sessions, seq, astray, restarts>>

(***************************************************************************)
(* 0011: an account that is not ready is made so if one of its sessions    *)
(* was finished or it was granted.                                         *)
(***************************************************************************)
Finished(k, how) == \E s \in sessions : s.acct = Id(k) /\ s.status = how

\* Fault: accounts not started are passed over.
FrozenInProgress(k) == accounts[k].status = "in_progress"

Frozen(k) == accounts[k].status \in {"not_started", "in_progress"}

Restored(k) ==
  CASE ~Frozen(k) -> accounts[k].status
    [] Frozen(k) /\ Finished(k, "approved_demo") -> "completed"
    [] Frozen(k) /\ ~Finished(k, "approved_demo") /\ (Finished(k, "skipped") \/ Granted(k)) -> "skipped"
    [] OTHER -> accounts[k].status

Up0011 ==
  /\ Up(11)
  /\ accounts' = [k \in Opened |-> [accounts[k] EXCEPT !.status = Restored(k)]]
  /\ UNCHANGED <<cols, users, txs, ledger, postings, sessions, seq, astray, restarts>>

Down0011 ==
  /\ Down(11)
  /\ UNCHANGED <<cols, accounts, users, txs, ledger, postings, sessions, seq, astray, restarts>>

(***************************************************************************)
(* "0008 was recorded as applied while SELECT still fails": the column may *)
(* be missing although the revision is 0008 or 0009.                       *)
(***************************************************************************)
Drift ==
  /\ rev \in {8, 9} /\ HasStatus
  /\ DropStatus
  /\ UNCHANGED <<rev, history, users, txs, ledger, postings, sessions, seq>>

-----------------------------------------------------------------------------
(***************************************************************************)
(* The application between deployments.  A posting inserts a transaction   *)
(* and, where they exist, keeps the ledger and balance_cached: the column  *)
(* is set to what the session holds, plus the amount.  That is the row, or *)
(* for a session that loaded it before it waited for the lock the row as   *)
(* it was before some of its transactions (which ones is Ledger's subject, *)
(* here it may be any).                                                    *)
(***************************************************************************)
Row(n, i, c, amt, type) == [n |-> n, acct |-> i, cp |-> c, amt |-> amt, type |-> type]

Loaded(k) ==
  {accounts[k].cached} \cup {MapThenSumSet(LAMBDA t : t.amt, T) : T \in SUBSET RowsOf(k)}
Stale(k, base) == IF rev >= 4 /\ base # accounts[k].cached THEN {k} ELSE {}

\* Fault: balance_cached is set to the amount instead of increased by it.
CachedSet(a, base, amt) == IF rev >= 4 THEN [a EXCEPT !.cached = amt] ELSE a

Cached(a, base, amt) == IF rev >= 4 THEN [a EXCEPT !.cached = base + amt] ELSE a
Booked(I) == IF rev >= 4 THEN I ELSE {}

(***************************************************************************)
(* record_transaction of a legacy deposit: no posting, and the row is read *)
(* under its lock.                                                         *)
(***************************************************************************)
Deposit ==
  \E k \in Opened, amt \in Amounts :
    /\ rev >= 2 /\ Cardinality(txs) < MaxTxs
    /\ txs' = txs \cup {Row(NextTx, Id(k), NoId, amt, "deposit")}
    /\ accounts' = [accounts EXCEPT ![k] = Cached(@, @.cached, amt)]
    /\ UNCHANGED <<schema, users, ledger, postings, sessions, seq>>

(***************************************************************************)
(* LedgerService.transfer between two accounts; cp is the other one.       *)
(***************************************************************************)
Transfer ==
  \E j, k \in Opened, amt \in Amounts : \E b \in Loaded(j), c \in Loaded(k) :
    /\ j # k /\ amt > 0
    /\ rev >= 2 /\ Cardinality(txs) + 1 < MaxTxs
    /\ txs' = txs \cup {Row(NextTx, Id(j), Id(k), 0 - amt, "transfer_out"),
                        Row(NextTx + 1, Id(k), Id(j), amt, "transfer_in")}
    /\ accounts' = [accounts EXCEPT ![j] = Cached(@, b, 0 - amt), ![k] = Cached(@, c, amt)]
    /\ astray' = astray \cup Stale(j, b) \cup Stale(k, c)
    /\ ledger' = ledger \cup Booked({Id(j), Id(k)})
    /\ postings' = postings \cup Booked({Id(j), Id(k)})
    /\ UNCHANGED <<rev, cols, downs, restarts, users, sessions, seq>>

NextKey == Min(Keys \ Opened)

(***************************************************************************)
(* Before 0008 the status was the holder's.  A subject signs up and may    *)
(* start a session; an account is opened with a chk_ id (a uuid from 0005) *)
(* and, from 0004, a number; it may be granted at once.                    *)
(***************************************************************************)
SignUp ==
  \E s \in Subjects, u \in Statuses, x \in {"draft", "approved_demo", "skipped", "none"} :
    /\ rev \in 3..7
    /\ users' = [t \in DOMAIN users \cup {s} |-> IF t = s THEN u ELSE users[t]]
    /\ sessions' = IF x = "none" \/ \E e \in sessions : e.subject = s THEN sessions
                   ELSE sessions \cup {[n |-> NextSession, subject |-> s, acct |-> NoId, status |-> x]}
    /\ UNCHANGED <<schema, accounts, txs, ledger, postings, seq>>

NumberTaken == seq # 0 /\ \E k \in Opened : accounts[k].num = seq
Draw == seq' = IF seq = 0 THEN 0 ELSE seq + 1

OpenWith(s, form, status) ==
  /\ Opened # Keys
  /\ ~NumberTaken
  /\ accounts' = [k \in Opened \cup {NextKey} |->
                    IF k = NextKey THEN NewAccount(form, s, seq, status) ELSE accounts[k]]
  /\ Draw

(***************************************************************************)
(* nextval is not rolled back: a number is gone when the unique index      *)
(* refuses it, or when what drew it fails later (a completion with invalid *)
(* holder data has opened its account before it validates).                *)
(***************************************************************************)
OpenFails ==
  /\ rev \in 4..7 \cup {11}
  /\ seq < MaxSeq
  /\ Draw
  /\ UNCHANGED <<schema, accounts, users, txs, ledger, postings, sessions>>

OpenBefore0008 ==
  \E s \in DOMAIN users :
    /\ rev \in 3..7 /\ (rev < 7 => Owned(s) = {})
    /\ OpenWith(s, IF rev < 5 THEN "chk" ELSE "uuid", "not_started")
    /\ UNCHANGED <<schema, users, txs, ledger, postings, sessions>>

(***************************************************************************)
(* create_draft_checking and ensure_session, for a subject without account *)
(* or, in open_additional_account, with a ready one.                       *)
(***************************************************************************)
OpenDraft ==
  \E s \in Subjects :
    /\ rev = 11 /\ Cardinality(sessions) < MaxSessions
    /\ Owned(s) = {} \/ \E k \in Owned(s) : accounts[k].status \in READY_STATUSES
    /\ OpenWith(s, "uuid", "in_progress")
    /\ users' = [t \in DOMAIN users \cup {s} |-> IF t \in DOMAIN users THEN users[t] ELSE "not_started"]
    /\ sessions' = sessions \cup {[n |-> NextSession, subject |-> s,
                                   acct |-> <<"uuid", NextKey>>, status |-> "draft"]}
    /\ UNCHANGED <<schema, txs, ledger, postings>>

(***************************************************************************)
(* ensure_session: a new one when the latest is finished or there is none. *)
(***************************************************************************)
EnsureSession(k) ==
  LET of == {s \in sessions : s.acct = Id(k)} IN
  IF \E s \in of : s.status = "draft" /\ \A t \in of : t.n <= s.n THEN sessions
  ELSE sessions \cup {[n |-> NextSession, subject |-> accounts[k].owner, acct |-> Id(k), status |-> "draft"]}

(***************************************************************************)
(* _ensure_welcome: granted once, by a session that holds base.            *)
(***************************************************************************)
Welcome(k, base) ==
  IF Granted(k) THEN UNCHANGED <<txs, ledger, postings, astray>>
  ELSE /\ Cardinality(txs) < MaxTxs
       /\ txs' = txs \cup {Row(NextTx, Id(k), NoId, 1, "demo_grant")}
       /\ ledger' = ledger \cup Booked({Id(k)})
       /\ postings' = postings \cup Booked({Id(k)})
       /\ astray' = astray \cup Stale(k, base)

Welcomed(k, base) == IF Granted(k) THEN accounts[k] ELSE Cached(accounts[k], base, 1)

GrantBefore0008 ==
  \E k \in Opened : \E base \in Loaded(k) :
    /\ rev \in 3..7 /\ accounts[k].owner # None
    /\ Welcome(k, base)
    /\ accounts' = [accounts EXCEPT ![k] = Welcomed(k, base)]
    /\ UNCHANGED <<rev, cols, downs, restarts, users, sessions, seq>>

(***************************************************************************)
(* complete and skip_and_open: a session, a number if there is none, the   *)
(* grant, the latest session's and the account's status.                   *)
(***************************************************************************)
Finish ==
  \E k \in Opened, how \in READY_STATUSES : \E base \in Loaded(k) :
    LET open == EnsureSession(k)
        last == Max({s.n : s \in {s \in open : s.acct = Id(k)}})
        end == IF how = "completed" THEN "approved_demo" ELSE "skipped"
        unnumbered == accounts[k].num = 0 IN
    /\ rev = 11 /\ accounts[k].owner # None
    /\ Cardinality(open) <= MaxSessions
    /\ unnumbered => ~NumberTaken
    /\ Welcome(k, base)
    /\ accounts' = [accounts EXCEPT
         ![k] = [Welcomed(k, base) EXCEPT !.status = how, !.num = IF unnumbered THEN seq ELSE @]]
    /\ IF unnumbered THEN Draw ELSE UNCHANGED seq
    /\ sessions' = {IF s.n = last THEN [s EXCEPT !.status = end] ELSE s : s \in open}
    /\ UNCHANGED <<rev, cols, downs, restarts, users>>

(***************************************************************************)
(* OnboardingService.start on an account.                                  *)
(***************************************************************************)
Restart ==
  \E k \in Opened :
    /\ rev = 11 /\ accounts[k].owner # None
    /\ Cardinality(EnsureSession(k)) <= MaxSessions
    /\ sessions' = EnsureSession(k)
    /\ accounts' = [accounts EXCEPT ![k].status = "in_progress"]
    /\ UNCHANGED <<schema, users, txs, ledger, postings, seq>>

-----------------------------------------------------------------------------
Upgrade ==
  \/ Up0001 \/ Up0002 \/ Up0003 \/ Up0004 \/ Up0005 \/ Up0006
  \/ Up0007 \/ Up0008 \/ Up0009 \/ Up0010 \/ Up0011

Downgrade ==
  \/ Down0001 \/ Down0002 \/ Down0003 \/ Down0004 \/ Down0005 \/ Down0006
  \/ Down0007 \/ Down0008 \/ Down0009 \/ Down0010 \/ Down0011

Next ==
  \/ Upgrade \/ Downgrade \/ Drift
  \/ Deposit \/ Transfer \/ SignUp \/ OpenBefore0008 \/ OpenDraft \/ OpenFails
  \/ GrantBefore0008 \/ Finish \/ Restart

Spec == Init /\ [][Next]_vars

-----------------------------------------------------------------------------
(***************************************************************************)
(* At every revision the data has the types and obeys the constraints of   *)
(* its schema, and refers only to what exists: transactions, counterparties*)
(* (which no foreign key protects), postings and sessions to accounts, a   *)
(* session to one of its subject's.                                        *)
(***************************************************************************)
SchemaHolds ==
  LET ids == {Id(k) : k \in Opened} IN
  /\ rev \in 0..11 /\ cols \subseteq {"balance", "onboarding_status"}
  /\ "balance" \in cols => rev = 1
  /\ Opened \subseteq Keys /\ DOMAIN users \subseteq Subjects
  /\ \A k \in Opened :
       /\ accounts[k].form \in {"legacy", "chk", "uuid"}
       /\ accounts[k].owner \in DOMAIN users \cup {None}
       /\ accounts[k].status \in Statuses
       /\ rev < 4 => accounts[k].num = 0
  /\ \A j, k \in Opened : j # k /\ accounts[j].num # 0 => accounts[j].num # accounts[k].num
  /\ rev \in 3..6 => OnePerOwner
  /\ rev >= 9 => \A s \in sessions : s.acct # NoId
  /\ \A t \in txs : t.acct \in ids /\ t.cp \in ids \cup {NoId}
  /\ postings \subseteq ledger /\ ledger \subseteq ids
  /\ \A s \in sessions : s.acct = NoId \/ \E k \in Owned(s.subject) : Id(k) = s.acct

Money(k) == accounts[k].balance + SumOf(k)

(***************************************************************************)
(* No revision, up or down, changes what an account is worth: its balance  *)
(* column and the sum of its transactions, whatever id it goes by.  Only   *)
(* the downgrade of 0001 does, which drops the tables.                     *)
(***************************************************************************)
MoneyPreserved ==
  [][rev' # rev /\ rev' # 0 =>
       /\ DOMAIN accounts' = DOMAIN accounts
       /\ \A k \in Opened : Money(k)' = Money(k)]_vars

(***************************************************************************)
(* balance_cached, which the application reads from 0004 on, is the sum of *)
(* the transactions of every account except those that had money when 0004 *)
(* added the column without filling it, and those the application has      *)
(* written from a value loaded earlier: no other revision, up or down and  *)
(* up again, puts the two apart.                                           *)
(***************************************************************************)
CachedIsSumUnlessAstray ==
  rev >= 4 => \A k \in Opened \ astray : accounts[k].cached = SumOf(k)

(***************************************************************************)
(* 0006 restarts the sequence below the numbers given out before.  As long *)
(* as it is applied only once, the next number is free until the sequence  *)
(* has come up to the old ones, however many numbers were drawn in vain.   *)
(***************************************************************************)
NumberFreeBelowHigh ==
  rev >= 6 /\ restarts = 1 /\ seq < High => \A k \in Opened : accounts[k].num # seq

(***************************************************************************)
(* Where the status column exists, no upgrade changes the status of a      *)
(* ready account, and it makes one ready only on the evidence of a grant   *)
(* or of a finished session.  "Restore ready onboarding_status for         *)
(* accounts that already received a grant": after 0011 all of them are,    *)
(* whichever of 0008, a drift, 0010 or a downgrade last wrote the column.  *)
(***************************************************************************)
ReadyByEvidence ==
  [][/\ rev' > rev /\ HasStatus =>
          \A k \in Opened :
            /\ accounts[k].status \in READY_STATUSES => accounts'[k].status = accounts[k].status
            /\ accounts'[k].status \in READY_STATUSES =>
                 \/ accounts[k].status \in READY_STATUSES
                 \/ Granted(k) \/ Finished(k, "approved_demo") \/ Finished(k, "skipped")
     /\ rev = 10 /\ rev' = 11 =>
          \A k \in Opened : Granted(k) => accounts'[k].status \in READY_STATUSES]_vars
=============================================================================
