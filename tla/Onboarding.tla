------------------------------ MODULE Onboarding ------------------------------
(***************************************************************************)
(* Onboarding of one subject: the /v1/onboarding routes and POST           *)
(* /v1/me/accounts as concurrent database transactions over the tables     *)
(* users, holders, consents, accounts, onboarding_sessions and             *)
(* onboarding_documents.                                                   *)
(*                                                                         *)
(* A request is the list of statements it still has to execute; what it    *)
(* writes becomes visible when it commits.  Two statements that insert the *)
(* same unique key wait for each other, and so do statements that lock the *)
(* same account row.  The welcome grant itself is in module Ledger.        *)
(***************************************************************************)
EXTENDS Integers, Sequences, FiniteSets

CONSTANTS
  Requests,     \* requests the server receives
  Ops,          \* the operations in use
  Pasts,        \* the statuses of the accounts a subject may start with, by number
  MaxNumber,    \* bound on the account numbers drawn
  MaxAccounts,  \* settings.max_checking_accounts_per_user
  NoAccount     \* no account_id in the request

Policies == {"TOS", "DD", "DD_SKIP"}
OpenOps == {"complete", "skip"}
OnboardingOps == OpenOps \cup {"start", "document"}
AllOps == OnboardingOps \cup {"status", "consent", "open_additional"}

Numbers == 1..MaxNumber
READY_STATUSES == {"completed", "skipped"}
INCOMPLETE_STATUSES == {"not_started", "in_progress"}
Statuses == READY_STATUSES \cup INCOMPLETE_STATUSES

ASSUME OnboardingConstants ==
  /\ Ops \subseteq AllOps
  /\ MaxNumber \in Nat /\ MaxAccounts \in Nat
  /\ \A past \in Pasts : past \in Seq(Statuses) /\ Len(past) <= MaxNumber
  /\ NoAccount \notin Numbers

(***************************************************************************)
(* Rows the subject has at most one of: users, holders, and one consent    *)
(* per policy.                                                             *)
(***************************************************************************)
Rows == {"user", "holder"} \cup Policies
Session == [acct : Numbers, at : Nat, status : {"draft", "skipped", "approved_demo"}]

VARIABLES
  rows,      \* those rows that are committed
  profile,   \* holders: the data of a skipped or of a completed onboarding
  acc,       \* accounts: onboarding_status by account number
  sessions,  \* onboarding_sessions; at is created_at, the start of the transaction
  docs,      \* sessions that have documents, by account and time
  seq,       \* account_number_seq
  clock,     \* counts the transactions begun
  tx         \* the state of each request

tables == <<rows, profile, acc, sessions, docs>>
vars == <<tables, seq, clock, tx>>

None == "none"

(***************************************************************************)
(* The statements of each handler, in order.  The commit follows the last. *)
(***************************************************************************)
Ensure(row) == <<"ensure", row>>
Do(step) == <<step, None>>

\* Fault: complete records the terms after the holder.
ProgramHolderFirst(op, policy) ==
  CASE op = "complete" -> <<Ensure("user"), Do("resolve"), Do("session"), Do("validate"),
                            Do("holder"), Ensure("TOS"), Do("welcome"), Do("finish")>>
    [] op = "skip"     -> <<Ensure("user"), Ensure("DD_SKIP"), Ensure("TOS"), Do("resolve"),
                            Do("session"), Do("peek"), Do("holder"), Do("welcome"), Do("finish")>>
    [] op = "start"    -> <<Ensure("user"), Do("resolve"), Do("session"), Do("finish")>>
    [] op = "document" -> <<Ensure("user"), Do("resolve"), Do("session"), Do("finish")>>
    [] op = "status"   -> <<Ensure("user"), Do("resolve")>>
    [] op = "consent"  -> <<Ensure("user"), Do("validate"), Ensure(policy)>>
    [] op = "open_additional" -> <<Do("limit"), Do("create"), Do("session")>>

Program(op, policy) ==
  CASE op = "complete" -> <<Ensure("user"), Do("resolve"), Do("session"), Do("validate"),
                            Ensure("TOS"), Do("holder"), Do("welcome"), Do("finish")>>
    [] op = "skip"     -> <<Ensure("user"), Ensure("DD_SKIP"), Ensure("TOS"), Do("resolve"),
                            Do("session"), Do("peek"), Do("holder"), Do("welcome"), Do("finish")>>
    [] op = "start"    -> <<Ensure("user"), Do("resolve"), Do("session"), Do("finish")>>
    [] op = "document" -> <<Ensure("user"), Do("resolve"), Do("session"), Do("finish")>>
    [] op = "status"   -> <<Ensure("user"), Do("resolve")>>
    [] op = "consent"  -> <<Ensure("user"), Do("validate"), Ensure(policy)>>
    [] op = "open_additional" -> <<Do("limit"), Do("create"), Do("session")>>

(***************************************************************************)
(* A request before it arrives, and with nothing written.                  *)
(***************************************************************************)
NoSession == [acct |-> 0, at |-> 0]
Blank ==
  [res |-> "idle", op |-> None, target |-> NoAccount, todo |-> <<>>, at |-> 0,
   acct |-> 0,          \* the account the request works on
   seen |-> None,       \* its onboarding_status when it was loaded
   new |-> FALSE,       \* the request has inserted that account
   lock |-> 0,          \* its strongest lock on that account's row
   ins |-> {},          \* unique rows it has inserted or updated
   know |-> None,       \* the holder as skip_and_open read it
   prof |-> None,       \* holder data to write
   ses |-> NoSession,   \* the session of ensure_session
   mine |-> FALSE,      \* the request has inserted that session
   fin |-> NoSession,   \* the session whose status it writes
   st |-> None,         \* onboarding_status to write
   doc |-> FALSE]       \* it has inserted a document

(***************************************************************************)
(* Row locks, numbered as in Ledger: two of them conflict if they add up   *)
(* to 4 or more.  A foreign key check takes KeyShare, UPDATE NoKeyUpdate,  *)
(* SELECT .. FOR UPDATE ForUpdate.                                         *)
(***************************************************************************)
KeyShare == 1
NoKeyUpdate == 2
ForUpdate == 3
Lockers(r, m) ==
  {s \in Requests \ {r} : tx[s].acct = tx[r].acct /\ m + tx[s].lock >= 4}
Strongest(m, n) == IF m >= n THEN m ELSE n

Running(r) == tx[r].res = "running"
At(r, step) == Running(r) /\ tx[r].todo # <<>> /\ Head(tx[r].todo)[1] = step
Rest(r) == Tail(tx[r].todo)

Existing == {a \in Numbers : acc[a] # None}
Key(s) == [acct |-> s.acct, at |-> s.at]

(***************************************************************************)
(* The account the request has inserted, and its session, are visible to   *)
(* it before they are committed.                                           *)
(***************************************************************************)
VisibleSessions(r) ==
  sessions \cup (IF tx[r].mine THEN {[acct |-> tx[r].ses.acct, at |-> tx[r].ses.at, status |-> "draft"]}
                 ELSE {})

\* Fault: sessions are looked up by subject only.
LatestOfSubject(r, a) ==
  {s \in VisibleSessions(r) : \A t \in VisibleSessions(r) : t.at <= s.at}

(***************************************************************************)
(* latest_session: ORDER BY created_at DESC LIMIT 1.                       *)
(***************************************************************************)
Latest(r, a) ==
  {s \in VisibleSessions(r) :
     s.acct = a /\ \A t \in VisibleSessions(r) : t.acct = a => t.at <= s.at}

-----------------------------------------------------------------------------
\* The session an account of that status was left with.
LeftSession(st) ==
  CASE st = "completed" -> "approved_demo" [] st = "skipped" -> "skipped" [] OTHER -> "draft"

(***************************************************************************)
(* Accounts opened or drafted by earlier requests, with the rows these     *)
(* have left; without any, the subject may still have a users row.  An     *)
(* account is not_started where a migration (0008, 0010) or the column's   *)
(* default has set its status; it may have no session then.                *)
(***************************************************************************)
Init ==
  \E past \in Pasts :
    LET had(st) == \E a \in DOMAIN past : past[a] = st
        left == {[acct |-> a, at |-> 0, status |-> LeftSession(past[a])] : a \in DOMAIN past}
    IN
    /\ acc = [a \in Numbers |-> IF a \in DOMAIN past THEN past[a] ELSE None]
    /\ rows \in {(IF past # <<>> THEN {"user"} ELSE u)
                   \cup (IF had("completed") \/ had("skipped") THEN {"holder", "TOS"} ELSE {})
                   \cup (IF had("skipped") THEN {"DD_SKIP"} ELSE {}) : u \in {{}, {"user"}}}
    /\ profile = IF had("completed") THEN "full" ELSE IF had("skipped") THEN "basic" ELSE None
    /\ sessions \in {left, {s \in left : past[s.acct] # "not_started"}}
    /\ docs = {}
    /\ seq = Len(past) + 1
    /\ clock = 1
    /\ tx = [r \in Requests |-> Blank]

Begin(r) ==
  \E op \in Ops, t \in Numbers \cup {NoAccount}, p \in Policies :
    /\ tx[r].res = "idle"
    /\ op \notin OnboardingOps \cup {"status"} => t = NoAccount
    /\ op # "consent" => p = "TOS"
    /\ tx' = [tx EXCEPT ![r].res = "running", ![r].op = op, ![r].target = t,
                        ![r].todo = Program(op, p), ![r].at = clock]
    /\ clock' = clock + 1
    /\ UNCHANGED <<tables, seq>>

\* Fault: the transaction is left open.
RollbackKeepsRows(r) ==
  /\ tx' = [tx EXCEPT ![r].res = "failed"]
  /\ UNCHANGED <<tables, seq, clock>>

(***************************************************************************)
(* get_db: an exception rolls the transaction back; the sequence keeps     *)
(* the number drawn.                                                       *)
(***************************************************************************)
Rollback(r) ==
  /\ tx' = [tx EXCEPT ![r] = [Blank EXCEPT !.res = "failed", !.op = tx[r].op]]
  /\ UNCHANGED <<tables, seq, clock>>

Stay == UNCHANGED <<tables, seq, clock>>

\* Fault: record_consent is satisfied with a consent to any policy.
SelectRowAnyConsent(r) ==
  LET k == Head(tx[r].todo)[2]
      found == rows \cup tx[r].ins IN
  /\ At(r, "ensure")
  /\ tx' = [tx EXCEPT ![r].todo =
              IF k \in found \/ (k \in Policies /\ Policies \cap found # {}) THEN Rest(r)
              ELSE <<<<"insert", k>>>> \o Rest(r)]
  /\ Stay

-----------------------------------------------------------------------------
(***************************************************************************)
(* upsert of the user and record_consent: SELECT, then INSERT if there was *)
(* no row.  (An existing user's e-mail and name are not modelled.)         *)
(***************************************************************************)
SelectRow(r) ==
  LET k == Head(tx[r].todo)[2] IN
  /\ At(r, "ensure")
  /\ tx' = [tx EXCEPT ![r].todo =
              IF k \in rows \cup tx[r].ins THEN Rest(r) ELSE <<<<"insert", k>>>> \o Rest(r)]
  /\ Stay

(***************************************************************************)
(* Others that have written row k and not committed.                       *)
(***************************************************************************)
Pending(r, k) == {s \in Requests \ {r} : k \in tx[s].ins}

InsertRow(r) ==
  LET k == Head(tx[r].todo)[2] IN
  /\ At(r, "insert")
  /\ Pending(r, k) = {}
  /\ \/ /\ k \notin rows
        /\ tx' = [tx EXCEPT ![r].ins = @ \cup {k}, ![r].todo = Rest(r)]
        /\ Stay
     \/ /\ k \in rows
        /\ Rollback(r)

(***************************************************************************)
(* resolve_onboarding_account.                                             *)
(***************************************************************************)
UseAccount(r) ==
  LET a == tx[r].target IN
  /\ At(r, "resolve")
  /\ a \in Existing
  /\ tx' = [tx EXCEPT ![r].acct = a, ![r].seen = acc[a], ![r].todo = Rest(r)]
  /\ Stay

RefuseAccount(r) ==
  /\ At(r, "resolve")
  /\ IF tx[r].target = NoAccount THEN Existing # {} ELSE tx[r].target \notin Existing
  /\ Rollback(r)

NoAccountYet(r) ==
  /\ At(r, "resolve")
  /\ tx[r].target = NoAccount
  /\ Existing = {}
  /\ tx' = [tx EXCEPT ![r].todo =
              IF tx[r].op = "status" THEN <<>> ELSE <<Do("create")>> \o Rest(r)]
  /\ Stay

(***************************************************************************)
(* next_identity: nextval of the sequence, which no rollback takes back.   *)
(***************************************************************************)
NextNumber == seq

(***************************************************************************)
(* create_draft_checking: draw the number, insert the account.             *)
(***************************************************************************)
CreateDraft(r) ==
  /\ At(r, "create")
  /\ NextNumber <= MaxNumber
  /\ tx' = [tx EXCEPT ![r].acct = NextNumber, ![r].seen = "in_progress", ![r].new = TRUE,
                      ![r].todo = Rest(r)]
  /\ seq' = seq + 1
  /\ UNCHANGED <<tables, clock>>

BelowLimit == Cardinality(Existing) < MaxAccounts

(***************************************************************************)
(* open_additional_account: an account must be ready, the holder known and *)
(* the limit not reached.                                                  *)
(***************************************************************************)
MayOpen ==
  /\ \E a \in Existing : acc[a] \in READY_STATUSES
  /\ "holder" \in rows
  /\ BelowLimit

CheckLimit(r) ==
  /\ At(r, "limit")
  /\ \/ /\ MayOpen
        /\ tx' = [tx EXCEPT ![r].todo = Rest(r)]
        /\ Stay
     \/ /\ ~MayOpen
        /\ Rollback(r)

(***************************************************************************)
(* ensure_session: reuse the latest session unless it is finished.  (A new *)
(* account has none, so create_session does the same for it.)              *)
(***************************************************************************)
EnsureSession(r) ==
  LET open == {s \in Latest(r, tx[r].acct) : s.status = "draft"} IN
  /\ At(r, "session")
  /\ \/ \E s \in open :
          tx' = [tx EXCEPT ![r].ses = Key(s), ![r].todo = Rest(r)]
     \/ /\ open = {}
        /\ Lockers(r, KeyShare) = {}
        /\ tx' = [tx EXCEPT ![r].ses = [acct |-> tx[r].acct, at |-> tx[r].at], ![r].mine = TRUE,
                            ![r].lock = KeyShare, ![r].todo = Rest(r)]
  /\ Stay

(***************************************************************************)
(* _validate_full, and the policy of a consent.                            *)
(***************************************************************************)
Valid(r) ==
  /\ At(r, "validate")
  /\ tx' = [tx EXCEPT ![r].todo = Rest(r)]
  /\ Stay

Invalid(r) ==
  /\ At(r, "validate")
  /\ Rollback(r)

-----------------------------------------------------------------------------
(***************************************************************************)
(* skip_and_open reads the holder to decide whether it has to make one.    *)
(***************************************************************************)
PeekHolder(r) ==
  /\ At(r, "peek")
  /\ tx' = [tx EXCEPT ![r].know = profile, ![r].todo = Rest(r)]
  /\ Stay

HolderData(r) == IF tx[r].op = "skip" THEN "basic" ELSE "full"

(***************************************************************************)
(* _upsert_holder: nothing to do if skip has found a holder or the data    *)
(* loaded now is the same; otherwise insert the holder or overwrite it,    *)
(* possibly with other data of the same kind.                              *)
(***************************************************************************)
UpsertHolder(r) ==
  /\ At(r, "holder")
  /\ \/ /\ tx[r].know # None \/ profile = HolderData(r)
        /\ tx' = [tx EXCEPT ![r].todo = Rest(r)]
     \/ /\ tx[r].know = None
        /\ profile = None
        /\ tx' = [tx EXCEPT ![r].prof = HolderData(r),
                            ![r].todo = <<<<"insert", "holder">>>> \o Rest(r)]
     \/ /\ tx[r].know = None
        /\ profile # None
        /\ tx' = [tx EXCEPT ![r].prof = HolderData(r),
                            ![r].todo = <<<<"update", "holder">>>> \o Rest(r)]
  /\ Stay

(***************************************************************************)
(* The UPDATE of the holder waits for another one that is not committed.   *)
(***************************************************************************)
UpdateHolder(r) ==
  /\ At(r, "update")
  /\ Pending(r, "holder") = {}
  /\ tx' = [tx EXCEPT ![r].ins = @ \cup {"holder"}, ![r].todo = Rest(r)]
  /\ Stay

(***************************************************************************)
(* _ensure_welcome begins by locking the account row.                      *)
(***************************************************************************)
LockForGrant(r) ==
  /\ At(r, "welcome")
  /\ Lockers(r, ForUpdate) = {}
  /\ tx' = [tx EXCEPT ![r].lock = ForUpdate, ![r].todo = Rest(r)]
  /\ Stay

NewStatus(op) ==
  IF op = "complete" THEN "completed" ELSE IF op = "skip" THEN "skipped" ELSE "in_progress"
SessionStatus(op) == IF op = "complete" THEN "approved_demo" ELSE "skipped"

(***************************************************************************)
(* Assigning the value an attribute was loaded with writes nothing.        *)
(***************************************************************************)
Change(r, st) == IF tx[r].seen = st THEN None ELSE st

(***************************************************************************)
(* The session complete and skip finish: the latest one, loaded again.     *)
(***************************************************************************)
Finished(r) ==
  LET s == CHOOSE t \in Latest(r, tx[r].acct) : TRUE IN
  IF tx[r].op \in OpenOps /\ s.status # SessionStatus(tx[r].op) THEN Key(s) ELSE NoSession

\* Fault: attach_document does not look at the status.
StatusWrittenAlways(r) == Change(r, NewStatus(tx[r].op))

(***************************************************************************)
(* The status the request gives its account: attach_document leaves one    *)
(* it has loaded as ready as it is.                                        *)
(***************************************************************************)
StatusWritten(r) ==
  IF tx[r].op = "document" /\ tx[r].seen \notin INCOMPLETE_STATUSES THEN None
  ELSE Change(r, NewStatus(tx[r].op))

(***************************************************************************)
(* The end of _finish_account (finish the latest session, set the status), *)
(* of start (set the status) and of attach_document (set the status, add   *)
(* the document).                                                          *)
(***************************************************************************)
Finish(r) ==
  LET st == StatusWritten(r) IN
  /\ At(r, "finish")
  /\ st # None => Lockers(r, NoKeyUpdate) = {}
  /\ tx' = [tx EXCEPT ![r].st = st,
                      ![r].lock = IF st # None THEN Strongest(@, NoKeyUpdate) ELSE @,
                      ![r].fin = Finished(r),
                      ![r].doc = (tx[r].op = "document"),
                      ![r].todo = Rest(r)]
  /\ Stay

\* Fault: the holder is not flushed.
CommittedRowsNoHolder(r) == rows \cup (tx[r].ins \ {"holder"})

CommittedRows(r) == rows \cup tx[r].ins

(***************************************************************************)
(* get_db commits.                                                         *)
(***************************************************************************)
Commit(r) ==
  LET t == tx[r] IN
  /\ Running(r)
  /\ t.todo = <<>>
  /\ rows' = CommittedRows(r)
  /\ profile' = IF t.prof # None THEN t.prof ELSE profile
  /\ acc' = [a \in Numbers |->
               IF a # t.acct THEN acc[a]
               ELSE IF t.st # None THEN t.st
               ELSE IF t.new THEN "in_progress" ELSE acc[a]]
  /\ sessions' = {IF Key(s) = t.fin THEN [s EXCEPT !.status = SessionStatus(t.op)] ELSE s :
                    s \in VisibleSessions(r)}
  /\ docs' = IF t.doc THEN docs \cup {t.ses} ELSE docs
  /\ tx' = [tx EXCEPT ![r] = [Blank EXCEPT !.res = "done", !.op = t.op]]
  /\ UNCHANGED <<seq, clock>>

(***************************************************************************)
(* The worker, the connection or the database dies before the commit.      *)
(***************************************************************************)
Crash(r) ==
  /\ Running(r)
  /\ Rollback(r)

Step(r) ==
  \/ SelectRow(r) \/ InsertRow(r) \/ UseAccount(r) \/ RefuseAccount(r) \/ NoAccountYet(r)
  \/ CreateDraft(r) \/ CheckLimit(r) \/ EnsureSession(r) \/ Valid(r) \/ Invalid(r)
  \/ PeekHolder(r) \/ UpsertHolder(r) \/ UpdateHolder(r) \/ LockForGrant(r) \/ Finish(r) \/ Commit(r)

(***************************************************************************)
(* r waits for s: for a row s has written or the account s has locked.     *)
(***************************************************************************)
WaitsForRow(r, s) ==
  (At(r, "insert") \/ At(r, "update")) /\ s \in Pending(r, Head(tx[r].todo)[2])

WaitsFor(r, s) ==
  \/ WaitsForRow(r, s)
  \/ At(r, "session") /\ s \in Lockers(r, KeyShare)
       /\ \A t \in Latest(r, tx[r].acct) : t.status # "draft"
  \/ At(r, "welcome") /\ s \in Lockers(r, ForUpdate)
  \/ At(r, "finish") /\ StatusWritten(r) # None /\ s \in Lockers(r, NoKeyUpdate)

(***************************************************************************)
(* PostgreSQL aborts a transaction of a waiting cycle.                     *)
(***************************************************************************)
DeadlockVictim(r) ==
  /\ \E S \in SUBSET Requests :
       /\ r \in S
       /\ \A p \in S : (\E q \in S : WaitsFor(p, q)) /\ (\E q \in S : WaitsFor(q, p))
  /\ Rollback(r)

Next == \E r \in Requests : Begin(r) \/ Step(r) \/ Crash(r) \/ DeadlockVictim(r)

Spec == Init /\ [][Next]_vars

(***************************************************************************)
(* A request that has begun is driven on by the event loop and the         *)
(* database, and a waiting cycle is broken by the deadlock detector.       *)
(***************************************************************************)
FairSpec == Spec /\ \A r \in Requests : WF_vars(Step(r)) /\ WF_vars(DeadlockVictim(r))

-----------------------------------------------------------------------------
Request ==
  [res : {"idle", "running", "done", "failed"}, op : AllOps \cup {None},
   target : Numbers \cup {NoAccount},
   todo : Seq({"ensure", "insert", "update", "resolve", "create", "session", "validate", "peek", "holder",
               "welcome", "finish", "limit"} \X (Rows \cup {None})),
   at : Nat, acct : 0..MaxNumber, seen : Statuses \cup {None}, new : BOOLEAN, lock : 0..3,
   ins : SUBSET Rows, know : {None, "basic", "full"}, prof : {None, "basic", "full"},
   ses : [acct : 0..MaxNumber, at : Nat], mine : BOOLEAN,
   fin : [acct : 0..MaxNumber, at : Nat], st : Statuses \cup {None}, doc : BOOLEAN]

(***************************************************************************)
(* Every variable holds values of its type.                                *)
(***************************************************************************)
TypeOK ==
  /\ rows \subseteq Rows
  /\ profile \in {None, "basic", "full"}
  /\ acc \in [Numbers -> Statuses \cup {None}]
  /\ sessions \subseteq Session
  /\ docs \subseteq [acct : Numbers, at : Nat]
  /\ seq \in 1..(MaxNumber + 1)
  /\ clock \in Nat
  /\ tx \in [Requests -> Request]

(***************************************************************************)
(* An account is ready only if the subject's consents are on record: the   *)
(* terms for a completed one, terms and waiver for a skipped one.          *)
(***************************************************************************)
ReadyHasConsents ==
  \A a \in Numbers :
    /\ acc[a] \in READY_STATUSES => "TOS" \in rows
    /\ acc[a] = "skipped" => "DD_SKIP" \in rows

(***************************************************************************)
(* What the rows refer to exists: an owner for every account and consent,  *)
(* the holder of every ready account, the session of every document.       *)
(***************************************************************************)
Referential ==
  /\ Existing # {} \/ rows # {} => "user" \in rows
  /\ (\E a \in Numbers : acc[a] \in READY_STATUSES) => "holder" \in rows
  /\ "holder" \in rows <=> profile # None
  /\ docs \subseteq {Key(s) : s \in sessions}

(***************************************************************************)
(* The subject's own rows never make requests wait in a circle, as all     *)
(* handlers write user, waiver, terms and holder in this order: a deadlock *)
(* takes an account row.                                                   *)
(***************************************************************************)
NoRowCycle ==
  \A S \in SUBSET Requests : S # {} => \E r \in S : \A s \in S : ~WaitsForRow(r, s)

(***************************************************************************)
(* The status r wrote takes its account back to in_progress: r is a start, *)
(* or a document that loaded the account before it had been started.       *)
(***************************************************************************)
Reopens(r) == tx[r].op = "start" \/ (tx[r].op = "document" /\ tx[r].seen = "not_started")

(***************************************************************************)
(* A ready account leaves that status only when a start commits, or a      *)
(* document that still loaded not_started: attach_document then overwrites *)
(* a completion that committed meanwhile.  Any other late document,        *)
(* completion or skip never reopens it.                                    *)
(***************************************************************************)
OnlyStartReopensUnlessNotStarted ==
  [][\A a \in Numbers :
       acc[a] \in READY_STATUSES /\ acc'[a] \notin READY_STATUSES =>
         \E r \in Requests : Reopens(r) /\ tx[r].acct = a /\ tx'[r].res = "done"]_vars

(***************************************************************************)
(* Every request that begins is answered.                                  *)
(***************************************************************************)
Finishes == \A r \in Requests : Running(r) ~> tx[r].res \in {"done", "failed"}

(***************************************************************************)
(* Every account that has been started has a session, whichever request    *)
(* created it, and a ready account has a finished one, whichever of        *)
(* several requests finished it and whichever session was the latest by    *)
(* created_at then.                                                        *)
(***************************************************************************)
SessionsFollowAccounts ==
  \A a \in Existing : acc[a] # "not_started" =>
    \E s \in sessions : s.acct = a /\ (acc[a] \in READY_STATUSES => s.status # "draft")

(***************************************************************************)
(* "account limit reached" (demo_service.py): a subject has no more        *)
(* checking accounts than max_checking_accounts_per_user.                  *)
(***************************************************************************)
AccountLimit == Cardinality(Existing) <= MaxAccounts
=============================================================================
