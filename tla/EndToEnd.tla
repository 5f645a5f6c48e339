------------------------------ MODULE EndToEnd ------------------------------
(***************************************************************************)
(* A request from the wire to the journal: authentication, the idempotency *)
(* middleware and the handler's database transaction, composed.  The       *)
(* middleware is Idempotency, whose request keys become those the service  *)
(* derives from route, user and canonical payload; the transaction is      *)
(* Ledger, whose keys become the Idempotency-Key headers and the keys made *)
(* up for withdrawals without one.  Every step is a step of Idempotency, a *)
(* step of Ledger, or one of each taken together.                          *)
(*                                                                         *)
(* A call is what a client sends.  Every subject has one account and no    *)
(* call has a query string; amounts are in thousandths, so that rounding   *)
(* to cents is seen.                                                       *)
(***************************************************************************)
EXTENDS Idempotency, FiniteSets

CONSTANTS
  Calls,     \* what the clients may send
  Subjects,  \* users of the bank
  LocalDev,  \* the subject of the principal used with OIDC off
  Accounts, Opened, SysCash, Welcome, MaxAmount, Seed, NoReq,  \* of Ledger
  Owner,     \* the subject that owns each account
  Document,  \* holders.document_number of each subject
  Numbered   \* accounts that have an account number

VARIABLES
  oidc,  \* settings.oidc_enabled
  call,  \* what each request asks for
  stmt,  \* the statement its database transaction is at
  balance, status, posted, journal, req, view, seen, rows, lock, posting, stale

bank ==
  <<balance, status, posted, journal, stmt, req, view, seen, rows, lock, posting, stale>>
all == <<vars, bank, oidc, call>>

MoneyOps == {"transfer", "withdraw"}

ASSUME EndToEndConstants ==
  /\ LocalDev \in Subjects /\ None \notin Subjects
  /\ \A s \in Subjects : \E a \in Accounts : \A b \in Accounts : Owner[b] = s <=> b = a
  /\ Accounts \subseteq Nat /\ IsFiniteSet(Accounts) /\ SysCash \notin Accounts
  /\ Opened \subseteq Accounts /\ Numbered \subseteq Accounts
  /\ MaxAmount \in Nat /\ Welcome \in Nat \ {0} /\ Seed \notin Requests

-----------------------------------------------------------------------------
(***************************************************************************)
(* authenticate: the permissions claim, or the scope when it is empty; a   *)
(* token without an email that looks like a service's is machine to        *)
(* machine.  A missing or invalid token has no principal.                  *)
(***************************************************************************)
PermissionsFromClaims(t) == IF t.permissions # {} THEN t.permissions ELSE t.scope

IsM2MClaims(t) == ~t.email /\ t.service

(***************************************************************************)
(* Whoever is not a service has a subject, and no header reads as the key  *)
(* of a welcome grant.                                                     *)
(***************************************************************************)
ASSUME CallConstants ==
  /\ None \notin Calls
  /\ \A c \in Calls :
       /\ c.op \in MoneyOps \cup {"skip", "start"}
       /\ c.amount \in Int
       /\ c.op = "transfer" => c.dest.by \in {"id", "number", "document"}
       /\ c.token = None \/ IsM2MClaims(c.token) \/ c.token.sub \in Subjects
       /\ c.forward.sub \in Subjects \cup {None}
       /\ \A a \in Accounts : c.header # <<"welcome", a>>

Authenticate(t) ==
  IF t = None THEN None
  ELSE [subject |-> t.sub, permissions |-> PermissionsFromClaims(t), m2m |-> IsM2MClaims(t)]

HasBankWrite(p) == p.permissions \cap {"admin", "bank:write", "bank:demo"} # {}

(***************************************************************************)
(* resolve_effective_principal: a service that presents the forward secret *)
(* acts as the user it names.                                              *)
(***************************************************************************)
EffectivePrincipal(c) ==
  LET p == Authenticate(c.token) IN
  CASE p = None -> None
    [] p # None /\ (~p.m2m \/ ~c.forward.trusted) -> p
    [] OTHER ->
         IF c.forward.sub = None THEN None
         ELSE [subject |-> c.forward.sub, m2m |-> FALSE,
               permissions |-> IF p.permissions = {} THEN {"bank:write"} ELSE p.permissions]

(***************************************************************************)
(* require_principal and require_authenticated_bank_write: the principal   *)
(* the routes see, and whether they let it in.                             *)
(***************************************************************************)
Principal(c) ==
  IF oidc THEN EffectivePrincipal(c)
  ELSE [subject |-> LocalDev, permissions |-> {"bank:write"}, m2m |-> FALSE]

Subject(c) == IF Principal(c) = None THEN None ELSE Principal(c).subject

Authenticated(c) == Principal(c) # None /\ HasBankWrite(Principal(c)) /\ ~Principal(c).m2m

-----------------------------------------------------------------------------
(***************************************************************************)
(* Decimal.quantize("0.01") of m thousandths, rounding half to even.       *)
(***************************************************************************)
Quantize(m) ==
  LET q == m \div 10
      rest == m % 10
  IN IF rest < 5 \/ (rest = 5 /\ q % 2 = 0) THEN q ELSE q + 1

Money(m) == Quantize(m)

\* Fault: amounts are hashed as they were written.
NormalizeDecimalRaw(m) == m

\* Fault: amounts are rounded to tens of cents before hashing.
NormalizeDecimalCoarse(m) == Quantize(m) \div 10

NormalizeDecimal(m) == Quantize(m)

(***************************************************************************)
(* normalize_financial_payload: the money is normalised, timestamps and    *)
(* client request ids (the call's stamp) are dropped, and a number is      *)
(* hashed as the string it stands for.  The rest of the body (memo, source *)
(* account, fields the schema ignores) is hashed as it came.               *)
(***************************************************************************)
CanonicalPayload(c) ==
  [amount |-> NormalizeDecimal(c.amount), dest |-> c.dest, rest |-> c.rest]

(***************************************************************************)
(* extract_user_id with OIDC on.                                           *)
(***************************************************************************)
UserId(c) == IF EffectivePrincipal(c) = None THEN None ELSE EffectivePrincipal(c).subject

\* Fault: the route is left out of the hash and of the key.
GenerateKeyNoRoute(c) == [user |-> UserId(c), payload |-> CanonicalPayload(c)]

(***************************************************************************)
(* generate_key: route, user and canonical payload.                        *)
(***************************************************************************)
GenerateKey(c) == [route |-> c.op, user |-> UserId(c), payload |-> CanonicalPayload(c)]

RequestKeys == {GenerateKey(c) : c \in Calls}

(***************************************************************************)
(* _maybe_skip: no user, or nothing to hash and no Idempotency-Key.        *)
(***************************************************************************)
Keyed(c) ==
  /\ oidc
  /\ UserId(c) # None
  /\ c.op \in MoneyOps \/ c.header # None

-----------------------------------------------------------------------------
(***************************************************************************)
(* RecipientResolver.resolve and the destination of a transfer: an account *)
(* id, an account number, or the document of exactly one holder with       *)
(* exactly one account, which must have a number.                          *)
(***************************************************************************)
Recipients(d) ==
  CASE d.by = "id" -> {d.account} \cap Accounts
    [] d.by = "number" -> {d.account} \cap Numbered
    [] d.by = "document" ->
         LET holders == {s \in Subjects : Document[s] = d.document}
             owned == {a \in Accounts : Owner[a] \in holders}
         IN IF Cardinality(holders) = 1 /\ Cardinality(owned) = 1 THEN owned \cap Numbered
            ELSE {}

(***************************************************************************)
(* The request id of RequestLoggingMiddleware: the client's or a new one.  *)
(***************************************************************************)
RequestId(r) == IF call[r].rid # None THEN call[r].rid ELSE r

(***************************************************************************)
(* The journal key of a transfer or withdrawal.                            *)
(***************************************************************************)
JournalKey(r) ==
  LET c == call[r] IN
  IF c.op = "withdraw" /\ c.header = None
  THEN <<"withdraw", Subject(c), RequestId(r)>>
  ELSE c.header

JournalKeys ==
  {c.header : c \in Calls} \cup
  ({"withdraw"} \X Subjects \X ({c.rid : c \in Calls} \cup Requests))

Bank == INSTANCE Ledger
          WITH pc <- stmt, Keys <- JournalKeys, Amounts <- {Money(c.amount) : c \in Calls},
               Ops <- {"transfer", "withdraw", "skip", "start"}

Origin(s) == CHOOSE a \in Accounts : Owner[a] = s

(***************************************************************************)
(* What the handler asks of the ledger.  A recipient that is not found is  *)
(* refused where the origin itself would be.                               *)
(***************************************************************************)
BankRequest(r) ==
  LET c == call[r]
      a == Origin(Subject(c))
  IN IF c.op \in MoneyOps
     THEN [op |-> c.op, src |-> a, amt |-> Money(c.amount), key |-> JournalKey(r),
           dst |-> IF c.op = "transfer" /\ Recipients(c.dest) # {}
                   THEN CHOOSE b \in Recipients(c.dest) : TRUE ELSE a]
     ELSE [op |-> c.op, src |-> a, amt |-> Welcome, key |-> Bank!WelcomeKey(a), dst |-> a]

-----------------------------------------------------------------------------
SystemInit ==
  /\ Init
  /\ Bank!Init
  /\ oidc \in BOOLEAN
  /\ call = [r \in Requests |-> None]

(***************************************************************************)
(* A request arrives and is given its key, or skips the middleware.        *)
(***************************************************************************)
Receive(r) ==
  /\ \E c \in Calls :
       /\ call' = [call EXCEPT ![r] = c]
       /\ \/ Keyed(c) /\ Arrive(r) /\ key'[r] = GenerateKey(c)
          \/ ~Keyed(c) /\ Skip(r)
  /\ UNCHANGED <<bank, oidc>>

Middleware(r) ==
  /\ Check(r) \/ Acquire(r) \/ AcquireUnanswered(r) \/ StorageError(r) \/ Save(r) \/ Clear(r)
  /\ UNCHANGED <<bank, oidc, call>>

(***************************************************************************)
(* The handler raises and get_db has rolled its transaction back.          *)
(***************************************************************************)
Fail(r) == Raise(r) /\ tx'[r] = "aborted"

(***************************************************************************)
(* The route's dependencies and the body's schema: amount is a string, and *)
(* a transfer needs an Idempotency-Key.                                    *)
(***************************************************************************)
Admissible(c) ==
  /\ Authenticated(c)
  /\ c.op \in MoneyOps => c.text
  /\ c.op = "transfer" => c.header # None

\* Fault: a refusal is answered past the middleware, its record left behind.
RefusePastMiddleware(r) ==
  /\ pc[r] = "handler"
  /\ stmt[r] = "idle"
  /\ tx' = [tx EXCEPT ![r] = "aborted"]
  /\ Answer(r, "refused", None)
  /\ UNCHANGED <<record, key, lapsed, bank, oidc, call>>

(***************************************************************************)
(* 401, 403 or 422 for what is not admissible; 429, which the rate limiter *)
(* may answer to any call.                                                 *)
(***************************************************************************)
Refuse(r) ==
  /\ pc[r] = "handler"
  /\ stmt[r] = "idle"
  /\ Fail(r)
  /\ UNCHANGED <<bank, oidc, call>>

(***************************************************************************)
(* The end of a statement: the handler goes on, or has raised.             *)
(***************************************************************************)
Resume(r) == IF stmt'[r] = "failed" THEN Fail(r) ELSE UNCHANGED vars

BeginHandler(r) ==
  LET q == BankRequest(r)
      ready == Bank!ValidAmount(q.amt) /\ status[q.src] \in Bank!READY_STATUSES
  IN /\ pc[r] = "handler"
     /\ Admissible(call[r])
     /\ CASE q.op = "transfer" -> Bank!Begin(r, q, ready, "dest")
          [] q.op = "withdraw" -> Bank!Begin(r, q, ready, "key")
          [] OTHER -> Bank!Begin(r, q, TRUE, Bank!FirstStatement(q.op))
     /\ Resume(r)
     /\ UNCHANGED <<oidc, call>>

Statement(r) ==
  /\ pc[r] = "handler"
  /\ \/ Bank!LoadDest(r) \/ Bank!LockRow(r) \/ Bank!FindKey(r) \/ Bank!RejectRequest(r)
     \/ Bank!InsertJournal(r) \/ Bank!DuplicateKey(r) \/ Bank!UpdateAccounts(r)
     \/ Bank!KeepSession(r) \/ Bank!CreateSession(r) \/ Bank!KeepSubjectRow(r)
     \/ Bank!WriteSubjectRow(r) \/ Bank!EnsureWelcome(r) \/ Bank!WriteStatus(r)
  /\ Resume(r)
  /\ UNCHANGED <<oidc, call>>

DatabaseError(r) ==
  /\ pc[r] = "handler"
  /\ Bank!Crash(r)
  /\ Fail(r)
  /\ UNCHANGED <<oidc, call>>

DeadlockError(r) ==
  /\ pc[r] = "handler"
  /\ Bank!DeadlockVictim(r)
  /\ Fail(r)
  /\ UNCHANGED <<oidc, call>>

\* Fault: the session is left uncommitted behind a reply.
FinishUncommitted(r) ==
  /\ stmt[r] = "commit"
  /\ Reply(r)
  /\ UNCHANGED <<bank, oidc, call>>

(***************************************************************************)
(* The handler replies, and get_db commits before the reply goes out or    *)
(* after it.                                                               *)
(***************************************************************************)
Finish(r) ==
  /\ stmt[r] = "commit"
  /\ Reply(r)
  /\ IF tx'[r] = "committed" THEN Bank!Commit(r) ELSE UNCHANGED bank
  /\ UNCHANGED <<oidc, call>>

(***************************************************************************)
(* COMMIT fails and nobody knows whether it took effect.                   *)
(***************************************************************************)
CommitUnanswered(r) ==
  /\ stmt[r] = "commit"
  /\ Raise(r)
  /\ tx'[r] = "open"
  /\ UNCHANGED <<bank, oidc, call>>

(***************************************************************************)
(* The database commits or rolls back what a request left open.            *)
(***************************************************************************)
SettleTransaction(r) ==
  /\ Settle(r)
  /\ \/ tx'[r] = "committed" /\ Bank!Commit(r)
     \/ tx'[r] = "aborted" /\ Bank!Crash(r)
     \/ tx'[r] = "aborted" /\ ~Bank!Running(r) /\ UNCHANGED bank
  /\ UNCHANGED <<oidc, call>>

WorkerDies(r) == Crash(r) /\ UNCHANGED <<bank, oidc, call>>

Lapse(k) == Expire(k) /\ UNCHANGED <<bank, oidc, call>>

SystemStep(r) ==
  Middleware(r) \/ Refuse(r) \/ BeginHandler(r) \/ Statement(r) \/ Finish(r)

SystemNext ==
  \/ \E r \in Requests :
       \/ Receive(r) \/ SystemStep(r) \/ DatabaseError(r) \/ DeadlockError(r)
       \/ CommitUnanswered(r) \/ SettleTransaction(r) \/ WorkerDies(r)
  \/ \E k \in Keys : Lapse(k)

SystemSpec == SystemInit /\ [][SystemNext]_all

-----------------------------------------------------------------------------
(***************************************************************************)
(* Properties.                                                             *)
(***************************************************************************)

(***************************************************************************)
(* The variables of the composition have their types, and its parts agree: *)
(* the middleware believes a transaction committed exactly when it did, a  *)
(* transaction runs only under its handler or is left for the database to  *)
(* settle, and no handler replies past one that runs.                      *)
(***************************************************************************)
SystemTypeOK ==
  /\ TypeOK
  /\ call \in [Requests -> Calls \cup {None}]
  /\ \A r \in Requests :
       /\ call[r] = None <=> pc[r] = "idle"
       /\ tx[r] = "committed" <=> stmt[r] = "done"
       /\ Bank!Running(r) => pc[r] = "handler" \/ tx[r] = "open"

(***************************************************************************)
(* What a call means: two calls with one intent are attempts at one thing, *)
(* however the amount is spelled and whatever client request ids are       *)
(* attached; another memo is another intent.                               *)
(***************************************************************************)
Intent(r) ==
  LET c == call[r] IN
  [by |-> Subject(c), op |-> c.op, dest |-> c.dest, cents |-> Money(c.amount), rest |-> c.rest]

Moved(r) == \E e \in journal : e.by = r

IsMoney(r) == call[r] # None /\ call[r].op \in MoneyOps

(***************************************************************************)
(* Two attempts at the same transfer or withdrawal both move money only    *)
(* when neither guard is left: the record of their common request key has  *)
(* lapsed (or the middleware was off), and their journal keys differ.      *)
(***************************************************************************)
PaidOnceUnlessUnguarded ==
  \A r, s \in Requests :
    r # s /\ IsMoney(r) /\ IsMoney(s) /\ Intent(r) = Intent(s) /\ Moved(r) /\ Moved(s)
      => /\ JournalKey(r) # JournalKey(s)
         /\ key[r] = key[s] /\ key[r] \in lapsed \cup {None}

(***************************************************************************)
(* Another request with another intent has the journal key of r.           *)
(***************************************************************************)
KeyReused(r) ==
  \E s \in Requests : IsMoney(s) /\ JournalKey(s) = JournalKey(r) /\ Intent(s) # Intent(r)

(***************************************************************************)
(* The success r was told of is that of a transaction not committed yet,   *)
(* or never: possible only where the reply precedes get_db's commit.       *)
(***************************************************************************)
Uncommitted(r) == tx[body[r]] \in Replied \ {"committed"}

(***************************************************************************)
(* A transfer or withdrawal answered with success, from the handler, from  *)
(* a replayed record or from the journal's replay, is in the journal for   *)
(* that user, that recipient and that amount in cents, unless the client   *)
(* used the journal key for something else as well, or the framework       *)
(* replies before get_db's commit and this one has not (yet) committed.    *)
(***************************************************************************)
OkIsPaidUnlessReused ==
  \A r \in Requests : answer[r] = "ok" /\ IsMoney(r) =>
    \/ Uncommitted(r)
    \/ \E e \in journal :
         /\ e.key = JournalKey(body[r])
         /\ Intent(e.by) = Intent(r) \/ KeyReused(body[r])

(***************************************************************************)
(* When a client is told that its transfer or withdrawal was refused, no   *)
(* attempt at it under that journal key has moved money, as long as the    *)
(* request key has not lapsed: the balance check that precedes the key     *)
(* lookup, and withdraw's error on a replay, stay behind the middleware.   *)
(***************************************************************************)
RefusedIsUnpaidUnlessLapsed ==
  [][\A r \in Requests :
       answer[r] # "refused" /\ answer'[r] = "refused" /\ IsMoney(r) /\ key[r] \in Keys \ lapsed'
         => ~\E e \in journal : e.key = JournalKey(r) /\ Intent(e.by) = Intent(r)]_all

(***************************************************************************)
(* A skip answered with success, cached or not, has opened the account:    *)
(* the welcome grant is in the journal, and only a restarted onboarding    *)
(* can have taken the account's status back, unless the framework replies  *)
(* before get_db's commit and this one has not (yet) committed.            *)
(***************************************************************************)
SkippedIsOpenUnlessRestarted ==
  \A r \in Requests : answer[r] = "ok" /\ call[r].op = "skip" =>
    LET a == Origin(Subject(call[r])) IN
    \/ Uncommitted(r)
    \/ /\ Bank!Granted(a)
       /\ \/ status[a] \in Bank!READY_STATUSES
          \/ \E s \in Requests : tx[s] = "committed" /\ call[s].op = "start" /\ req[s].src = a
=============================================================================
