# e-bank-api in TLA+

A verification project for the e-bank-api service (`src/app`): a FastAPI
application over PostgreSQL (SQLAlchemy, asyncio) and Redis. It offers a demo
bank with onboarding, several checking accounts per user, transfers and
withdrawals on a double-entry ledger (`/v1/...`), and, outside production, the
integer bank of a coding challenge (`/event`, `/reset`, `/balance`).

The service is a set of stateless request handlers; everything that lasts is in
PostgreSQL and Redis. What is hard to get right is therefore what several
requests do to the same rows and keys when their statements interleave, fail or
are repeated. The modules model handlers statement by statement, each `await`
on the database or on Redis being one atomic step.

## The system

| component | state | operations | interacts with |
|---|---|---|---|
| Double-entry ledger (`services/ledger.py`) | `ledger_accounts`, `journal_entries`, `ledger_postings`, mirrored `transactions`, `accounts.balance_cached` | `post`, `transfer`, `withdraw`, `welcome_grant`, `customer_balance` | called by transfers, withdrawals and onboarding, inside their transaction |
| Transfers (`services/transfer.py`) | none of its own | `transfer`: load, lock rows in order, post, answer replays | ledger, recipient resolution, accounts |
| Demo bank service (`services/demo_service.py`) | none of its own | `withdraw`, `open_additional_account`, read-only views, receipts, statements | ledger, onboarding |
| Onboarding (`services/onboarding_*.py`, `repositories/user_repository.py`) | `users`, `holders`, `consents`, `onboarding_sessions`, `onboarding_documents`, `accounts.onboarding_status` | `start`, `consent`, `attach_document`, `complete`, `skip_and_open`, `get_status` | accounts, number sequence, welcome grant |
| Transaction boundary (`core/database.py`) | one transaction per request | commit at the end, rollback on an exception | every handler; its order relative to the middleware's reply |
| Idempotency middleware and service (`middleware/idempotency_middleware.py`, `core/idempotency.py`) | one Redis record with a TTL per route, user and payload hash | look up, take with SET NX, store the response, delete on failure | wraps every mutating handler |
| Rate limiter (`core/rate_limit.py`) | a Redis counter with a TTL per subject | `allow`: INCR, EXPIRE, TTL | called by routes before the handler's work |
| Legacy bank (`services/account_service.py`, `repositories/account_repository.py`, `api/legacy.py`) | `accounts`, `transactions` | `deposit`, `withdraw`, `transfer`, `delete_all` | transaction boundary |
| Statements and receipts (`services/statement_*.py`, `demo_service.py`) | receipts in an S3 bucket | paging, export, receipts | read `transactions`, `holders` and `accounts` while others write them |
| Authentication (`auth/oidc.py`, `auth/deps.py`) | none | token, forwarded user, permissions | gives the middleware its user and the handler its subject, separately |
| Recipient resolution, money and validation (`services/recipient.py`, `domain/`) | none | queries and pure functions | transfers, onboarding |
| Schema migrations (`alembic/versions`) | the schema and the data they move | eleven revisions, each with a downgrade | run between deployments of the application |
| HTTP surface, configuration, logging, CEP lookup | settings | routing, serialisation, I/O | everything |

Hard behaviours, all listed with their line under `hazards` in `PROJECT.json`:

* attributes of an ORM object keep the value of its first load, so a balance
  checked and rewritten under `SELECT .. FOR UPDATE` may be out of date;
* check-then-insert on journal keys, consents, users, holders, the first
  account and the account limit;
* row locks, foreign-key locks, unique-index waits and table locks taken in
  different orders, and the deadlocks that follow;
* a crash, a rollback or an unanswered COMMIT between any two statements;
* Redis errors before and after a command took effect, repeated commands,
  records and counters that expire while somebody still relies on them;
* two guards against double payment, the request key in Redis and the journal
  key in PostgreSQL, made from different parts of the request;
* readers that need several statements, or a cached document, while the rows
  they read change; ids and times of one table that grow in different orders;
* revisions applied, taken back and applied again over data the application
  wrote in between.

What makes each component correct:

* ledger: append-only, balanced, one entry per key; the cached balance agrees
  with the postings and never goes below zero; a success is in the journal;
  strangers do not deadlock;
* onboarding: ready accounts have their grant, consents, holder and session;
  nothing but a restart takes an opened account back; limits hold;
* middleware: one execution per key, all successes agree and are effective,
  keys become free again;
* rate limiter: at most the limit per window, and windows end;
* legacy bank: the cached balance is the sum of the transactions, the overdraft
  limit holds, transfers conserve money;
* statements: no row is skipped or counted twice, balances add up, receipts
  agree with the ledger and with each other;
* migrations: no revision changes what an account is worth, loses a reference
  or closes an opened account;
* end to end: one payment per intent while either guard is in place; what the
  client is told agrees with the journal;
* all of them: every request that begins is answered.

## Modules

| module | models | used by |
|---|---|---|
| `DoubleEntry` | the abstract promise of the ledger: a growing set of entries with unique keys, each moving a positive amount between two ledger accounts in one step | refined by `Ledger` |
| `Ledger` | transfer, withdraw, complete, skip and start on the account rows and the journal | `MCLedger`, `LedgerProofs` |
| `Idempotency` | the middleware and the records in Redis | `MCIdempotency`, `EndToEndProofs` |
| `RateLimiter` | `RateLimiter.allow` and the counter in Redis | `MCRateLimiter`, `RateLimiterProofs` |
| `Onboarding` | one subject's users, holder, consent, account, session and document rows under all onboarding routes and `open_additional_account` | `MCOnboarding`, `OnboardingProofs` |
| `LegacyBank` | `/event` and `/reset` | `MCLegacyBank`, `LegacyBankProofs` |
| `Statement` | listing, export and receipts beside the postings that write their rows | `MCStatement`, `StatementProofs` |
| `Migrations` | the revisions 0001 to 0011, up and down, and the application between them | `MCMigrations`, `MigrationsProofs` |
| `EndToEnd` | authentication, middleware and ledger transaction of one request, composed: it extends `Idempotency` and instantiates `Ledger` | `MCEndToEnd`, `EndToEndProofs` |
| `LedgerProofs`, `RateLimiterProofs`, `OnboardingProofs`, `LegacyBankProofs`, `StatementProofs`, `MigrationsProofs`, `EndToEndProofs` | the inductive invariant, theorems and proofs of each; `EndToEndProofs` has those of `Idempotency` too and instantiates `LedgerProofs` | |
| `SetTheorems` | greatest and least elements, and the laws of sums over finite sets and sequences of rows | `StatementProofs`, `MigrationsProofs` |

`MC` modules add symmetry sets and the constants that are no literals; the other
values are in the cfgs.
Operators marked `Fault:` are deliberate bugs, used to show that each property
can be broken; they are no part of the specifications.

### Ledger

`balance`, `status` are columns of `accounts`; `posted` is the sum of
`ledger_postings` per ledger account (all that `customer_balance` reads);
`journal` holds committed entries with their postings and mirrored
transactions. Each request has a program counter `pc`, its input `req`, and what
its session has loaded: `view` (balances) and `seen` (status), and `rows`, which
of its subject's own rows it has written and not committed. SQLAlchemy keeps
one object per row while the handler references it, so a later SELECT, with
`FOR UPDATE` too, returns the old attributes; `view` is written once.
`lock` is the strongest row lock the transaction holds, with PostgreSQL's three
relevant modes; `posting` says that its journal entry is inserted and not
committed, which makes an INSERT of the same key wait. `stale` is a history
variable: accounts written from an outdated view.

Actions follow the handlers: `BeginTransfer`, `BeginWithdraw`,
`BeginOnboarding`; `LoadDest`, `LockRow` (twice, in id order); `FindKey`,
`RejectRequest`, `InsertJournal`, `DuplicateKey`, `UpdateAccounts` for `post`;
`KeepSession`, `CreateSession`, `KeepSubjectRow`, `WriteSubjectRow`,
`EnsureWelcome`, `WriteStatus` for onboarding; `Commit`, `Crash`,
`DeadlockVictim`. A session, a consent or the holder may or may not be written
here; `Onboarding` models exactly when. What matters to the ledger is the order:
the consents before the session in `skip`, after it in `complete`, and the
holder's row, locked by its UPDATE, before the account's `FOR UPDATE`. Two
openings of different accounts of one subject and a transfer between the two can
therefore wait in a circle without a common key, which is why
`DeadlockNeedsRelated` names the subject beside the key.

Assumptions: clients do not send keys of the form of the welcome keys
(`LedgerConstants`); accounts are owned accounts made by onboarding, not
owner-less ones of the legacy bank, and none has status `not_started` (that
status, and the status written by documents, are `Onboarding`'s);
`ledger_accounts` rows exist with their account.

### Idempotency

`record[k]` is the Redis record; `Arrive`, `Skip`, `Check`, `Acquire`, `Reply`,
`Raise`, `Save`, `Clear` are the stages of `dispatch`; `StorageError`,
`AcquireUnanswered` and the 503 branches of `Save` and `Clear` are commands that
fail before or after they took effect (the redis client repeats unanswered
commands). `Expire` is the TTL, `Crash` a dead worker or a cancelled task
(which `except Exception` does not catch), `Settle` the outcome of a commit that
was in flight. `CommitOrders` says whether `get_db` commits before the reply,
after it, or either: the requirement `fastapi>=0.110` admits versions of both
kinds. FAILED
records are left out: `mark_failed` and `increment_attempt` have no caller.
`by` names the request whose response a record holds; the code has no such
field, and no action decides by it. A replay is the response itself: what
`_cached_response` does to a body that is no JSON (that of `/reset`) is layout.

### RateLimiter

`count` and `ttl` are the key, `members` the requests counted in the current
window, `lost` a history flag: the request that read 1 never reached EXPIRE.
`Tick` lets the window pass.

### Onboarding

A request is the list of statements it has still to execute (`Program`), plus
what it has loaded and written and not committed. Unique rows (user, holder,
one consent per policy) make concurrent inserts wait and the loser fail;
account rows have the lock modes of `Ledger`. A session's `at` is
`created_at`, which PostgreSQL sets to the start of the transaction:
`latest_session` orders by it. Assigning an attribute the value it was loaded
with sends no UPDATE (`Change`). Accounts with status `not_started` are those
that revisions 0008 and 0010 produce; they are the ones for which
`attach_document` sends an UPDATE that can overwrite a completion. The e-mail
and name of an existing user are not modelled: their UPDATE locks the users row
before the request holds anything else. Holder data is `basic` or `full`, so of
two completions with different full data the second sends no UPDATE here.
`Pasts` gives the accounts the subject may have at the
start, with the sessions and consents that go with them (`LeftSession`).
`MaxNumber` bounds the account numbers drawn.

### LegacyBank

Balances are in cents, because transfers of the demo bank can leave cents on an
owner-less account, while the routes here move whole units; `ToIntBalance` is
`_to_int_balance`, which cuts the cents off towards zero before the overdraft
check. Otherwise as `Ledger`, with two differences that come from the code:
`AccountRepository` returns copies, so the session forgets the row and every
SELECT loads it afresh; and `TRUNCATE` locks whole tables, in the order
`transactions`, `accounts`. The other tables that `delete_all` empties have no
row the challenge routes read.

### Statement

`rows` are the committed `transactions`; a posting (`wr`) begins, which fixes
its `created_at`, locks its accounts, inserts its rows, which draws their ids
from `seq`, and commits or aborts. A reader (`rd`) takes one SELECT or one S3
call per step: `ListPage` is a page of `GET /me/transactions`, `ExportRows` and
`ExportOpening` the two statements of an export, `LoadTransaction`,
`LoadParties`, `S3Get`, `S3Put` a receipt. `holder` is a version number of the
data that `onboarding/complete` overwrites, and `Tick` the clock behind `now()`
and the time of issue that a receipt prints (`Now`). That ids are drawn under
the row lock rests, for withdrawals, on SQLAlchemy flushing the UPDATE of
`Account` before the INSERT of `Transaction`: without relationships between the
mappers it orders them by name. The filters by amount bound the signed amount
like `direction` and are left out; transactions of the legacy bank are too.

### Migrations

One action per `upgrade` and `downgrade` function, on PostgreSQL; a revision
that fails is rolled back and therefore no step, its guard says when it
succeeds. `Drift` is the situation that revision 0010 was written for. Between
revisions the application writes: `Deposit`, `Transfer`, `OpenDraft`,
`OpenFails`, `Finish`, `Restart` are today's code. Each is one step, but one
that writes `balance_cached` from what its session had loaded (`Loaded`): the
row, or the row as it was before some of its transactions, as `Ledger` shows.
`OpenFails` is an account number drawn in vain, by an opening that the unique
index refuses or that fails later: `nextval` is not rolled back. `SignUp`,
`OpenBefore0008`, `GrantBefore0008` stand for versions before 0008, which are
not in the repository and are modelled by the rows the revisions expect to find
(marked external). `astray` and `restarts` are history variables.

### EndToEnd

A call is what a client sends: token, forward headers, operation, amount in
thousandths, recipient, `Idempotency-Key`, `X-Request-Id`. Operators translate
what is computed from it: `Authenticate`, `EffectivePrincipal`, `Authenticated`,
`CanonicalPayload`, `GenerateKey`, `Money`, `Recipients`, `JournalKey`. Actions
combine an action of `Idempotency` with one of `Ledger`: `Receive`,
`Middleware`, `Refuse`, `BeginHandler`, `Statement`, `Finish`, and the failures
`DatabaseError`, `DeadlockError`, `CommitUnanswered`, `SettleTransaction`,
`WorkerDies`, `Lapse`. A handler that raises has rolled its transaction back
when the middleware goes on to clear its record, because `get_db` is inside the
call the middleware awaits. The run has both `CommitOrders`, the order being
chosen with each reply. Of the body fields that are neither amount nor
recipient, all of which the request key hashes, `rest` stands for one value that
tells two bodies apart. Every subject owns one account and calls have no query
string; `oidc` is chosen at the start, and with OIDC off the middleware finds no
user and every request skips it.

## Runs

| run | question | bounds | result |
|---|---|---|---|
| `ledger` | do concurrent transfers, withdrawals and onboardings move money once per key, drift only through stale views, wait in a circle only with a common key or subject, leave opened accounts ready, implement `DoubleEntry`, and are they all answered? | 2 requests, 2 opened accounts and a draft, 2 keys, amounts 1 to 3 of which 3 is above `MaxAmount`, welcome 2 | holds |
| `ledger_sync` | is `balance_cached` in sync? | 2 transfers | violated |
| `idem` | one execution per key unless it lapsed; answers agree and are effective; keys become free | 3 requests, 2 keys, both TTLs elapse, commit before the reply | holds |
| `end_to_end` | one payment per intent unless both guards are gone; answers agree with the journal; a refusal frees its key | 2 requests, any of 15 calls, both commit orders, OIDC on and off, 3 users | holds |
| `rate` | admissions per window; a new window unless EXPIRE was lost | 3 requests, limit 2, window 2 | holds |
| `rate_stranded` | every window ends | 2 requests, limit 1 | violated |
| `onboarding` | do consents, holder, account and session agree, who may take a ready account back, and is every request answered? | 2 requests of any kind, from no account, a draft, an account not started or an opened one; 3 numbers, limit 2 | holds |
| `onboard_limit` | does the account limit hold? | 2 requests, one account, limit 2 | violated |
| `legacy` | balances, overdraft, resets, self-transfers; is every request answered? | 2 requests, 2 ids missing or with balance -1.00, -0.50 or 1.00, amounts 0-2, limit 1 | holds |
| `statement` | paging without gaps, exact exports, receipts that agree but for their time | 2 postings beside one listing, one export or two receipts; 3 accounts, 6 filters, pages of 1, exports of 2 rows | holds |
| `statement_opening` | is a listed row outside the opening balance? | 2 postings, one export | violated |
| `migrations` | money, references, numbers and statuses through upgrades and downgrades | 1 subject, 2 accounts, 2 transactions, 2 sessions, 2 downgrades; numbers of 0004 from 2, at most 2 drawn in vain | holds |

Two requests are enough for the races, which are between two parties, and runs
that check liveness together with safety use no symmetry. What a third request
could add to the ledger's safety is covered by the proofs, which are for any
number; `idem` and `rate`, where a third party matters (an owner, a successor, a
bystander), have three. A circle of three waiting transactions is covered by
`DeadlockFreeUnlessRelated`, not by a run. Two opened accounts give opposite
transfers, the draft gives grants and refused destinations, two keys equal and
different ones. A welcome amount that one or two transfers use up reaches the
empty account and the refusal. In `statement` two postings give every order of
begin, lock, insert and commit, a page of one row puts a step between any two
rows, and an export of two rows is cut. In `migrations` two accounts give a
transfer and an old number beside a new one; the sequence can reach the old
numbers by openings or by numbers drawn in vain; two downgrades allow a revision
to be taken back twice, or two of them once. The calls of `end_to_end` are
chosen in pairs: the same payment spelled differently, with another header or
none, with the recipient named by document, without a valid token, through the
forwarding service, for another user; a skip and a restart with and without a key. Requests,
postings and keys are interchangeable where a cfg says so; account ids are not,
because `sorted()` orders them. `CHECK_DEADLOCK` is off because a behaviour in
which all requests have been answered ends; `Finishes` states that none ends
earlier.

The violated properties are statements of the repository's own comments,
messages and docstrings; `findings` quotes them:

1. Two overlapping transfers lose an update of `balance_cached`
   (`ledger.py:184`): the balance was loaded before the lock.
2. A counter whose EXPIRE is lost never ends its window (`rate_limit.py:36`).
3. Two additional accounts pass the limit together (`demo_service.py:114`).
4. A posting that began before the first row of a statement and was inserted
   after it is in the opening balance and in the list
   (`account_repository.py:259`).

`InSyncUnlessStale`, `WindowEndsUnlessLost` and `ExportExact` state what does
hold in cases 1, 2 and 4, and exactly when it ceases to.

Three further disagreements are the exceptions of properties that hold:

* a complete that a start overtakes is answered "completed" and leaves the
  account in progress (`onboarding_complete.py:198`), because the status it
  assigns is the one it had loaded and no UPDATE is sent;
  `tests/test_demo_api.py:104` and `:111` expect the status to be the answered
  one. It is the exception of `OpenedIsReadyUnlessOvertaken`;
* with a framework that replies before `get_db` commits (`database.py:32`), a
  success is answered and cached and may be rolled back afterwards. It is an
  exception of `OkIsPaidUnlessReused` and `SkippedIsOpenUnlessRestarted`, and
  the only one that `CommitOrders = {"before"}` removes;
* two receipts of one transaction differ in the time of issue
  (`statement_pdf.py:113`) whenever the second is not the stored one, though
  `demo_service.py:317` says "receipts are immutable per tx". The time is printed
  in minutes, and one `Tick` is the least the two can differ by. It is an
  exception of `ReceiptsAgreeUnlessRenamed`.

Other properties have their exception in the name, and the exception does
happen in the model:

* `SingleRunUnlessLapsed`, `PaidOnceUnlessUnguarded`: a PROCESSING record that
  expires under a running handler lets a second identical request run
  (`idempotency.py:230`); with another `Idempotency-Key`, or a withdrawal without
  one, it pays again;
* `OkIsPaidUnlessReused`: a client that uses one `Idempotency-Key` for two
  different transfers is told that both were made (`transfer.py:152`);
* `RefusedIsUnpaidUnlessLapsed`: past a lapsed record, the retry of a paid
  transfer that emptied the account, or of a paid withdrawal, is refused
  (`ledger.py:249`, `demo_service.py:384`);
* `SkippedIsOpenUnlessRestarted`: a skip repeated after a restart is answered
  from the cache and leaves the account in progress;
* `ReceiptsAgreeUnlessRenamed`: a stored receipt keeps the holder's old name;
* `OnlyStartReopensUnlessNotStarted`: a document whose request loaded
  `not_started` writes `in_progress` over a completion that committed meanwhile
  (`onboarding_service.py:96`);
* `WithinOverdraft`: by the cents that `int()` cuts off, an account may go below
  the limit, never by a whole unit (`account_service.py:174`);
* `CachedIsSumUnlessAstray`: accounts that had money when 0004 ran start with
  `balance_cached` 0, and case 1 is excepted; `NumberFreeBelowHigh`: applying
  0006 a second time restarts the numbers below those in use, as does a sequence
  that has come up to the old numbers, and openings fail until it has passed
  them.

Two more races are behaviours of the models that no run judges: two onboarding
requests may both create the "first" account (`onboarding_accounts.py:85`), and a
skip may overwrite the holder data of a completion that committed between its two
lookups (`onboarding_complete.py:222`).

### Fairness

`WF(Step(r))` for a begun request: the event loop and the database drive every
handler on, and a statement that is continuously able to proceed does. Weak
fairness is enough for lock waits because the number of requests is finite.
`WF(DeadlockVictim(r))`: PostgreSQL's detector runs after `deadlock_timeout`.
`WF(Expire(k))`, `WF(Tick)`: Redis honours TTLs. No fairness is assumed for
arrivals, and crashes may always happen and need not. `Statement`, `Migrations`
and `EndToEnd` are checked for safety only: readers never wait, revisions are an
operator's decision, and the waiting of `EndToEnd` is that of its two parts,
whose liveness the runs `idem` and `ledger` check.

## Proofs

TLAPS proves, for every value of the constants that satisfies the named
assumption of the module (`LedgerConstants`, `IdempotencyConstants`,
`RateLimiterConstants`, `OnboardingConstants`, `LegacyConstants`,
`StatementConstants`, `MigrationConstants`, `EndToEndConstants` and
`CallConstants`):

| module | theorems |
|---|---|
| `LedgerProofs` | `TypeCorrect`, `KeysUnique`, `WritersExclude`, `ReadyGranted`, `GrantsFresh`, `CacheNotOverdrawn`, `DoneJournaled`, `DriftOnlyFromStaleViews`, `DeadlockFreeUnlessRelated`, the action properties `WritesUnderLock` and `OpenedStaysReady`, and `Refinement`: `Ledger` implements `DoubleEntry` |
| `RateLimiterProofs` | `TypeCorrect`, `Admission`, `StrandedOnlyWhenLost` |
| `OnboardingProofs` | `TypeCorrect`, `ConsentsRecorded`, `ReferencesHold`, `RowsNeverDeadlock`, `SessionsFollow`, and the action property `NothingElseReopens` |
| `LegacyBankProofs` | `TypeCorrect`, `CachedIsSumHolds`, `WithinOverdraftHolds`, `UpdatesHitRowsHolds` |
| `StatementProofs` | `TypeCorrect`, `WalksAreGapless`, `DirectionsAgree`, `ReceiptsMatch`, `ReceiptsAgree`, `ExportsAreExact` |
| `MigrationsProofs` | `SchemaAlwaysHolds`, `CachedIsSum`, `NumberFree`, and the action properties `MoneyIsPreserved` and `EvidenceDecides` |
| `EndToEndProofs` | of `Idempotency`, for both commit orders and any TTLs that elapse: `TypeCorrect`, `SingleRun`, `OkEffective`, `RepliesAgree`; of the system: `SystemTypeCorrect`, `PaidOnce`, `OkPaid`, `SkippedOpen`, `RefusedFreesKey`, and the action property `RefusedUnpaid` |

Some are proved and in no run: `TypeOK` of `Ledger`, `Idempotency`,
`Onboarding`, `LegacyBank` and `Statement`, `OneEntryPerKey`, `OneWriterPerRow`,
`GrantIsFresh`, `DoneIsJournaled` and `RowWritesLocked` of `Ledger`, and
`TtlUnlessLost`, which says of every state what the finding `WindowEnds` shows
of one behaviour. The run `ledger` still meets a duplicate key, as a step that
`DoubleEntry` does not allow.

None of the properties is inductive by itself, because a request acts on what
it saw statements earlier. Every module of proofs therefore begins with an
inductive invariant `IInv` (`SInv` for the system), shows that `Init` implies it
and that every action keeps it, one lemma per action or one per part of the
invariant, and draws the theorems from it.

**Ledger.** The invariant joins
`Control` and `PostingControl` (which statements an operation passes and with
which inputs), `KeyInv` (a key is in the journal, in one open transaction, or
free; without the second case the commit could add a duplicate), `GrantKeys`
and `GrantInv` (whoever has read a ready account has read a granted one),
`FreshInv` (before the grant an account and all views of it are empty, so a
grant cannot overwrite money), `FundsInv` (views are never negative and a
posting request has checked its own), `LockInv` (a request about to commit
holds the locks of what it writes) with `LocksCompatible`, `EntryInv`,
`OpenedInv` and `HeldInv` (which rows a request can hold at each statement),
`DoneInv` and `InSyncUnlessStale`. `CacheNotOverdrawn` may surprise
beside finding 1: each request writes its own view less an amount it has
checked against that view, so even a lost update leaves a non-negative value.
`DeadlockFreeUnlessRelated` assumes a circle in which no two are related: nobody
in it can then wait for a key, for a row of a subject, or as an opening or a
start for its account, so all are transfers at their second row, and the one
that waits for the greatest row waits for a transfer that waits for a greater.

**Idempotency.** `Hold` says that an engaged request still owns its record
although the code never checks it, `Cached` what a completed record says of its
request, and `Current` that a successful answer is still the one in the record.

**RateLimiter.** `Counted`: the requests of a window have different counts up
to the counter, so at most `Limit` of them have a count within it; `KeyCounts`
ties the counter to the key's existence.

**Onboarding.** A request is a list of statements, and its invariant speaks of
the statements left: what a commit needs (user, terms, waiver, holder, session)
is committed, written by the request or still on its list (`RowsInv`,
`AccountInv`, `EndInv`). `Fresh` and `InTime` bound the numbers and times in
use. For `NoRowCycle` every row has its rank in the order in which the handlers
write; among waiting requests the one that waits for the greatest rank waits
for a request that is not itself waiting for a row.

**LegacyBank.** `Control` and `TableInv` say which locks an event or a reset
holds at each statement, `Exclusive` and `Locked` that they exclude each other,
`Funded` that a checked withdrawal is still covered, up to the cents cut off,
when it is written, and `Summed` that committed and pending amounts of an
account add up to its balance.

**Statement.** `RowInv` and `PostingInv` describe the rows inserted so far
(distinct ids below the sequence; sign, type and counterparty agree; the two
rows of a transfer are neighbours). `LockInv` is what the walk rests on:
postings past their lock touch different accounts, so the pending rows of an
account are newer than its committed ones. `ReceiptInv` and `StoreInv` say that
every document, printed or in the bucket, is one of `Printed(r)` for the row its
name gives: the row with versions of its holders not newer than the present ones
and some time of issue. `OldestFirst` and `NewestFirst` are defined by counting
the rows before each, since TLAPS does not know the definition of TLC's
`SortSeq`; that they sort is proved without induction, an injection into as many
places being onto. An export reads its rows, oldest first up to the row limit,
and in a second SELECT the sum of what came before them. `ExportInv` says that
no row committed since the first SELECT belongs before or between the lines, so
that the opening balance, where times follow ids, is the sum of exactly the rows
before the first line, and each line adds one row.

**Migrations.** What a revision may rely on depends on the ones before it, so
the invariant says what the columns and references are worth at each revision.
`ColumnInv`: a column that does not exist holds its default, and what 0002, 0003
and 0004 are the first to write is empty before them (without it 0004 could meet
numbers, and 0002 transactions). `OwnerInv`: one account per owner from 0003 to
0006, which the guard of the downgrade of 0007 re-establishes. `RefInv`:
transactions are numbered and refer to accounts, postings to the ledger and the
ledger to accounts, so that an account just opened has no rows. `SessionInv`: no
session has an account before 0008, every one from 0009 on. `NumberInv` says
where numbers come from: before its first application of 0006 all are `High` or
more, and after it each is `High` or more or was drawn from the restarted
sequence and is below its next value, so that the next value is free as long as
it is below `High`, whatever was drawn in vain. `MoneyIsPreserved` has three
cases that move money or ids: 0002 makes one deposit of each balance, its
downgrade one balance of each sum, and 0005 renames accounts and rows one to
one; the downgrade of 0001 is excepted.

**SetTheorems.** `MapThenSumSet` and `FoldLeft` are recursive functions over
the subsets of their argument, of which the library proves nothing. The module
shows that such a function exists and that its value does not depend on the
order of summation, each time by a smallest subset without the property (the
strict subset order of a finite set is well-founded, `WFMin`), and from that the
laws the other modules use: the empty sum, its type, one row more, rows renamed.

**EndToEnd.** Every step of the system is a step of `Idempotency` and one of
`Ledger`, or leaves it unchanged (`Parts`), so the invariants of both hold with
their proofs as they are. `Linked` says how the two positions of a request
agree: which statements its transaction may be at, by the middleware's stage.
`PaidOnce` then follows from `KeyInv` where the journal keys are the same and
from `SingleRun` where the record has not lapsed.

Only model-checked: liveness (`Finishes` of three modules, `KeyFreed`,
`WindowEndsUnlessLost`), which is out of the prover's reach. Every invariant and
every safety property of an action that a run checks is also proved.

## Not modelled

* The layout and wording of PDF and CSV files, error bodies and log lines.
* Verification of JWTs, discovery and the key cache: library code, of which
  `EndToEnd` keeps that a token is valid or not.
* Parsing and check digits of documents and account numbers, masking and name
  formatting: pure functions of strings without state.
* The CEP lookup: one outgoing call whose answer is returned.
* Settings: they are constants of the modules.
* Health checks and the read-only views of one row.
* The SQLite branches of revisions and number generator, used by tests.
* The creation of `ledger_accounts` rows: the customer's is made by the grant
  under the account's row lock, `sys_cash` by revision 0004.
* Tables that no revision rewrites, in `Migrations`.

