------------------------------ MODULE LegacyBank ------------------------------
(***************************************************************************)
(* The integer bank of the challenge routes (POST /event, POST /reset):    *)
(* AccountService over AccountRepository, one PostgreSQL transaction per   *)
(* request, one action per statement.                                      *)
(*                                                                         *)
(* AccountRepository hands out AccountRecord copies and keeps no reference *)
(* to the ORM rows, so the session forgets them: unlike in the demo bank,  *)
(* every SELECT loads the row afresh.  Row locks are FOR UPDATE or those   *)
(* of the transaction's own INSERT or UPDATE, all mutually exclusive.      *)
(*                                                                         *)
(* Events move whole units; the column keeps cents, which an account       *)
(* without an owner may have got from transfers of the demo bank (these    *)
(* are in Ledger and do not run here).                                     *)
(***************************************************************************)
EXTENDS Integers, FiniteSets, FiniteSetsExt

CONSTANTS
  Ids,             \* account ids; sorted() orders them
  Amounts,         \* amounts of the events, in units
  Limit,           \* - OVERDRAFT_LIMIT
  Opening,         \* balances accounts may have when the behaviour starts, in cents
  Requests,        \* requests the server receives
  Ops,             \* the operations in use
  NoReq,           \* a request that has not arrived
  Absent           \* no row

AllOps == {"deposit", "withdraw", "transfer", "reset"}

Cents == 100       \* of a unit: balance_cached and amount have two decimals

(***************************************************************************)
(* int() truncates toward zero.                                            *)
(***************************************************************************)
ToIntBalance(b) == IF b >= 0 THEN b \div Cents ELSE 0 - ((0 - b) \div Cents)

ASSUME LegacyConstants ==
  /\ Ids \subseteq Nat /\ IsFiniteSet(Ids)
  /\ Amounts \subseteq Int
  /\ Limit \in Nat
  /\ Opening \subseteq Int /\ \A b \in Opening : ToIntBalance(b) >= 0 - Limit
  /\ Ops \subseteq AllOps
  /\ Absent \notin Int

VARIABLES
  balance,  \* accounts: balance_cached of each row
  total,    \* transactions: sum of the amounts per account
  pc,       \* the statement each request is at
  req,      \* what the request asks for
  held,     \* account rows its transaction has locked
  tables,   \* tables its transaction has used (and holds a table lock on)
  pend,     \* account rows it has written and not committed
  txns,     \* sum of the transactions it has inserted and not committed
  view      \* balance_cached as record_transaction has just loaded it

bank == <<balance, total>>
tx == <<held, tables, pend, txns>>
vars == <<bank, tx, pc, req, view>>

PCs == {"idle", "first", "dest", "ensure", "insert", "lock1", "lock2", "debit",
        "debit_row", "credit", "credit_row", "truncate", "truncate_accounts",
        "commit", "done", "failed"}
Running(r) == pc[r] \notin {"idle", "done", "failed"}
EventIn == [op : AllOps \ {"reset"}, origin : Ids, destination : Ids, amount : Int]
Req == EventIn \cup [op : {"reset"}]
MaybeInt == Int \cup {Absent}

(***************************************************************************)
(* A row as the request's own transaction sees it (READ COMMITTED).        *)
(***************************************************************************)
Seen(r, a) == IF pend[r][a] # Absent THEN pend[r][a] ELSE balance[a]

CanLock(r, a) == \A s \in Requests \ {r} : a \notin held[s]

(***************************************************************************)
(* Others that have inserted account a and not committed: an INSERT of the *)
(* same primary key waits for them.                                        *)
(***************************************************************************)
Inserting(r, a) == {s \in Requests \ {r} : balance[a] = Absent /\ pend[s][a] # Absent}

(***************************************************************************)
(* TRUNCATE holds its tables exclusively: it waits for everybody who has   *)
(* used them, and everybody waits for it.                                  *)
(***************************************************************************)
UsersOf(r, t) ==
  {s \in Requests \ {r} : t \in tables[s] /\ (req[r].op = "reset" \/ req[s].op = "reset")}

Use(r, t) ==
  /\ UsersOf(r, t) = {}
  /\ tables' = [tables EXCEPT ![r] = @ \cup {t}]

\* Fault: the limit is compared off by one.
WithinLimitOffByOne(b, m) == ToIntBalance(b) - m >= 0 - Limit - 1

\* _validate_limit
WithinLimit(b, m) == ToIntBalance(b) - m >= 0 - Limit

-----------------------------------------------------------------------------
Clean(r) ==
  /\ held' = [held EXCEPT ![r] = {}]
  /\ tables' = [tables EXCEPT ![r] = {}]
  /\ pend' = [pend EXCEPT ![r] = [a \in Ids |-> Absent]]
  /\ txns' = [txns EXCEPT ![r] = [a \in Ids |-> 0]]

(***************************************************************************)
(* The database holds accounts with the balance of their transactions.     *)
(***************************************************************************)
Init ==
  /\ balance \in [Ids -> Opening \cup {Absent}]
  /\ total = [a \in Ids |-> IF balance[a] = Absent THEN 0 ELSE balance[a]]
  /\ pc = [r \in Requests |-> "idle"]
  /\ req = [r \in Requests |-> NoReq]
  /\ held = [r \in Requests |-> {}]
  /\ tables = [r \in Requests |-> {}]
  /\ pend = [r \in Requests |-> [a \in Ids |-> Absent]]
  /\ txns = [r \in Requests |-> [a \in Ids |-> 0]]
  /\ view = [r \in Requests |-> 0]

Goto(r, l) == pc' = [pc EXCEPT ![r] = l]

\* Fault: the transaction is left open.
RollbackKeepsLocks(r) ==
  /\ Goto(r, "failed")
  /\ UNCHANGED <<bank, tx, req, view>>

(***************************************************************************)
(* get_db: an exception rolls the transaction back.                        *)
(***************************************************************************)
Rollback(r) ==
  /\ Goto(r, "failed")
  /\ Clean(r)
  /\ UNCHANGED <<bank, req, view>>

(***************************************************************************)
(* POST /event with its validated body; an amount that is not positive is  *)
(* refused before the database is touched.                                 *)
(***************************************************************************)
BeginEvent(r) ==
  \E o \in Ops \ {"reset"}, x, y \in Ids, m \in Amounts :
    /\ pc[r] = "idle"
    /\ o # "transfer" => x = y
    /\ req' = [req EXCEPT ![r] = [op |-> o, origin |-> x, destination |-> y, amount |-> m]]
    /\ Goto(r, IF m > 0 THEN "first" ELSE "failed")
    /\ UNCHANGED <<bank, tx, view>>

BeginReset(r) ==
  /\ pc[r] = "idle"
  /\ "reset" \in Ops
  /\ req' = [req EXCEPT ![r] = [op |-> "reset"]]
  /\ Goto(r, "truncate")
  /\ UNCHANGED <<bank, tx, view>>

-----------------------------------------------------------------------------
FirstRow(r) == IF req[r].op = "deposit" THEN req[r].destination ELSE req[r].origin

\* Fault: get instead of get_for_update.
GetWithoutLock(r) ==
  LET a == FirstRow(r) IN
  /\ pc[r] = "first"
  /\ balance[a] # Absent
  /\ Use(r, "accounts")
  /\ \/ /\ req[r].op = "deposit"
        /\ Goto(r, "credit")
     \/ /\ req[r].op # "deposit"
        /\ WithinLimit(balance[a], req[r].amount)
        /\ Goto(r, IF req[r].op = "withdraw" THEN "debit" ELSE "dest")
  /\ UNCHANGED <<bank, held, pend, txns, req, view>>

(***************************************************************************)
(* get_for_update of the first account: wait for its lock and load it.     *)
(***************************************************************************)
GetForUpdate(r) ==
  LET a == FirstRow(r) IN
  /\ pc[r] = "first"
  /\ balance[a] # Absent
  /\ CanLock(r, a)
  /\ Use(r, "accounts")
  /\ \/ /\ req[r].op = "deposit"
        /\ Goto(r, "credit")
     \/ /\ req[r].op # "deposit"
        /\ WithinLimit(balance[a], req[r].amount)
        /\ Goto(r, IF req[r].op = "withdraw" THEN "debit" ELSE "dest")
  /\ held' = [held EXCEPT ![r] = @ \cup {a}]
  /\ UNCHANGED <<bank, pend, txns, req, view>>

InsufficientFunds(r) ==
  LET a == FirstRow(r) IN
  /\ pc[r] = "first"
  /\ balance[a] # Absent /\ CanLock(r, a) /\ UsersOf(r, "accounts") = {}
  /\ req[r].op # "deposit"
  /\ ~WithinLimit(balance[a], req[r].amount)
  /\ Rollback(r)

(***************************************************************************)
(* No such account: a deposit creates it, the others answer 404.           *)
(***************************************************************************)
FirstRowMissing(r) ==
  /\ pc[r] = "first"
  /\ balance[FirstRow(r)] = Absent
  /\ \/ /\ req[r].op = "deposit"
        /\ Use(r, "accounts")
        /\ Goto(r, "insert")
        /\ UNCHANGED <<bank, held, pend, txns, req, view>>
     \/ /\ req[r].op # "deposit"
        /\ UsersOf(r, "accounts") = {}
        /\ Rollback(r)

(***************************************************************************)
(* transfer: get(destination), and ensure_account, which looks again.      *)
(***************************************************************************)
FindDestination(r) ==
  LET found == Seen(r, req[r].destination) # Absent IN
  /\ pc[r] \in {"dest", "ensure"}
  /\ Goto(r, IF found THEN "lock1" ELSE IF pc[r] = "dest" THEN "ensure" ELSE "insert")
  /\ UNCHANGED <<bank, tx, req, view>>

(***************************************************************************)
(* create and ensure_account: INSERT of the destination with balance 0.    *)
(***************************************************************************)
InsertAccount(r) ==
  LET a == req[r].destination IN
  /\ pc[r] = "insert"
  /\ Inserting(r, a) = {}
  /\ balance[a] = Absent
  /\ held' = [held EXCEPT ![r] = @ \cup {a}]
  /\ pend' = [pend EXCEPT ![r][a] = 0]
  /\ Goto(r, IF req[r].op = "deposit" THEN "credit" ELSE "lock1")
  /\ UNCHANGED <<bank, tables, txns, req, view>>

DuplicateAccount(r) ==
  /\ pc[r] = "insert"
  /\ Inserting(r, req[r].destination) = {}
  /\ balance[req[r].destination] # Absent
  /\ Rollback(r)

(***************************************************************************)
(* lock_accounts_for_update: in the order of the ids, whatever the request *)
(* holds already.                                                          *)
(***************************************************************************)
RowToLock(r) ==
  LET pair == {req[r].origin, req[r].destination} IN
  IF pc[r] = "lock1" THEN Min(pair) ELSE Max(pair)

LockAccount(r) ==
  /\ pc[r] \in {"lock1", "lock2"}
  /\ CanLock(r, RowToLock(r))
  /\ held' = [held EXCEPT ![r] = @ \cup {RowToLock(r)}]
  /\ Goto(r, IF pc[r] = "lock1" THEN "lock2" ELSE "debit")
  /\ UNCHANGED <<bank, tables, pend, txns, req, view>>

-----------------------------------------------------------------------------
(***************************************************************************)
(* record_transaction: INSERT of the transaction and SELECT of its account *)
(* row; then UPDATE of the row from the balance just loaded.               *)
(***************************************************************************)
Side(r) ==
  IF pc[r] \in {"debit", "debit_row"}
  THEN [row |-> req[r].origin, amount |-> 0 - Cents * req[r].amount]
  ELSE [row |-> req[r].destination, amount |-> Cents * req[r].amount]

InsertTransaction(r) ==
  LET s == Side(r) IN
  /\ pc[r] \in {"debit", "credit"}
  /\ Use(r, "transactions")
  /\ txns' = [txns EXCEPT ![r][s.row] = @ + s.amount]
  /\ view' = [view EXCEPT ![r] = Seen(r, s.row)]
  /\ Goto(r, IF pc[r] = "debit" THEN "debit_row" ELSE "credit_row")
  /\ UNCHANGED <<bank, held, pend, req>>

UpdateBalance(r) ==
  LET s == Side(r) IN
  /\ pc[r] \in {"debit_row", "credit_row"}
  /\ CanLock(r, s.row)
  /\ held' = [held EXCEPT ![r] = @ \cup {s.row}]
  /\ pend' = [pend EXCEPT ![r][s.row] = view[r] + s.amount]
  /\ Goto(r, IF pc[r] = "debit_row" /\ req[r].op = "transfer" THEN "credit" ELSE "commit")
  /\ UNCHANGED <<bank, tables, txns, req, view>>

\* Fault: the rows are deleted without locking the tables.
TruncateUnlocked(r) ==
  /\ pc[r] \in {"truncate", "truncate_accounts"}
  /\ Goto(r, IF pc[r] = "truncate" THEN "truncate_accounts" ELSE "commit")
  /\ UNCHANGED <<bank, tx, req, view>>

(***************************************************************************)
(* delete_all: TRUNCATE locks transactions before accounts.                *)
(***************************************************************************)
Truncate(r) ==
  /\ pc[r] \in {"truncate", "truncate_accounts"}
  /\ Use(r, IF pc[r] = "truncate" THEN "transactions" ELSE "accounts")
  /\ Goto(r, IF pc[r] = "truncate" THEN "truncate_accounts" ELSE "commit")
  /\ UNCHANGED <<bank, held, pend, txns, req, view>>

Commit(r) ==
  /\ pc[r] = "commit"
  /\ IF req[r].op = "reset"
     THEN /\ balance' = [a \in Ids |-> Absent]
          /\ total' = [a \in Ids |-> 0]
     ELSE /\ balance' = [a \in Ids |-> Seen(r, a)]
          /\ total' = [a \in Ids |-> total[a] + txns[r][a]]
  /\ Goto(r, "done")
  /\ Clean(r)
  /\ UNCHANGED <<req, view>>

(***************************************************************************)
(* The worker, the connection or the database dies before the commit.      *)
(***************************************************************************)
Crash(r) ==
  /\ Running(r)
  /\ Rollback(r)

-----------------------------------------------------------------------------
(***************************************************************************)
(* r waits for s: for a row, an uncommitted INSERT or a table.             *)
(***************************************************************************)
WaitsFor(r, s) ==
  /\ s # r
  /\ \/ /\ pc[r] = "first"
        /\ balance[FirstRow(r)] # Absent
        /\ FirstRow(r) \in held[s]
     \/ pc[r] = "first" /\ s \in UsersOf(r, "accounts")
     \/ pc[r] = "insert" /\ s \in Inserting(r, req[r].destination)
     \/ pc[r] \in {"lock1", "lock2"} /\ RowToLock(r) \in held[s]
     \/ pc[r] \in {"debit", "credit", "truncate"} /\ s \in UsersOf(r, "transactions")
     \/ pc[r] \in {"debit_row", "credit_row"} /\ Side(r).row \in held[s]
     \/ pc[r] = "truncate_accounts" /\ s \in UsersOf(r, "accounts")

Deadlocked(S) ==
  /\ S # {}
  /\ \A r \in S : \E s \in S : WaitsFor(r, s)
  /\ \A s \in S : \E r \in S : WaitsFor(r, s)

(***************************************************************************)
(* PostgreSQL aborts a transaction of a waiting cycle.                     *)
(***************************************************************************)
DeadlockVictim(r) ==
  /\ Running(r)
  /\ \E S \in SUBSET Requests : r \in S /\ Deadlocked(S)
  /\ Rollback(r)

Step(r) ==
  \/ GetForUpdate(r) \/ InsufficientFunds(r) \/ FirstRowMissing(r)
  \/ FindDestination(r) \/ InsertAccount(r) \/ DuplicateAccount(r) \/ LockAccount(r)
  \/ InsertTransaction(r) \/ UpdateBalance(r) \/ Truncate(r) \/ Commit(r)

Next ==
  \E r \in Requests :
    BeginEvent(r) \/ BeginReset(r) \/ Step(r) \/ Crash(r) \/ DeadlockVictim(r)

Spec == Init /\ [][Next]_vars

(***************************************************************************)
(* As in Ledger: begun requests are driven on, waiting cycles are broken.  *)
(***************************************************************************)
Fairness == \A r \in Requests : WF_vars(Step(r)) /\ WF_vars(DeadlockVictim(r))

FairSpec == Spec /\ Fairness

-----------------------------------------------------------------------------
(***************************************************************************)
(* Every variable holds values of its type.                                *)
(***************************************************************************)
TypeOK ==
  /\ balance \in [Ids -> MaybeInt]
  /\ total \in [Ids -> Int]
  /\ pc \in [Requests -> PCs]
  /\ req \in [Requests -> Req \cup {NoReq}]
  /\ \A r \in Requests : Running(r) => req[r] \in Req
  /\ held \in [Requests -> SUBSET Ids]
  /\ tables \in [Requests -> SUBSET {"transactions", "accounts"}]
  /\ pend \in [Requests -> [Ids -> MaybeInt]]
  /\ txns \in [Requests -> [Ids -> Int]]
  /\ view \in [Requests -> Int]

(***************************************************************************)
(* balance_cached is the sum of the account's transactions and an account  *)
(* that does not exist has none, whatever events and resets run at once:   *)
(* record_transaction never adds to an outdated balance.                   *)
(***************************************************************************)
CachedIsSum == \A a \in Ids : total[a] = (IF balance[a] = Absent THEN 0 ELSE balance[a])

(***************************************************************************)
(* However many withdrawals and transfers pass _validate_limit at the same *)
(* time, no account goes below OVERDRAFT_LIMIT by a whole unit: the limit  *)
(* holds of the truncated balance the bank reports.  An account with cents *)
(* may be below it by less, as the check truncates too.                    *)
(***************************************************************************)
WithinOverdraft == \A a \in Ids : balance[a] # Absent => balance[a] > 0 - Cents * (Limit + 1)

(***************************************************************************)
(* Whenever record_transaction is about to write an account, the row is    *)
(* still there: a reset never runs between the statements of an event.     *)
(***************************************************************************)
UpdatesHitRows ==
  \A r \in Requests :
    pc[r] \in {"debit", "debit_row", "credit", "credit_row"} => Seen(r, Side(r).row) # Absent

(***************************************************************************)
(* Every event and reset that begins is answered.                          *)
(***************************************************************************)
Finishes == \A r \in Requests : Running(r) ~> pc[r] \in {"done", "failed"}
=============================================================================
