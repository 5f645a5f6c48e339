-------------------------- MODULE LegacyBankProofs --------------------------
(***************************************************************************)
(* Proofs about LegacyBank, for any accounts, amounts, overdraft limit and *)
(* number of requests.                                                     *)
(*                                                                         *)
(* The three properties depend on each other and on what a request in the  *)
(* middle of its transaction may rely on: the rows it has locked are there *)
(* and change only by its own hand (Locked), no reset has the tables it    *)
(* uses (TableInv), the balance it has validated is still the row's        *)
(* (Funded), and what it has written differs from the committed balance by *)
(* the transactions it has inserted (Summed).                              *)
(***************************************************************************)
EXTENDS LegacyBank, TLAPS

AtRow == {"debit_row", "credit_row"}
PastFirst == {"dest", "ensure", "insert", "lock1", "lock2", "debit", "debit_row", "credit",
              "credit_row", "commit"}

(***************************************************************************)
(* Which statements an operation passes through.                           *)
(***************************************************************************)
Control ==
  \A r \in Requests :
    /\ Running(r) /\ req[r].op = "reset" => pc[r] \in {"truncate", "truncate_accounts", "commit"}
    /\ Running(r) /\ req[r].op # "reset" => pc[r] \in PastFirst \cup {"first"} /\ req[r].amount > 0
    /\ pc[r] \in {"dest", "ensure", "lock1", "lock2"} => req[r].op = "transfer"
    /\ pc[r] = "insert" => req[r].op \in {"deposit", "transfer"}
    /\ pc[r] \in {"debit", "debit_row"} => req[r].op \in {"withdraw", "transfer"}
    /\ pc[r] \in {"credit", "credit_row"} => req[r].op \in {"deposit", "transfer"}

(***************************************************************************)
(* A transaction uses the tables of the statements it has executed, and a  *)
(* reset shares none of its tables.                                        *)
(***************************************************************************)
TableInv ==
  /\ \A r \in Requests :
       /\ ~Running(r) \/ pc[r] \in {"first", "truncate"} => tables[r] = {}
       /\ pc[r] \in PastFirst => "accounts" \in tables[r]
       /\ pc[r] = "truncate_accounts" => tables[r] = {"transactions"}
       /\ pc[r] = "commit" /\ req[r].op = "reset" => tables[r] = {"transactions", "accounts"}
  /\ \A r, s \in Requests :
       r # s /\ Running(r) /\ req[r].op = "reset" => tables[r] \cap tables[s] = {}

(***************************************************************************)
(* Row locks exclude each other.                                           *)
(***************************************************************************)
Exclusive == \A r, s \in Requests : r # s => held[r] \cap held[s] = {}

(***************************************************************************)
(* A transaction has locked what it has written and what it is about to    *)
(* write, and the rows it has locked are there.                            *)
(***************************************************************************)
Locked(r) ==
  /\ held[r] # {} => pc[r] \in PastFirst /\ req[r].op # "reset"
  /\ \A a \in Ids : pend[r][a] # Absent => a \in held[r]
  /\ \A a \in held[r] : Seen(r, a) # Absent
  /\ pc[r] \in {"first", "dest", "ensure", "insert"} => \A a \in Ids : pend[r][a] = Absent
  /\ pc[r] \in {"lock1", "lock2"} => Seen(r, req[r].destination) # Absent
  /\ pc[r] = "lock2" => Min({req[r].origin, req[r].destination}) \in held[r]
  /\ pc[r] \in {"debit", "debit_row", "credit", "credit_row"} => Side(r).row \in held[r]
  /\ pc[r] \in {"debit", "debit_row"} /\ req[r].op = "transfer" => req[r].destination \in held[r]

(***************************************************************************)
(* Up to its debit, the origin's row is locked and as it was validated; no *)
(* uncommitted balance is a unit below the limit.                          *)
(***************************************************************************)
Funded(r) ==
  /\ /\ pc[r] \in {"dest", "ensure", "insert", "lock1", "lock2", "debit", "debit_row"}
     /\ req[r].op # "deposit"
     => /\ req[r].origin \in held[r]
        /\ balance[req[r].origin] # Absent /\ pend[r][req[r].origin] = Absent
        /\ WithinLimit(balance[req[r].origin], req[r].amount)
  /\ \A a \in Ids : pend[r][a] # Absent => pend[r][a] > 0 - Cents * (Limit + 1)

(***************************************************************************)
(* The transactions a request has inserted are what its uncommitted        *)
(* balances add to the committed ones, up to the row it is about to write. *)
(***************************************************************************)
OrZero(b) == IF b = Absent THEN 0 ELSE b
Owed(r, a) == IF pc[r] \in AtRow /\ Side(r).row = a THEN Side(r).amount ELSE 0

Summed(r) ==
  /\ pc[r] \in AtRow => view[r] = Seen(r, Side(r).row)
  /\ \A a \in Ids : OrZero(Seen(r, a)) + Owed(r, a) = OrZero(balance[a]) + txns[r][a]

IInv ==
  /\ TypeOK
  /\ Control
  /\ TableInv
  /\ Exclusive
  /\ \A r \in Requests : Locked(r) /\ Funded(r) /\ Summed(r)
  /\ CachedIsSum
  /\ WithinOverdraft

-----------------------------------------------------------------------------
(***************************************************************************)
(* A truncated balance is within the limit iff the balance is less than a  *)
(* unit below it, and so is what a withdrawal that was checked leaves.     *)
(***************************************************************************)
LEMMA LimitOfTruncated ==
  ASSUME NEW b \in Int
  PROVE  ToIntBalance(b) >= 0 - Limit <=> b > 0 - Cents * (Limit + 1)
BY LegacyConstants DEF ToIntBalance, Cents

LEMMA ChecksKeepLimit ==
  ASSUME NEW b \in Int, NEW m \in Int, WithinLimit(b, m)
  PROVE  b - Cents * m > 0 - Cents * (Limit + 1)
BY LegacyConstants DEF WithinLimit, ToIntBalance, Cents

(***************************************************************************)
(* sorted() of two ids gives the same two ids.                             *)
(***************************************************************************)
LEMMA SortedPair == \A x, y \in Ids : {Min({x, y}), Max({x, y})} = {x, y}
<1> SUFFICES ASSUME NEW x \in Ids, NEW y \in Ids PROVE {Min({x, y}), Max({x, y})} = {x, y}
  OBVIOUS
<1>1. x \in Int /\ y \in Int
  BY LegacyConstants
<1>2. CASE x <= y
  <2>1. Min({x, y}) = x
    BY <1>1, <1>2 DEF Min
  <2>2. Max({x, y}) = y
    BY <1>1, <1>2 DEF Max
  <2> QED
    BY <2>1, <2>2
<1>3. CASE y <= x
  <2>1. Min({x, y}) = y
    BY <1>1, <1>3 DEF Min
  <2>2. Max({x, y}) = x
    BY <1>1, <1>3 DEF Max
  <2> QED
    BY <2>1, <2>2
<1> QED
  BY <1>1, <1>2, <1>3

(***************************************************************************)
(* The actions a step may be, those that only roll back taken together.    *)
(***************************************************************************)
Moves(r) ==
  \/ BeginEvent(r) \/ BeginReset(r) \/ GetForUpdate(r)
  \/ FirstRowMissing(r) /\ req[r].op = "deposit"
  \/ FindDestination(r) \/ InsertAccount(r) \/ LockAccount(r) \/ InsertTransaction(r)
  \/ UpdateBalance(r) \/ Truncate(r) \/ Commit(r)

(***************************************************************************)
(* A step is one of those, a rollback, or changes nothing.                 *)
(***************************************************************************)
LEMMA StepCases ==
  [Next]_vars => UNCHANGED vars \/ \E r \in Requests : Moves(r) \/ Rollback(r)
BY DEF Next, Step, Moves, InsufficientFunds, FirstRowMissing, DuplicateAccount, Crash, DeadlockVictim

(***************************************************************************)
(* A running request that is not a reset asks for an event with its ids.   *)
(***************************************************************************)
LEMMA EventTyped ==
  ASSUME TypeOK, NEW r \in Requests, Running(r), req[r].op # "reset"
  PROVE  /\ req[r].origin \in Ids /\ req[r].destination \in Ids /\ req[r].amount \in Int
         /\ req[r].op \in {"deposit", "withdraw", "transfer"}
<1>1. req[r] \in Req
  BY DEF TypeOK
<1> QED
  BY <1>1 DEF Req, EventIn, AllOps

(***************************************************************************)
(* A deposit that finds no account has used the table and goes on.         *)
(***************************************************************************)
LEMMA DepositCreates ==
  ASSUME NEW r \in Requests, FirstRowMissing(r), req[r].op = "deposit"
  PROVE  /\ pc[r] = "first" /\ balance[req[r].destination] = Absent
         /\ Use(r, "accounts") /\ Goto(r, "insert")
         /\ UNCHANGED <<balance, total, held, pend, txns, req, view>>
BY DEF FirstRowMissing, FirstRow, bank

(***************************************************************************)
(* Every step goes to a statement its operation has.                       *)
(***************************************************************************)
LEMMA ControlStep == IInv /\ [Next]_vars => Control'
<1> SUFFICES ASSUME IInv, [Next]_vars PROVE Control'
  OBVIOUS
<1> USE LegacyConstants DEF IInv, Control, TypeOK, Running, PCs, PastFirst, Req, EventIn, AllOps
<1>1. ASSUME NEW r \in Requests, BeginEvent(r) PROVE Control'
  BY <1>1 DEF BeginEvent, Goto, Use, bank, tx
<1>2. ASSUME NEW r \in Requests, BeginReset(r) PROVE Control'
  BY <1>2 DEF BeginReset, Goto, Use, bank, tx
<1>3. ASSUME NEW r \in Requests, GetForUpdate(r) PROVE Control'
  BY <1>3 DEF GetForUpdate, Goto, Use, bank, tx
<1>4. ASSUME NEW r \in Requests, FirstRowMissing(r), req[r].op = "deposit" PROVE Control'
  <2>1. /\ pc[r] = "first" /\ pc' = [pc EXCEPT ![r] = "insert"]
        /\ UsersOf(r, "accounts") = {} /\ tables' = [tables EXCEPT ![r] = @ \cup {"accounts"}]
        /\ UNCHANGED <<balance, total, held, pend, txns, req, view>>
    BY <1>4, DepositCreates DEF Goto, Use
  <2> QED
    BY <1>4, <2>1
<1>5. ASSUME NEW r \in Requests, FindDestination(r) PROVE Control'
  BY <1>5 DEF FindDestination, Goto, Use, bank, tx
<1>6. ASSUME NEW r \in Requests, InsertAccount(r) PROVE Control'
  BY <1>6 DEF InsertAccount, Goto, Use, bank, tx
<1>7. ASSUME NEW r \in Requests, LockAccount(r) PROVE Control'
  BY <1>7 DEF LockAccount, Goto, Use, bank, tx
<1>8. ASSUME NEW r \in Requests, InsertTransaction(r) PROVE Control'
  BY <1>8 DEF InsertTransaction, Goto, Use, bank, tx
<1>9. ASSUME NEW r \in Requests, UpdateBalance(r) PROVE Control'
  BY <1>9 DEF UpdateBalance, Goto, Use, bank, tx
<1>10. ASSUME NEW r \in Requests, Truncate(r) PROVE Control'
  BY <1>10 DEF Truncate, Goto, Use, bank, tx
<1>11. ASSUME NEW r \in Requests, Commit(r) PROVE Control'
  BY <1>11 DEF Commit, Goto, Clean, bank
<1>12. ASSUME NEW r \in Requests, Rollback(r) PROVE Control'
  BY <1>12 DEF Rollback, Goto, Clean, bank
<1>13. CASE UNCHANGED vars
  BY <1>13 DEF vars, bank, tx
<1> QED
  BY StepCases, <1>1, <1>2, <1>3, <1>4, <1>5, <1>6, <1>7, <1>8, <1>9, <1>10, <1>11, <1>12, <1>13 DEF Moves

(***************************************************************************)
(* A reset gets a table nobody uses, and nobody gets a table of a reset.   *)
(***************************************************************************)
LEMMA TableStep == IInv /\ [Next]_vars => TableInv'
<1> SUFFICES ASSUME IInv, [Next]_vars PROVE TableInv'
  OBVIOUS
<1> USE LegacyConstants DEF IInv, TableInv, Control, TypeOK, Running, PCs, PastFirst, UsersOf
<1>1. ASSUME NEW r \in Requests, BeginEvent(r) PROVE TableInv'
  BY <1>1 DEF BeginEvent, Goto, Use, bank, tx
<1>2. ASSUME NEW r \in Requests, BeginReset(r) PROVE TableInv'
  BY <1>2 DEF BeginReset, Goto, Use, bank, tx
<1>3. ASSUME NEW r \in Requests, GetForUpdate(r) PROVE TableInv'
  BY <1>3 DEF GetForUpdate, Goto, Use, bank, tx
<1>4. ASSUME NEW r \in Requests, FirstRowMissing(r), req[r].op = "deposit" PROVE TableInv'
  <2>1. /\ pc[r] = "first" /\ pc' = [pc EXCEPT ![r] = "insert"]
        /\ UsersOf(r, "accounts") = {} /\ tables' = [tables EXCEPT ![r] = @ \cup {"accounts"}]
        /\ UNCHANGED <<balance, total, held, pend, txns, req, view>>
    BY <1>4, DepositCreates DEF Goto, Use
  <2> QED
    BY <1>4, <2>1
<1>5. ASSUME NEW r \in Requests, FindDestination(r) PROVE TableInv'
  BY <1>5 DEF FindDestination, Goto, Use, bank, tx
<1>6. ASSUME NEW r \in Requests, InsertAccount(r) PROVE TableInv'
  BY <1>6 DEF InsertAccount, Goto, Use, bank, tx
<1>7. ASSUME NEW r \in Requests, LockAccount(r) PROVE TableInv'
  BY <1>7 DEF LockAccount, Goto, Use, bank, tx
<1>8. ASSUME NEW r \in Requests, InsertTransaction(r) PROVE TableInv'
  BY <1>8 DEF InsertTransaction, Goto, Use, bank, tx
<1>9. ASSUME NEW r \in Requests, UpdateBalance(r) PROVE TableInv'
  BY <1>9 DEF UpdateBalance, Goto, Use, bank, tx
<1>10. ASSUME NEW r \in Requests, Truncate(r) PROVE TableInv'
  BY <1>10 DEF Truncate, Goto, Use, bank, tx
<1>11. ASSUME NEW r \in Requests, Commit(r) PROVE TableInv'
  BY <1>11 DEF Commit, Goto, Clean, bank
<1>12. ASSUME NEW r \in Requests, Rollback(r) PROVE TableInv'
  BY <1>12 DEF Rollback, Goto, Clean, bank
<1>13. CASE UNCHANGED vars
  BY <1>13 DEF vars, bank, tx
<1> QED
  BY StepCases, <1>1, <1>2, <1>3, <1>4, <1>5, <1>6, <1>7, <1>8, <1>9, <1>10, <1>11, <1>12, <1>13 DEF Moves

(***************************************************************************)
(* What a transaction sees of a row is a balance or its absence.           *)
(***************************************************************************)
LEMMA SeenTyped ==
  ASSUME TypeOK, NEW r \in Requests, NEW a \in Ids
  PROVE  Seen(r, a) \in MaybeInt
<1>1. pend[r][a] \in MaybeInt
  BY DEF TypeOK
<1>2. balance[a] \in MaybeInt
  BY DEF TypeOK
<1> QED
  BY <1>1, <1>2 DEF Seen

(***************************************************************************)
(* Types are preserved: what is loaded is a row that is there.             *)
(***************************************************************************)
LEMMA TypeStep == IInv /\ [Next]_vars => TypeOK'
<1> SUFFICES ASSUME IInv, [Next]_vars PROVE TypeOK'
  OBVIOUS
<1> USE LegacyConstants DEF IInv, TypeOK, Running, PCs, Req, EventIn, AllOps, MaybeInt, Control
<1>1. ASSUME NEW r \in Requests, BeginEvent(r) PROVE TypeOK'
  BY <1>1 DEF BeginEvent, Goto, Use, bank, tx
<1>2. ASSUME NEW r \in Requests, BeginReset(r) PROVE TypeOK'
  BY <1>2 DEF BeginReset, Goto, Use, bank, tx
<1>3. ASSUME NEW r \in Requests, GetForUpdate(r) PROVE TypeOK'
  <2>1. FirstRow(r) \in Ids
    BY <1>3, EventTyped DEF GetForUpdate, FirstRow
  <2>2. tables' \in [Requests -> SUBSET {"transactions", "accounts"}]
    BY <1>3 DEF GetForUpdate, Use
  <2>3. pc' \in [Requests -> PCs] /\ pc[r] = "first" /\ \A s \in Requests \ {r} : pc'[s] = pc[s]
    BY <1>3 DEF GetForUpdate, Goto
  <2>4. UNCHANGED <<balance, total, pend, txns, req, view>>
        /\ held' = [held EXCEPT ![r] = @ \cup {FirstRow(r)}]
    BY <1>3 DEF GetForUpdate, bank
  <2> QED
    BY <2>1, <2>2, <2>3, <2>4
<1>4. ASSUME NEW r \in Requests, FirstRowMissing(r), req[r].op = "deposit" PROVE TypeOK'
  <2>1. /\ pc[r] = "first" /\ pc' = [pc EXCEPT ![r] = "insert"]
        /\ UsersOf(r, "accounts") = {} /\ tables' = [tables EXCEPT ![r] = @ \cup {"accounts"}]
        /\ UNCHANGED <<balance, total, held, pend, txns, req, view>>
    BY <1>4, DepositCreates DEF Goto, Use
  <2> QED
    BY <1>4, <2>1
<1>5. ASSUME NEW r \in Requests, FindDestination(r) PROVE TypeOK'
  BY <1>5 DEF FindDestination, Goto, Use, bank, tx
<1>6. ASSUME NEW r \in Requests, InsertAccount(r) PROVE TypeOK'
  <2>1. req[r].destination \in Ids
    BY <1>6, EventTyped DEF InsertAccount
  <2> QED
    BY <1>6, <2>1 DEF InsertAccount, Goto, bank
<1>7. ASSUME NEW r \in Requests, LockAccount(r) PROVE TypeOK'
  <2>1. req[r].origin \in Ids /\ req[r].destination \in Ids
    BY <1>7, EventTyped DEF LockAccount
  <2>2. RowToLock(r) \in Ids
    <3> HIDE DEF IInv
    <3> DEFINE x == req[r].origin  y == req[r].destination
    <3>1. {Min({x, y}), Max({x, y})} = {x, y}
      BY <2>1, SortedPair
    <3>2. RowToLock(r) \in {Min({x, y}), Max({x, y})}
      BY DEF RowToLock
    <3> QED
      BY <3>1, <3>2, <2>1
  <2> QED
    BY <1>7, <2>2 DEF LockAccount, Goto, bank
<1>8. ASSUME NEW r \in Requests, InsertTransaction(r) PROVE TypeOK'
  <2> DEFINE a == Side(r).row  m == Side(r).amount
  <2>1. Running(r) /\ req[r].op # "reset"
    BY <1>8 DEF InsertTransaction
  <2>2. a \in Ids /\ m \in Int
    BY <2>1, EventTyped DEF Side, Cents
  <2>3. a \in held[r]
    BY <1>8 DEF InsertTransaction, Locked
  <2>4. Seen(r, a) # Absent
    BY <2>3 DEF Locked
  <2>5. /\ txns' = [txns EXCEPT ![r][a] = @ + m]
        /\ view' = [view EXCEPT ![r] = Seen(r, a)]
    BY <1>8 DEF InsertTransaction
  <2> HIDE DEF a, m
  <2>6. Seen(r, a) \in Int
    BY <2>2, <2>4, SeenTyped
  <2>7. txns' \in [Requests -> [Ids -> Int]] /\ view' \in [Requests -> Int]
    <3> HIDE DEF IInv
    <3>1. txns \in [Requests -> [Ids -> Int]] /\ view \in [Requests -> Int]
      BY DEF IInv
    <3>2. txns[r] \in [Ids -> Int]
      BY <3>1
    <3>3. [txns[r] EXCEPT ![a] = @ + m] \in [Ids -> Int]
      BY <2>2, <3>2
    <3> QED
      BY <2>5, <2>6, <3>1, <3>3
  <2>8. tables' \in [Requests -> SUBSET {"transactions", "accounts"}]
    BY <1>8 DEF InsertTransaction, Use
  <2> QED
    BY <1>8, <2>1, <2>7, <2>8 DEF InsertTransaction, Goto, bank
<1>9. ASSUME NEW r \in Requests, UpdateBalance(r) PROVE TypeOK'
  <2>1. Running(r) /\ req[r].op # "reset"
    BY <1>9 DEF UpdateBalance
  <2>2. Side(r).row \in Ids /\ Side(r).amount \in Int
    BY <2>1, EventTyped DEF Side, Cents
  <2> QED
    BY <1>9, <2>2 DEF UpdateBalance, Goto, bank
<1>10. ASSUME NEW r \in Requests, Truncate(r) PROVE TypeOK'
  BY <1>10 DEF Truncate, Goto, Use, bank, tx
<1>11. ASSUME NEW r \in Requests, Commit(r) PROVE TypeOK'
  <2>1. \A a \in Ids : Seen(r, a) \in MaybeInt
    BY SeenTyped
  <2>2. balance' \in [Ids -> MaybeInt] /\ total' \in [Ids -> Int]
    BY <1>11, <2>1 DEF Commit
  <2> QED
    BY <1>11, <2>2 DEF Commit, Goto, Clean
<1>12. ASSUME NEW r \in Requests, Rollback(r) PROVE TypeOK'
  BY <1>12 DEF Rollback, Goto, Clean, bank
<1>13. CASE UNCHANGED vars
  BY <1>13 DEF vars, bank, tx
<1> QED
  BY StepCases, <1>1, <1>2, <1>3, <1>4, <1>5, <1>6, <1>7, <1>8, <1>9, <1>10, <1>11, <1>12, <1>13 DEF Moves

-----------------------------------------------------------------------------
(***************************************************************************)
(* The step leaves the transaction of s alone: what it has is unchanged,   *)
(* and so are the rows it has locked; past its first statement no row goes *)
(* away.                                                                   *)
(***************************************************************************)
LeftAlone(s) ==
  /\ pc'[s] = pc[s] /\ req'[s] = req[s] /\ held'[s] = held[s] /\ pend'[s] = pend[s]
  /\ txns'[s] = txns[s] /\ view'[s] = view[s]
  /\ \A a \in Ids : balance'[a] # balance[a] =>
       a \notin held[s] /\ (pc[s] \in PastFirst => balance'[a] # Absent)

(***************************************************************************)
(* A transaction that is left alone keeps its part of the invariant.       *)
(***************************************************************************)
LEMMA AloneKeeps ==
  ASSUME IInv, TypeOK', NEW s \in Requests, LeftAlone(s)
  PROVE  Locked(s)' /\ Funded(s)' /\ Summed(s)'
<1> USE DEF LeftAlone
<1>1. Locked(s) /\ Funded(s) /\ Summed(s) /\ TypeOK
  BY DEF IInv
<1>2. Side(s)' = Side(s)
  BY DEF Side
<1>3. \A a \in Ids : pend[s][a] # Absent => a \in held[s]
  BY <1>1 DEF Locked
<1>4. \A a \in held[s] : a \in Ids /\ Seen(s, a)' = Seen(s, a)
  BY <1>1 DEF Seen, TypeOK
<1>5. \A a \in Ids : pc[s] \in PastFirst /\ Seen(s, a) # Absent => Seen(s, a)' # Absent
  BY DEF Seen
<1>6. pc[s] \in {"lock1", "lock2"} => req[s].destination \in Ids
  BY <1>1, EventTyped DEF Running, IInv, Control
<1>7. Locked(s)'
  BY <1>1, <1>2, <1>4, <1>5, <1>6 DEF Locked, PastFirst
<1>8. Funded(s)'
  BY <1>1, <1>4 DEF Funded, WithinLimit, TypeOK
<1>9. \A a \in Ids : OrZero(Seen(s, a))' + Owed(s, a)' = OrZero(balance[a])' + txns'[s][a]
  <2> SUFFICES ASSUME NEW a \in Ids
               PROVE  OrZero(Seen(s, a))' + Owed(s, a)' = OrZero(balance[a])' + txns'[s][a]
    OBVIOUS
  <2>1. Owed(s, a)' = Owed(s, a)
    BY <1>2 DEF Owed
  <2>2. OrZero(Seen(s, a)) + Owed(s, a) = OrZero(balance[a]) + txns[s][a]
    BY <1>1 DEF Summed
  <2>3. CASE balance'[a] = balance[a]
    BY <2>1, <2>2, <2>3 DEF OrZero, Seen
  <2>4. CASE balance'[a] # balance[a]
    <3>1. pend[s][a] = Absent /\ Owed(s, a) = 0
      BY <1>3, <2>4, <1>1 DEF Owed, Locked, AtRow
    <3>2. OrZero(balance[a]) \in Int /\ OrZero(balance'[a]) \in Int /\ txns[s][a] \in Int
      BY <1>1 DEF TypeOK, MaybeInt, OrZero
    <3>3. OrZero(Seen(s, a)) = OrZero(balance[a]) /\ OrZero(Seen(s, a))' = OrZero(balance'[a])
      BY <3>1 DEF Seen
    <3> QED
      BY <2>1, <2>2, <3>1, <3>2, <3>3
  <2> QED
    BY <2>3, <2>4
<1>10. Summed(s)'
  BY <1>1, <1>2, <1>4, <1>9 DEF Summed, Locked, AtRow
<1> QED
  BY <1>7, <1>8, <1>10

(***************************************************************************)
(* A step of one request leaves the transactions of the others alone: a    *)
(* commit changes only rows its request has locked, and a reset commits    *)
(* when nobody is past the first statement.                                *)
(***************************************************************************)
LEMMA OthersAlone ==
  ASSUME IInv, NEW r \in Requests, Moves(r) \/ Rollback(r), NEW s \in Requests, s # r
  PROVE  LeftAlone(s)
<1> USE DEF LeftAlone, Goto
<1>1. TypeOK
  BY DEF IInv
<1>2. CASE Commit(r)
  <2>1. UNCHANGED <<req, view>> /\ pc'[s] = pc[s] /\ held'[s] = held[s] /\ pend'[s] = pend[s]
        /\ txns'[s] = txns[s]
    BY <1>1, <1>2 DEF Commit, Clean, TypeOK
  <2>2. CASE req[r].op = "reset"
    <3>1. tables[r] = {"transactions", "accounts"} /\ tables[r] \cap tables[s] = {}
      BY <1>2, <2>2 DEF Commit, IInv, TableInv, Running
    <3>2. pc[s] \notin PastFirst
      BY <3>1 DEF IInv, TableInv
    <3>3. held[s] = {}
      BY <3>2 DEF IInv, Locked
    <3> QED
      BY <2>1, <3>2, <3>3
  <2>3. CASE req[r].op # "reset"
    <3>1. \A a \in Ids : balance'[a] = Seen(r, a)
      BY <1>2, <2>3 DEF Commit
    <3>2. \A a \in Ids : balance'[a] # balance[a] => balance'[a] # Absent /\ a \in held[r]
      BY <3>1 DEF Seen, IInv, Locked
    <3> QED
      BY <2>1, <3>2 DEF IInv, Exclusive
  <2> QED
    BY <2>2, <2>3
<1>3. CASE Rollback(r)
  BY <1>1, <1>3 DEF Rollback, Clean, TypeOK, bank
<1>4. CASE BeginEvent(r) \/ BeginReset(r) \/ GetForUpdate(r)
  BY <1>1, <1>4 DEF BeginEvent, BeginReset, GetForUpdate, TypeOK, bank, tx
<1>5. CASE FirstRowMissing(r) /\ req[r].op = "deposit"
  BY <1>1, <1>5, DepositCreates DEF TypeOK
<1>6. CASE FindDestination(r) \/ InsertAccount(r) \/ LockAccount(r) \/ Truncate(r)
  BY <1>1, <1>6 DEF FindDestination, InsertAccount, LockAccount, Truncate, TypeOK, bank, tx
<1>7. CASE InsertTransaction(r) \/ UpdateBalance(r)
  BY <1>1, <1>7 DEF InsertTransaction, UpdateBalance, TypeOK, bank
<1> QED
  BY <1>2, <1>3, <1>4, <1>5, <1>6, <1>7 DEF Moves

-----------------------------------------------------------------------------
(***************************************************************************)
(* What a request has locked and written after a step of its own.          *)
(***************************************************************************)
LEMMA OwnLocked ==
  ASSUME IInv, TypeOK', NEW r \in Requests, Moves(r) \/ Rollback(r)
  PROVE  Locked(r)'
<1>1. TypeOK /\ Control /\ Locked(r) /\ Funded(r)
  BY DEF IInv
<1>2. CASE Rollback(r) \/ Commit(r)
  <2>1. held'[r] = {} /\ pc'[r] \in {"failed", "done"} /\ \A a \in Ids : pend'[r][a] = Absent
    BY <1>1, <1>2 DEF Rollback, Commit, Clean, Goto, TypeOK
  <2> QED
    BY <2>1 DEF Locked, PastFirst
<1>3. CASE BeginEvent(r) \/ BeginReset(r)
  <2>1. held[r] = {} /\ held' = held /\ pend' = pend /\ balance' = balance
    BY <1>1, <1>3 DEF BeginEvent, BeginReset, Locked, PastFirst, bank, tx
  <2>2. pc'[r] \in {"first", "failed", "truncate"}
    BY <1>1, <1>3 DEF BeginEvent, BeginReset, Goto, TypeOK
  <2> QED
    BY <1>1, <2>1, <2>2 DEF Locked
<1>4. CASE GetForUpdate(r)
  <2> DEFINE a == FirstRow(r)
  <2>1. /\ pc[r] = "first" /\ balance[a] # Absent /\ held' = [held EXCEPT ![r] = @ \cup {a}]
        /\ UNCHANGED <<balance, pend, req>>
    BY <1>4 DEF GetForUpdate, bank
  <2>2. \/ req[r].op = "deposit" /\ pc'[r] = "credit"
        \/ req[r].op = "withdraw" /\ pc'[r] = "debit"
        \/ req[r].op \notin {"deposit", "withdraw"} /\ pc'[r] = "dest"
    BY <1>1, <1>4 DEF GetForUpdate, Goto, TypeOK
  <2>3. req[r].op # "reset"
    BY <1>1, <2>1 DEF Control, Running
  <2>4. held'[r] = {a} /\ \A b \in Ids : pend[r][b] = Absent
    BY <1>1, <2>1 DEF Locked, PastFirst, TypeOK
  <2>5. pc'[r] = "credit" => a = req[r].destination
    BY <2>2 DEF FirstRow
  <2>6. pc'[r] = "debit" => a = req[r].origin
    BY <2>2 DEF FirstRow
  <2>7. pc'[r] \in {"debit", "credit"} => Side(r)'.row = a
    BY <2>1, <2>5, <2>6 DEF Side
  <2>8. a \in Ids
    BY <1>1, <2>1, <2>3, EventTyped DEF FirstRow, Running
  <2> HIDE DEF a
  <2>9. \A b \in held'[r] : Seen(r, b)' # Absent
    BY <2>1, <2>4, <2>8 DEF Seen
  <2> QED
    BY <2>1, <2>2, <2>3, <2>4, <2>7, <2>9 DEF Locked, PastFirst
<1>5. CASE FirstRowMissing(r) /\ req[r].op = "deposit"
  <2>1. pc[r] = "first" /\ pc'[r] = "insert" /\ UNCHANGED <<balance, held, pend, req>>
    BY <1>1, <1>5, DepositCreates DEF Goto, TypeOK
  <2> QED
    BY <1>1, <2>1 DEF Locked, PastFirst
<1>6. CASE FindDestination(r)
  <2>1. /\ pc[r] \in {"dest", "ensure"} /\ pc'[r] \in {"ensure", "insert", "lock1"}
        /\ pc'[r] = "lock1" => Seen(r, req[r].destination) # Absent
        /\ UNCHANGED <<balance, held, pend, req>>
    BY <1>1, <1>6 DEF FindDestination, Goto, TypeOK, bank, tx
  <2>2. \A a \in Ids : Seen(r, a)' = Seen(r, a)
    BY <2>1 DEF Seen
  <2>3. req[r].destination \in Ids
    BY <1>1, <2>1, EventTyped DEF Control, Running
  <2>4. held[r] \subseteq Ids
    BY <1>1 DEF TypeOK
  <2> QED
    BY <1>1, <2>1, <2>2, <2>3, <2>4 DEF Locked, PastFirst
<1>7. CASE InsertAccount(r)
  <2> DEFINE a == req[r].destination
  <2>1. /\ pc[r] = "insert" /\ held' = [held EXCEPT ![r] = @ \cup {a}]
        /\ pend' = [pend EXCEPT ![r][a] = 0]
        /\ pc'[r] = (IF req[r].op = "deposit" THEN "credit" ELSE "lock1")
        /\ UNCHANGED <<balance, req>>
    BY <1>1, <1>7 DEF InsertAccount, Goto, TypeOK, bank
  <2>2. a \in Ids /\ req[r].op \in {"deposit", "transfer"}
    BY <1>1, <2>1, EventTyped DEF Control, Running
  <2>3. pend'[r][a] = 0 /\ a \in held'[r] /\ held'[r] = held[r] \cup {a}
        /\ \A b \in Ids \ {a} : pend'[r][b] = pend[r][b]
    BY <1>1, <2>1, <2>2 DEF TypeOK
  <2>4. pc'[r] = "credit" => Side(r)'.row = a
    BY <2>1 DEF Side
  <2>5. 0 # Absent
    BY LegacyConstants
  <2> HIDE DEF a
  <2>6. \A b \in held'[r] : b \in Ids /\ (b # a => b \in held[r])
    BY <1>1, <2>2, <2>3 DEF TypeOK
  <2>7. \A b \in held'[r] : Seen(r, b)' # Absent
    BY <1>1, <2>1, <2>3, <2>5, <2>6 DEF Locked, Seen
  <2>8. \A b \in Ids : pend'[r][b] # Absent => b \in held'[r]
    BY <1>1, <2>3 DEF Locked
  <2>9. pc'[r] \in {"credit", "lock1"}
    BY <2>1
  <2>10. Seen(r, req[r].destination)' # Absent
    BY <2>1, <2>3, <2>7 DEF a
  <2> QED
    BY <2>1, <2>2, <2>3, <2>4, <2>7, <2>8, <2>9, <2>10 DEF Locked, PastFirst
<1>8. CASE LockAccount(r)
  <2> DEFINE x == req[r].origin  y == req[r].destination
  <2>1. /\ pc[r] \in {"lock1", "lock2"} /\ held' = [held EXCEPT ![r] = @ \cup {RowToLock(r)}]
        /\ pc'[r] = (IF pc[r] = "lock1" THEN "lock2" ELSE "debit")
        /\ UNCHANGED <<balance, pend, req>>
    BY <1>1, <1>8 DEF LockAccount, Goto, TypeOK, bank
  <2>2. x \in Ids /\ y \in Ids /\ req[r].op = "transfer"
    BY <1>1, <2>1, EventTyped DEF Control, Running
  <2>3. {Min({x, y}), Max({x, y})} = {x, y}
    BY <2>2, SortedPair
  <2>4. RowToLock(r) = (IF pc[r] = "lock1" THEN Min({x, y}) ELSE Max({x, y}))
    BY DEF RowToLock
  <2>5. Seen(r, x) # Absent /\ Seen(r, y) # Absent
    BY <1>1, <2>1, <2>2 DEF Locked, Funded, Seen
  <2>6. pc'[r] = "debit" => Side(r)'.row = x
    BY <2>1 DEF Side
  <2>7. held'[r] = held[r] \cup {RowToLock(r)} /\ held[r] \subseteq Ids
    BY <1>1, <2>1 DEF TypeOK
  <2>8. pc'[r] = "lock2" => Min({x, y}) \in held'[r]
    BY <2>1, <2>4, <2>7
  <2>9. pc'[r] = "debit" => x \in held'[r] /\ y \in held'[r]
    BY <1>1, <2>1, <2>3, <2>4, <2>7 DEF Locked
  <2>10. \A a \in Ids : Seen(r, a)' = Seen(r, a)
    BY <2>1 DEF Seen
  <2>11. \A a \in held'[r] : Seen(r, a)' # Absent
    BY <1>1, <2>2, <2>3, <2>4, <2>5, <2>7, <2>10 DEF Locked
  <2>12. Seen(r, req[r].destination)' # Absent
    BY <2>1, <2>2, <2>5, <2>10
  <2>13. \A a \in Ids : pend'[r][a] # Absent => a \in held'[r]
    BY <1>1, <2>1, <2>7 DEF Locked
  <2>14. pc'[r] \in {"lock2", "debit"}
    BY <2>1
  <2> HIDE DEF x, y
  <2> QED
    BY <2>1, <2>2, <2>6, <2>8, <2>9, <2>11, <2>12, <2>13, <2>14 DEF Locked, PastFirst, x, y
<1>9. CASE InsertTransaction(r)
  <2>1. /\ pc[r] \in {"debit", "credit"} /\ UNCHANGED <<balance, held, pend, req>>
        /\ pc'[r] = (IF pc[r] = "debit" THEN "debit_row" ELSE "credit_row")
    BY <1>1, <1>9 DEF InsertTransaction, Goto, TypeOK, bank
  <2>2. Side(r)' = Side(r)
    BY <2>1 DEF Side
  <2>3. \A a \in held[r] : Seen(r, a)' = Seen(r, a)
    BY <2>1 DEF Seen
  <2> QED
    BY <1>1, <2>1, <2>2, <2>3 DEF Locked, PastFirst
<1>10. CASE UpdateBalance(r)
  <2> DEFINE a == Side(r).row  m == Side(r).amount
  <2>1. /\ pc[r] \in {"debit_row", "credit_row"} /\ UNCHANGED <<balance, req>>
        /\ held' = [held EXCEPT ![r] = @ \cup {a}]
        /\ pend' = [pend EXCEPT ![r][a] = view[r] + m]
        /\ pc'[r] = (IF pc[r] = "debit_row" /\ req[r].op = "transfer" THEN "credit" ELSE "commit")
    BY <1>1, <1>10 DEF UpdateBalance, Goto, TypeOK, bank
  <2>2. Running(r) /\ req[r].op # "reset"
    BY <1>1, <2>1 DEF Control, Running
  <2>3. a \in Ids /\ m \in Int
    BY <1>1, <2>2, EventTyped DEF Side, Cents
  <2>4. a \in held[r]
    BY <1>1, <2>1 DEF Locked
  <2>5. pc'[r] = "credit" => Side(r)'.row = req[r].destination /\ req[r].destination \in held[r]
    BY <1>1, <2>1 DEF Side, Locked
  <2> HIDE DEF a, m
  <2>6. held'[r] = held[r] /\ pend'[r][a] \in Int /\ held[r] \subseteq Ids
    BY <1>1, <2>1, <2>3, <2>4 DEF TypeOK
  <2>7. pend'[r][a] # Absent /\ \A b \in Ids \ {a} : pend'[r][b] = pend[r][b]
    BY <1>1, <2>1, <2>3, <2>6, LegacyConstants DEF TypeOK
  <2>8. \A b \in held[r] : Seen(r, b)' # Absent
    BY <1>1, <2>1, <2>6, <2>7 DEF Locked, Seen
  <2>9. \A b \in Ids : pend'[r][b] # Absent => b \in held[r]
    BY <1>1, <2>4, <2>7 DEF Locked
  <2> QED
    BY <2>1, <2>2, <2>5, <2>6, <2>8, <2>9 DEF Locked, PastFirst
<1>11. CASE Truncate(r)
  <2>1. pc[r] \in {"truncate", "truncate_accounts"} /\ pc'[r] \in {"truncate_accounts", "commit"}
        /\ UNCHANGED <<balance, held, pend>>
    BY <1>1, <1>11 DEF Truncate, Goto, TypeOK, bank
  <2>2. held[r] = {}
    BY <1>1, <2>1 DEF Locked, PastFirst
  <2> QED
    BY <1>1, <2>1, <2>2 DEF Locked
<1> QED
  BY <1>2, <1>3, <1>4, <1>5, <1>6, <1>7, <1>8, <1>9, <1>10, <1>11 DEF Moves

(***************************************************************************)
(* The funds of a request after a step of its own: what it validated stays *)
(* as it was until the debit writes it.                                    *)
(***************************************************************************)
LEMMA OwnFunded ==
  ASSUME IInv, TypeOK', NEW r \in Requests, Moves(r) \/ Rollback(r)
  PROVE  Funded(r)'
<1>1. TypeOK /\ Control /\ Locked(r) /\ Funded(r) /\ Summed(r)
  BY DEF IInv
<1>2. CASE Rollback(r) \/ Commit(r)
  <2>1. pc'[r] \in {"failed", "done"} /\ \A a \in Ids : pend'[r][a] = Absent
    BY <1>1, <1>2 DEF Rollback, Commit, Clean, Goto, TypeOK
  <2> QED
    BY <2>1 DEF Funded
<1>3. CASE BeginEvent(r) \/ BeginReset(r) \/ Truncate(r)
  <2>1. pc'[r] \in {"first", "failed", "truncate", "truncate_accounts", "commit"} /\ pend' = pend
    BY <1>1, <1>3 DEF BeginEvent, BeginReset, Truncate, Goto, TypeOK, tx
  <2> QED
    BY <1>1, <2>1 DEF Funded
<1>4. CASE GetForUpdate(r)
  <2>1. /\ pc[r] = "first" /\ held' = [held EXCEPT ![r] = @ \cup {FirstRow(r)}]
        /\ UNCHANGED <<balance, pend, req>> /\ balance[FirstRow(r)] # Absent
        /\ req[r].op # "deposit" => WithinLimit(balance[FirstRow(r)], req[r].amount)
    BY <1>4 DEF GetForUpdate, bank
  <2>2. \A b \in Ids : pend[r][b] = Absent
    BY <1>1, <2>1 DEF Locked
  <2>3. req[r].op # "deposit" => FirstRow(r) = req[r].origin
    BY DEF FirstRow
  <2>4. req[r].origin \in Ids
    BY <1>1, <2>1, EventTyped DEF Control, Running
  <2>5. FirstRow(r) \in held'[r]
    BY <1>1, <2>1 DEF TypeOK
  <2> QED
    BY <2>1, <2>2, <2>3, <2>4, <2>5 DEF Funded, WithinLimit
<1>5. CASE FirstRowMissing(r) /\ req[r].op = "deposit"
  BY <1>1, <1>5, DepositCreates DEF Funded
<1>6. CASE FindDestination(r) \/ InsertTransaction(r)
  <2>1. /\ \/ pc[r] \in {"dest", "ensure"} /\ pc'[r] \in {"ensure", "insert", "lock1"}
           \/ pc[r] = "debit" /\ pc'[r] = "debit_row"
           \/ pc[r] = "credit" /\ pc'[r] = "credit_row"
        /\ UNCHANGED <<balance, held, pend, req>>
    BY <1>1, <1>6 DEF FindDestination, InsertTransaction, Goto, TypeOK, bank, tx
  <2> QED
    BY <1>1, <2>1 DEF Funded, WithinLimit
<1>7. CASE InsertAccount(r)
  <2> DEFINE a == req[r].destination
  <2>1. /\ pc[r] = "insert" /\ held' = [held EXCEPT ![r] = @ \cup {a}]
        /\ pend' = [pend EXCEPT ![r][a] = 0] /\ balance[a] = Absent
        /\ pc'[r] \in {"credit", "lock1"}
        /\ UNCHANGED <<balance, req>>
    BY <1>1, <1>7 DEF InsertAccount, Goto, TypeOK, bank
  <2>2. a \in Ids
    BY <1>1, <2>1, EventTyped DEF Control, Running
  <2> HIDE DEF a
  <2>3. pend'[r][a] = 0 /\ held'[r] = held[r] \cup {a}
        /\ \A b \in Ids \ {a} : pend'[r][b] = pend[r][b]
    BY <1>1, <2>1, <2>2 DEF TypeOK
  <2>4. \A b \in Ids : pend'[r][b] # Absent => pend'[r][b] > 0 - Cents * (Limit + 1)
    BY <1>1, <2>3, LegacyConstants DEF Funded, Cents
  <2>5. req[r].origin \in Ids
    BY <1>1, <2>1, EventTyped DEF Control, Running
  <2>6. balance[req[r].origin] # Absent => req[r].origin # a
    BY <2>1
  <2> QED
    BY <1>1, <2>1, <2>3, <2>4, <2>5, <2>6 DEF Funded, WithinLimit
<1>8. CASE LockAccount(r)
  <2>1. /\ pc[r] \in {"lock1", "lock2"} /\ held' = [held EXCEPT ![r] = @ \cup {RowToLock(r)}]
        /\ UNCHANGED <<balance, pend, req>>
    BY <1>8 DEF LockAccount, bank
  <2>2. held[r] \subseteq held'[r]
    BY <1>1, <2>1 DEF TypeOK
  <2> QED
    BY <1>1, <2>1, <2>2 DEF Funded, WithinLimit
<1>9. CASE UpdateBalance(r)
  <2> DEFINE a == Side(r).row  m == Side(r).amount
  <2>1. /\ pc[r] \in {"debit_row", "credit_row"} /\ UNCHANGED <<balance, req>>
        /\ pend' = [pend EXCEPT ![r][a] = view[r] + m]
        /\ pc'[r] \in {"credit", "commit"}
    BY <1>1, <1>9 DEF UpdateBalance, Goto, TypeOK, bank
  <2>2. Running(r) /\ req[r].op # "reset" /\ req[r].amount > 0
    BY <1>1, <2>1 DEF Control, Running
  <2>3. a \in Ids /\ m \in Int
    BY <1>1, <2>2, EventTyped DEF Side, Cents
  <2>4. view[r] = Seen(r, a) /\ view[r] \in Int
    BY <1>1, <2>1 DEF Summed, AtRow, TypeOK
  <2>5. view[r] + m > 0 - Cents * (Limit + 1)
    <3>1. CASE pc[r] = "debit_row"
      <4>1. a = req[r].origin /\ m = 0 - Cents * req[r].amount /\ req[r].op # "deposit"
        BY <1>1, <3>1 DEF Side, Control
      <4>2. Seen(r, a) = balance[a] /\ WithinLimit(balance[a], req[r].amount)
        BY <1>1, <3>1, <4>1 DEF Funded, Seen
      <4>3. req[r].amount \in Int
        BY <1>1, <2>2, EventTyped
      <4>4. view[r] - Cents * req[r].amount > 0 - Cents * (Limit + 1)
        BY <2>4, <4>2, <4>3, ChecksKeepLimit
      <4> QED
        BY <2>4, <4>1, <4>3, <4>4 DEF Cents
    <3>2. CASE pc[r] = "credit_row"
      <4>1. m = Cents * req[r].amount
        BY <3>2 DEF Side
      <4>2. view[r] # Absent
        BY <2>4, LegacyConstants
      <4>3. pend[r][a] # Absent => pend[r][a] > 0 - Cents * (Limit + 1)
        BY <1>1, <2>3 DEF Funded
      <4>4. balance[a] # Absent => balance[a] > 0 - Cents * (Limit + 1)
        BY <2>3 DEF IInv, WithinOverdraft
      <4>5. view[r] > 0 - Cents * (Limit + 1)
        BY <2>4, <4>2, <4>3, <4>4 DEF Seen
      <4>6. req[r].amount \in Int
        BY <1>1, <2>2, EventTyped
      <4> QED
        BY <2>2, <2>3, <2>4, <4>1, <4>5, <4>6, LegacyConstants DEF Cents
    <3> QED
      BY <2>1, <3>1, <3>2
  <2> HIDE DEF a, m
  <2>6. pend'[r][a] = view[r] + m /\ \A b \in Ids \ {a} : pend'[r][b] = pend[r][b]
    BY <1>1, <2>1, <2>3 DEF TypeOK
  <2>7. \A b \in Ids : pend'[r][b] # Absent => pend'[r][b] > 0 - Cents * (Limit + 1)
    BY <1>1, <2>5, <2>6 DEF Funded
  <2> QED
    BY <2>1, <2>7 DEF Funded
<1> QED
  BY <1>2, <1>3, <1>4, <1>5, <1>6, <1>7, <1>8, <1>9 DEF Moves

(***************************************************************************)
(* The sums of a request after a step of its own: record_transaction adds  *)
(* to txns first, and to the balance with the next statement.              *)
(***************************************************************************)
LEMMA OwnSummed ==
  ASSUME IInv, TypeOK', NEW r \in Requests, Moves(r) \/ Rollback(r)
  PROVE  Summed(r)'
<1>1. TypeOK /\ Control /\ Locked(r) /\ Funded(r) /\ Summed(r)
  BY DEF IInv
<1>2. ASSUME UNCHANGED <<balance, pend, txns>>, pc[r] \notin AtRow, pc'[r] \notin AtRow
      PROVE  Summed(r)'
  BY <1>1, <1>2 DEF Summed, Owed, Seen, OrZero
<1>3. CASE Rollback(r) \/ Commit(r)
  <2>1. /\ pc'[r] \in {"failed", "done"}
        /\ \A a \in Ids : pend'[r][a] = Absent /\ txns'[r][a] = 0
    BY <1>1, <1>3 DEF Rollback, Commit, Clean, Goto, TypeOK
  <2>2. \A a \in Ids : OrZero(balance'[a]) \in Int
    BY DEF TypeOK, MaybeInt, OrZero
  <2>3. \A a \in Ids : Seen(r, a)' = balance'[a] /\ Owed(r, a)' = 0
    BY <2>1 DEF Seen, Owed, AtRow
  <2>4. \A a \in Ids : OrZero(Seen(r, a))' = OrZero(balance'[a]) /\ OrZero(balance[a])' = OrZero(balance'[a])
    BY <2>3 DEF OrZero
  <2> QED
    BY <2>1, <2>2, <2>3, <2>4 DEF Summed, AtRow
<1>4. CASE BeginEvent(r) \/ BeginReset(r) \/ GetForUpdate(r) \/ FindDestination(r)
           \/ LockAccount(r) \/ Truncate(r)
  <2>1. UNCHANGED <<balance, pend, txns>>
    BY <1>4 DEF BeginEvent, BeginReset, GetForUpdate, FindDestination, LockAccount, Truncate, bank, tx
  <2>2. pc[r] \notin AtRow
    BY <1>4 DEF BeginEvent, BeginReset, GetForUpdate, FindDestination, LockAccount, Truncate, AtRow
  <2>3. pc'[r] \notin AtRow
    BY <1>1, <1>4 DEF BeginEvent, BeginReset, GetForUpdate, FindDestination, LockAccount,
                      Truncate, Goto, AtRow, TypeOK
  <2> QED
    BY <1>2, <2>1, <2>2, <2>3
<1>5. CASE FirstRowMissing(r) /\ req[r].op = "deposit"
  <2>1. UNCHANGED <<balance, pend, txns>> /\ pc[r] \notin AtRow /\ pc'[r] \notin AtRow
    BY <1>1, <1>5, DepositCreates DEF Goto, AtRow, TypeOK
  <2> QED
    BY <1>2, <2>1
<1>6. CASE InsertAccount(r)
  <2> DEFINE a == req[r].destination
  <2>1. /\ pc[r] = "insert" /\ pend' = [pend EXCEPT ![r][a] = 0] /\ balance[a] = Absent
        /\ pc'[r] \in {"credit", "lock1"}
        /\ UNCHANGED <<balance, txns>>
    BY <1>1, <1>6 DEF InsertAccount, Goto, TypeOK, bank
  <2>2. a \in Ids
    BY <1>1, <2>1, EventTyped DEF Control, Running
  <2>3. pend[r][a] = Absent
    BY <1>1, <2>1, <2>2 DEF Locked
  <2> HIDE DEF a
  <2>4. pend'[r][a] = 0 /\ \A b \in Ids \ {a} : pend'[r][b] = pend[r][b]
    BY <1>1, <2>1, <2>2 DEF TypeOK
  <2>5. \A b \in Ids : OrZero(Seen(r, b))' = OrZero(Seen(r, b))
    BY <2>1, <2>3, <2>4, LegacyConstants DEF OrZero, Seen
  <2>6. \A b \in Ids : Owed(r, b)' = 0 /\ Owed(r, b) = 0
    BY <2>1 DEF Owed, AtRow
  <2>7. \A b \in Ids : OrZero(balance[b])' = OrZero(balance[b])
    BY <2>1 DEF OrZero
  <2> QED
    BY <1>1, <2>1, <2>5, <2>6, <2>7 DEF Summed, AtRow
<1>7. CASE InsertTransaction(r)
  <2> DEFINE a == Side(r).row  m == Side(r).amount
  <2>1. /\ pc[r] \in {"debit", "credit"} /\ UNCHANGED <<balance, pend, req>>
        /\ pc'[r] = (IF pc[r] = "debit" THEN "debit_row" ELSE "credit_row")
        /\ txns' = [txns EXCEPT ![r][a] = @ + m]
        /\ view' = [view EXCEPT ![r] = Seen(r, a)]
    BY <1>1, <1>7 DEF InsertTransaction, Goto, TypeOK, bank
  <2>2. a \in Ids /\ m \in Int
    BY <1>1, <2>1, EventTyped DEF Side, Cents, Control, Running
  <2>3. Side(r)' = Side(r)
    BY <2>1 DEF Side
  <2>4. \A b \in Ids : Owed(r, b) = 0 /\ Owed(r, b)' = (IF b = a THEN m ELSE 0)
    BY <2>1, <2>3 DEF Owed, AtRow
  <2> HIDE DEF a, m
  <2>5. \A b \in Ids : txns'[r][b] = txns[r][b] + (IF b = a THEN m ELSE 0)
    BY <1>1, <2>1, <2>2 DEF TypeOK
  <2>6. \A b \in Ids : Seen(r, b)' = Seen(r, b) /\ OrZero(balance[b])' = OrZero(balance[b])
                       /\ OrZero(Seen(r, b))' = OrZero(Seen(r, b))
    BY <2>1 DEF OrZero, Seen
  <2>7. \A b \in Ids : OrZero(Seen(r, b)) \in Int /\ OrZero(balance[b]) \in Int /\ txns[r][b] \in Int
    BY <1>1, SeenTyped DEF TypeOK, OrZero, MaybeInt
  <2>8. \A b \in Ids : OrZero(Seen(r, b))' + Owed(r, b)' = OrZero(balance[b])' + txns'[r][b]
    BY <1>1, <2>2, <2>4, <2>5, <2>6, <2>7 DEF Summed
  <2>9. view'[r] = Seen(r, a)
    BY <1>1, <2>1 DEF TypeOK
  <2>10. view'[r] = Seen(r, Side(r).row)'
    BY <2>2, <2>3, <2>6, <2>9 DEF a
  <2> QED
    BY <2>8, <2>10 DEF Summed
<1>8. CASE UpdateBalance(r)
  <2> DEFINE a == Side(r).row  m == Side(r).amount
  <2>1. /\ pc[r] \in AtRow /\ UNCHANGED <<balance, txns, req>>
        /\ pend' = [pend EXCEPT ![r][a] = view[r] + m]
        /\ pc'[r] \notin AtRow
    BY <1>1, <1>8 DEF UpdateBalance, Goto, TypeOK, bank, AtRow
  <2>2. a \in Ids /\ m \in Int
    BY <1>1, <2>1, EventTyped DEF Side, Cents, Control, Running, AtRow
  <2>3. view[r] = Seen(r, a) /\ view[r] \in Int
    BY <1>1, <2>1 DEF Summed, TypeOK
  <2>4. \A b \in Ids : Owed(r, b)' = 0 /\ Owed(r, b) = (IF b = a THEN m ELSE 0)
    BY <2>1 DEF Owed
  <2> HIDE DEF a, m
  <2>5. pend'[r][a] = view[r] + m /\ \A b \in Ids \ {a} : pend'[r][b] = pend[r][b]
    BY <1>1, <2>1, <2>2 DEF TypeOK
  <2>6. \A b \in Ids : OrZero(Seen(r, b)) \in Int /\ OrZero(balance[b]) \in Int /\ txns[r][b] \in Int
    BY <1>1, SeenTyped DEF TypeOK, OrZero, MaybeInt
  <2>7. view[r] + m \in Int /\ view[r] + m # Absent /\ view[r] # Absent
    BY <2>2, <2>3, LegacyConstants
  <2>8. OrZero(Seen(r, a)) = view[r]
    BY <2>3, <2>7 DEF OrZero
  <2>9. \A b \in Ids : OrZero(Seen(r, b))' = OrZero(Seen(r, b)) + (IF b = a THEN m ELSE 0)
    <3>1. \A b \in Ids : b = a => OrZero(Seen(r, b))' = view[r] + m
      BY <2>5, <2>7 DEF OrZero, Seen
    <3>2. \A b \in Ids \ {a} : OrZero(Seen(r, b))' = OrZero(Seen(r, b))
      BY <2>1, <2>5 DEF OrZero, Seen
    <3> QED
      BY <2>6, <2>8, <3>1, <3>2
  <2>10. \A b \in Ids : OrZero(balance[b])' = OrZero(balance[b]) /\ txns'[r][b] = txns[r][b]
    BY <2>1 DEF OrZero
  <2>11. \A b \in Ids : OrZero(Seen(r, b))' + Owed(r, b)' = OrZero(balance[b])' + txns'[r][b]
    BY <1>1, <2>2, <2>4, <2>6, <2>9, <2>10 DEF Summed
  <2> QED
    BY <2>1, <2>11 DEF Summed
<1> QED
  BY <1>3, <1>4, <1>5, <1>6, <1>7, <1>8 DEF Moves

(***************************************************************************)
(* No row is locked twice: a row that was inserted and is locked by its    *)
(* transaction is one the INSERT of another waits for.                     *)
(***************************************************************************)
LEMMA ExclusiveStep ==
  ASSUME IInv, NEW r \in Requests, Moves(r) \/ Rollback(r)
  PROVE  Exclusive'
<1>1. TypeOK /\ Exclusive
  BY DEF IInv
<1>2. \A s \in Requests \ {r} : held'[s] = held[s]
  BY OthersAlone DEF LeftAlone
<1>3. ASSUME held'[r] \subseteq held[r] PROVE Exclusive'
  BY <1>1, <1>2, <1>3 DEF Exclusive
<1>4. ASSUME NEW a, held'[r] = held[r] \cup {a}, CanLock(r, a) PROVE Exclusive'
  BY <1>1, <1>2, <1>4 DEF Exclusive, CanLock
<1>5. CASE GetForUpdate(r) \/ LockAccount(r) \/ UpdateBalance(r)
  BY <1>1, <1>4, <1>5 DEF GetForUpdate, LockAccount, UpdateBalance, TypeOK
<1>6. CASE InsertAccount(r)
  <2> DEFINE a == req[r].destination
  <2>1. held'[r] = held[r] \cup {a} /\ Inserting(r, a) = {} /\ balance[a] = Absent
    BY <1>1, <1>6 DEF InsertAccount, TypeOK
  <2> HIDE DEF a
  <2>2. \A s \in Requests \ {r} : pend[s][a] = Absent
    BY <2>1 DEF Inserting
  <2>3. CanLock(r, a)
    BY <2>1, <2>2 DEF CanLock, IInv, Locked, Seen
  <2> QED
    BY <1>4, <2>1, <2>3
<1>7. CASE FirstRowMissing(r) /\ req[r].op = "deposit"
  BY <1>3, <1>7, DepositCreates
<1>8. CASE BeginEvent(r) \/ BeginReset(r) \/ FindDestination(r) \/ InsertTransaction(r)
           \/ Truncate(r)
  BY <1>3, <1>8 DEF BeginEvent, BeginReset, FindDestination, InsertTransaction, Truncate, tx
<1>9. CASE Commit(r) \/ Rollback(r)
  BY <1>1, <1>3, <1>9 DEF Commit, Rollback, Clean, TypeOK
<1> QED
  BY <1>5, <1>6, <1>7, <1>8, <1>9 DEF Moves

(***************************************************************************)
(* Only a commit changes the tables: it adds what Summed says and writes   *)
(* what Funded bounds.                                                     *)
(***************************************************************************)
LEMMA CommittedStep ==
  ASSUME IInv, NEW r \in Requests, Moves(r) \/ Rollback(r)
  PROVE  CachedIsSum' /\ WithinOverdraft'
<1>1. TypeOK /\ Funded(r) /\ Summed(r) /\ CachedIsSum /\ WithinOverdraft
  BY DEF IInv
<1>2. ASSUME UNCHANGED <<balance, total>> PROVE CachedIsSum' /\ WithinOverdraft'
  BY <1>1, <1>2 DEF CachedIsSum, WithinOverdraft
<1>3. CASE Commit(r) /\ req[r].op = "reset"
  BY <1>3 DEF Commit, CachedIsSum, WithinOverdraft
<1>4. CASE Commit(r) /\ req[r].op # "reset"
  <2>1. /\ pc[r] = "commit" /\ balance' = [a \in Ids |-> Seen(r, a)]
        /\ total' = [a \in Ids |-> total[a] + txns[r][a]]
    BY <1>4 DEF Commit
  <2>2. \A a \in Ids : OrZero(Seen(r, a)) + 0 = OrZero(balance[a]) + txns[r][a]
    BY <1>1, <2>1 DEF Summed, Owed, AtRow
  <2>3. \A a \in Ids : OrZero(Seen(r, a)) \in Int
    BY <1>1, SeenTyped DEF OrZero, MaybeInt
  <2>4. \A a \in Ids : total[a] = OrZero(balance[a])
    BY <1>1 DEF CachedIsSum, OrZero
  <2>5. \A a \in Ids : total'[a] = OrZero(balance'[a])
    BY <2>1, <2>2, <2>3, <2>4
  <2>6. CachedIsSum'
    BY <2>5 DEF CachedIsSum, OrZero
  <2>7. WithinOverdraft'
    BY <1>1, <2>1 DEF Funded, WithinOverdraft, Seen
  <2> QED
    BY <2>6, <2>7
<1>5. CASE Rollback(r) \/ BeginEvent(r) \/ BeginReset(r) \/ GetForUpdate(r) \/ FindDestination(r)
  BY <1>2, <1>5 DEF Rollback, BeginEvent, BeginReset, GetForUpdate, FindDestination, bank
<1>6. CASE FirstRowMissing(r) /\ req[r].op = "deposit"
  BY <1>2, <1>6, DepositCreates
<1>7. CASE InsertAccount(r) \/ LockAccount(r) \/ InsertTransaction(r) \/ UpdateBalance(r)
           \/ Truncate(r)
  BY <1>2, <1>7 DEF InsertAccount, LockAccount, InsertTransaction, UpdateBalance, Truncate, bank
<1> QED
  BY <1>3, <1>4, <1>5, <1>6, <1>7 DEF Moves

(***************************************************************************)
(* A step that changes nothing preserves everything.                       *)
(***************************************************************************)
LEMMA StutterIInv == IInv /\ UNCHANGED vars => IInv'
<1> SUFFICES ASSUME IInv, UNCHANGED vars PROVE IInv'
  OBVIOUS
<1> USE DEF vars, bank, tx
<1>1. TypeOK' /\ Control' /\ TableInv' /\ Exclusive'
  BY DEF IInv, TypeOK, Control, TableInv, Exclusive, Running
<1>2. CachedIsSum' /\ WithinOverdraft'
  BY DEF IInv, CachedIsSum, WithinOverdraft
<1>3. \A r \in Requests : LeftAlone(r)
  BY DEF LeftAlone
<1>4. \A r \in Requests : Locked(r)' /\ Funded(r)' /\ Summed(r)'
  BY <1>1, <1>3, AloneKeeps
<1> QED
  BY <1>1, <1>2, <1>4 DEF IInv

(***************************************************************************)
(* When the database is opened, nobody has locked or written anything.     *)
(***************************************************************************)
LEMMA InitIInv == Init => IInv
<1> SUFFICES ASSUME Init PROVE IInv
  OBVIOUS
<1> USE LegacyConstants DEF Init
<1>1. \A r \in Requests : pc[r] = "idle" /\ held[r] = {} /\ tables[r] = {}
                          /\ \A a \in Ids : pend[r][a] = Absent /\ txns[r][a] = 0
  OBVIOUS
<1>2. TypeOK
  <2>1. balance \in [Ids -> MaybeInt]
    BY DEF MaybeInt
  <2>2. \A a \in Ids : (IF balance[a] = Absent THEN 0 ELSE balance[a]) \in Int
    BY <2>1 DEF MaybeInt
  <2>3. total \in [Ids -> Int]
    BY <2>2
  <2> QED
    BY <2>1, <2>3, <1>1 DEF TypeOK, MaybeInt, PCs, Running
<1>3. Control /\ TableInv /\ Exclusive
  BY <1>1 DEF Control, TableInv, Exclusive, Running, PastFirst
<1>4. CachedIsSum /\ WithinOverdraft
  BY LimitOfTruncated DEF CachedIsSum, WithinOverdraft
<1>5. \A r \in Requests : Locked(r) /\ Funded(r)
  BY <1>1 DEF Locked, Funded
<1>6. \A r \in Requests, a \in Ids : Seen(r, a) = balance[a] /\ Owed(r, a) = 0
  BY <1>1 DEF Seen, Owed, AtRow
<1>7. \A a \in Ids : OrZero(balance[a]) \in Int
  BY <1>2 DEF TypeOK, MaybeInt, OrZero
<1>8. \A r \in Requests : Summed(r)
  BY <1>1, <1>6, <1>7 DEF Summed, AtRow
<1> QED
  BY <1>2, <1>3, <1>4, <1>5, <1>8 DEF IInv

(***************************************************************************)
(* Every step preserves the invariant.                                     *)
(***************************************************************************)
LEMMA StepIInv == IInv /\ [Next]_vars => IInv'
<1> SUFFICES ASSUME IInv, [Next]_vars PROVE IInv'
  OBVIOUS
<1>1. CASE UNCHANGED vars
  BY <1>1, StutterIInv
<1>2. ASSUME NEW r \in Requests, Moves(r) \/ Rollback(r) PROVE IInv'
  <2>1. TypeOK' /\ Control' /\ TableInv'
    BY TypeStep, ControlStep, TableStep
  <2>2. Exclusive' /\ CachedIsSum' /\ WithinOverdraft'
    BY <1>2, ExclusiveStep, CommittedStep
  <2>3. Locked(r)' /\ Funded(r)' /\ Summed(r)'
    BY <1>2, <2>1, OwnLocked, OwnFunded, OwnSummed
  <2>4. \A s \in Requests \ {r} : Locked(s)' /\ Funded(s)' /\ Summed(s)'
    BY <1>2, <2>1, OthersAlone, AloneKeeps
  <2> QED
    BY <2>1, <2>2, <2>3, <2>4 DEF IInv
<1> QED
  BY <1>1, <1>2, StepCases

-----------------------------------------------------------------------------
(***************************************************************************)
(* The invariant holds in every state of every behaviour.                  *)
(***************************************************************************)
THEOREM Inductive == Spec => []IInv
BY InitIInv, StepIInv, PTL DEF Spec

(***************************************************************************)
(* The variables keep their types: no balance is ever computed from a row  *)
(* that is not there.                                                      *)
(***************************************************************************)
THEOREM TypeCorrect == Spec => []TypeOK
<1>1. IInv => TypeOK
  BY DEF IInv
<1> QED
  BY <1>1, Inductive, PTL

(***************************************************************************)
(* balance_cached is the sum of the transactions of its account in every   *)
(* committed state, for any number of concurrent events and resets.        *)
(***************************************************************************)
THEOREM CachedIsSumHolds == Spec => []CachedIsSum
<1>1. IInv => CachedIsSum
  BY DEF IInv
<1> QED
  BY <1>1, Inductive, PTL

(***************************************************************************)
(* No account falls a whole unit below the overdraft limit, whichever      *)
(* requests validate it at the same time and whatever cents it holds.      *)
(***************************************************************************)
THEOREM WithinOverdraftHolds == Spec => []WithinOverdraft
<1>1. IInv => WithinOverdraft
  BY DEF IInv
<1> QED
  BY <1>1, Inductive, PTL

(***************************************************************************)
(* record_transaction always finds the row it writes.                      *)
(***************************************************************************)
THEOREM UpdatesHitRowsHolds == Spec => []UpdatesHitRows
<1>1. IInv => UpdatesHitRows
  BY DEF IInv, Locked, UpdatesHitRows
<1> QED
  BY <1>1, Inductive, PTL
=============================================================================
