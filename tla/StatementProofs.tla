-------------------------- MODULE StatementProofs --------------------------
(***************************************************************************)
(* Proofs about Statement, for any accounts, postings, readers, filters,   *)
(* page size and row limit.                                                *)
(*                                                                         *)
(* None of the properties is inductive: a page is taken from rows whose    *)
(* ids were drawn statements earlier, and a receipt from a row, a holder   *)
(* and a stored document read at three different times.  What the readers  *)
(* need of the postings is that the pending rows of an account are newer   *)
(* than its committed ones, which its lock ensures; what the receipts need *)
(* is that whatever was read of a holder is not newer than the holder.     *)
(* The export's two SELECTs see different states: ExportInv says that no   *)
(* row committed since the first belongs before or between its lines.      *)
(***************************************************************************)
EXTENDS Statement, SetTheorems

Places == Accounts \cup {NoAccount}
PostingPcs == {"idle", "lock", "insert", "commit", "done"}
ReadingPcs == {"idle", "list", "export", "opening", "parties", "get", "put",
               "done", "refused", "failed"}
Ops == {"none", "list", "export", "receipt"}

Posting == [pc : PostingPcs, src : Places, dst : Places, at : Nat, rows : SUBSET Row]

\* A reading request; o, d and i stand for what the type leaves open.
Reading(o, d, i) ==
  [pc : ReadingPcs, op : Ops, acct : Places, filter : Filters \cup {NoFilter},
   shown : Seq(Row), opening : {o}, tx : Nat, doc : {d}, issued : {i}]

-----------------------------------------------------------------------------
\* The rows inserted so far and not taken back.
Known == rows \cup UNION {wr[w].rows : w \in Writers}

(***************************************************************************)
(* Sign, type and counterparty of a row go together.                       *)
(***************************************************************************)
Consistent(r) ==
  /\ r.amt >= 0 <=> r.type \in {"demo_grant", "transfer_in"}
  /\ r.cp = NoAccount <=> r.type \in {"demo_grant", "withdraw"}

\* The two rows of a transfer are next to each other.
Paired(S) ==
  \A r \in S :
    /\ r.type = "transfer_out" => \E s \in S : s.id = r.id + 1 /\ s.type = "transfer_in"
    /\ r.type = "transfer_in" => \E s \in S : r.id = s.id + 1 /\ s.type = "transfer_out"

RowInv ==
  /\ \A r \in Known : r.id < seq /\ Consistent(r)
  /\ \A r, s \in Known : r.id = s.id => r = s
  /\ IsFiniteSet(rows) /\ Paired(rows)

PostingInv ==
  \A w \in Writers :
    /\ wr[w].pc # "commit" => wr[w].rows = {}
    /\ wr[w].pc \in {"lock", "insert", "commit"} => wr[w].src # wr[w].dst
    /\ \A r \in wr[w].rows : r.acct \in Touched(w)
    /\ IsFiniteSet(wr[w].rows) /\ Paired(wr[w].rows)

(***************************************************************************)
(* Postings past their lock have different accounts, so what one of them   *)
(* has inserted stays newer than what is committed on its accounts.        *)
(***************************************************************************)
Locked(w) == wr[w].pc \in {"insert", "commit"}

LockInv ==
  /\ \A v, w \in Writers : v # w /\ Locked(v) /\ Locked(w) => Touched(v) \cap Touched(w) = {}
  /\ \A w \in Writers : \A r \in wr[w].rows : \A s \in rows : r.acct = s.acct => s.id < r.id

-----------------------------------------------------------------------------
(***************************************************************************)
(* Which statements an endpoint passes; only listing and exporting show    *)
(* rows, all of them rows their filter selects.                            *)
(***************************************************************************)
ReadingInv(q) ==
  /\ rd[q].op = "none" => rd[q].pc = "idle"
  /\ rd[q].op = "list" => rd[q].pc \in {"idle", "list", "done", "refused"}
  /\ rd[q].op = "export" => rd[q].pc \in {"idle", "export", "opening", "done", "refused"}
  /\ rd[q].op = "receipt" =>
       rd[q].pc \in {"idle", "parties", "get", "put", "done", "refused", "failed"}
  /\ rd[q].pc \in {"idle", "refused"} \/ rd[q].op = "receipt" => rd[q].shown = <<>>
  /\ Range(rd[q].shown) \subseteq Selected(q)

WalkInv(q) ==
  rd[q].op = "list" /\ rd[q].shown # <<>> =>
    LET s == rd[q].shown IN
    /\ \A i \in 1..Len(s) - 1 : s[i].id > s[i + 1].id
    /\ Range(s) = {r \in Selected(q) : /\ r.id <= s[1].id
                                       /\ Done(q, "list") \/ r.id >= Last(s).id}

(***************************************************************************)
(* What may have been read of the holder of an account so far, and the     *)
(* receipts of a row that may have been printed.                           *)
(***************************************************************************)
Seen(a) ==
  IF a = NoAccount THEN {[acct |-> a, holder |-> 0]}
  ELSE {[acct |-> a, holder |-> h] : h \in 0..holder[Owner(a)]}

Printed(r) == {Receipt(r, own, other) : own \in Seen(r.acct), other \in Seen(r.cp)}

\* The row a receipt was asked for, of an account of the subject.
Asked(q, r) == r.id = rd[q].tx /\ r.acct = rd[q].acct /\ r.acct \in Mine

ReceiptInv(q) ==
  rd[q].op = "receipt" =>
    /\ rd[q].pc = "parties" => \E r \in rows : Asked(q, r) /\ \E p \in Seen(r.cp) : rd[q].doc = <<p>>
    /\ rd[q].pc \in {"get", "put", "done"} =>
         \E r \in rows : Asked(q, r) /\ \E d \in Printed(r) : rd[q].doc = <<d>>

StoreInv ==
  \A e \in store : \E r \in rows : \E d \in Printed(r) :
    e = [key |-> receipt_key(r.acct, r.id), doc |-> d, issued |-> e.issued]

-----------------------------------------------------------------------------
LedgerInv ==
  /\ rows \subseteq Row /\ seq \in Nat /\ clock \in 1..MaxClock
  /\ wr \in [Writers -> Posting]
  /\ RowInv /\ PostingInv /\ LockInv

ReaderInv(q) ==
  /\ rd[q] \in Reading(rd[q].opening, rd[q].doc, rd[q].issued)
  /\ ReadingInv(q) /\ WalkInv(q) /\ ReceiptInv(q)

ReadersInv ==
  /\ holder \in [{"me", "other"} -> 0..MaxVersion]
  /\ enabled \in BOOLEAN
  /\ rd = [q \in Readers |-> rd[q]]
  /\ StoreInv
  /\ \A q \in Readers : ReaderInv(q)

IInv == LedgerInv /\ ReadersInv

-----------------------------------------------------------------------------
\* The rows of S before r in a statement, and the place of each.
Above(S, r) == {s \in S : s.id > r.id}
Place(S) == [r \in S |-> Cardinality(Above(S, r)) + 1]

(***************************************************************************)
(* Rows of different ids have different places, which take every value up  *)
(* to the number of rows: ORDER BY id DESC is defined.                     *)
(***************************************************************************)
LEMMA Places1ToN ==
  ASSUME NEW S, S \subseteq Row, IsFiniteSet(S), \A r, s \in S : r.id = s.id => r = s
  PROVE  /\ Cardinality(S) \in Nat
         /\ Place(S) \in [S -> 1..Cardinality(S)]
         /\ \A r, s \in S : r.id > s.id <=> Place(S)[r] < Place(S)[s]
         /\ \A i \in 1..Cardinality(S) : \E r \in S : Place(S)[r] = i
<1> DEFINE f == Place(S)
           n == Cardinality(S)
<1>1. n \in Nat
  BY FS_CardinalityType
<1>2. \A r \in S : r.id \in Nat
  BY DEF Row
<1> HIDE DEF n
<1>3. ASSUME NEW r \in S
      PROVE  IsFiniteSet(Above(S, r)) /\ Cardinality(Above(S, r)) \in 0..n - 1
  <2>1. Above(S, r) \in SUBSET S /\ Above(S, r) # S
    BY <1>2 DEF Above
  <2>2. IsFiniteSet(Above(S, r)) /\ Cardinality(Above(S, r)) <= n /\ Cardinality(Above(S, r)) # n
    BY <2>1, FS_Subset DEF n
  <2>3. Cardinality(Above(S, r)) \in Nat
    BY <2>2, FS_CardinalityType
  <2> QED
    BY <1>1, <2>2, <2>3
<1>4. f \in [S -> 1..n] /\ \A r \in S : f[r] = Cardinality(Above(S, r)) + 1
  BY <1>1, <1>3 DEF Place
<1> HIDE DEF f
<1>5. ASSUME NEW r \in S, NEW s \in S, r.id > s.id
      PROVE  f[r] < f[s]
  <2>1. Above(S, r) \in SUBSET Above(S, s) /\ Above(S, r) # Above(S, s)
    BY <1>2, <1>5 DEF Above
  <2>2. /\ Cardinality(Above(S, r)) <= Cardinality(Above(S, s))
        /\ Cardinality(Above(S, r)) # Cardinality(Above(S, s))
    BY <1>3, <2>1, FS_Subset
  <2>3. Cardinality(Above(S, r)) \in 0..n - 1 /\ Cardinality(Above(S, s)) \in 0..n - 1
    BY <1>3
  <2> QED
    BY <1>1, <1>4, <2>2, <2>3
<1>6. ASSUME NEW r \in S, NEW s \in S
      PROVE  r.id > s.id <=> f[r] < f[s]
  <2>1. r.id \in Nat /\ s.id \in Nat /\ f[r] \in Nat /\ f[s] \in Nat /\ (r.id = s.id => r = s)
    BY <1>1, <1>2, <1>4
  <2>2. (r.id > s.id => f[r] < f[s]) /\ (s.id > r.id => f[s] < f[r])
    BY <1>5
  <2> QED
    BY <2>1, <2>2
<1>7. f \in Injection(S, 1..n)
  <2>1. ASSUME NEW r \in S, NEW s \in S, f[r] = f[s]
        PROVE  r = s
    <3>1. r.id \in Nat /\ s.id \in Nat /\ f[r] \in Nat /\ f[s] \in Nat
      BY <1>1, <1>2, <1>4
    <3>2. r.id = s.id
      BY <1>6, <2>1, <3>1
    <3> QED
      BY <3>2
  <2> QED
    BY <1>4, <2>1, Zenon DEF Injection, IsInjective
<1>8. IsFiniteSet(1..n) /\ Cardinality(1..n) = n
  BY <1>1, FS_Interval
<1>9. f \in Surjection(S, 1..n)
  BY <1>7, <1>8, FS_Injection DEF n
<1> QED
  BY <1>1, <1>4, <1>6, <1>9 DEF Surjection, n, f

(***************************************************************************)
(* NewestFirst(S) has every row of S once, by falling ids.                 *)
(***************************************************************************)
LEMMA NewestFirstSorts ==
  ASSUME NEW S, S \subseteq Row, IsFiniteSet(S), \A r, s \in S : r.id = s.id => r = s
  PROVE  /\ NewestFirst(S) \in Seq(Row) /\ Range(NewestFirst(S)) = S
         /\ \A i, j \in 1..Len(NewestFirst(S)) : i < j => NewestFirst(S)[i].id > NewestFirst(S)[j].id
<1> DEFINE f == Place(S)
           u == NewestFirst(S)
           n == Cardinality(S)
<1>1. /\ n \in Nat /\ f \in [S -> 1..n]
      /\ \A r, s \in S : r.id > s.id <=> f[r] < f[s]
      /\ \A i \in 1..n : \E r \in S : f[r] = i
  BY Places1ToN
<1>2. \A r \in S : Cardinality(Above(S, r)) \in Nat /\ f[r] = Cardinality(Above(S, r)) + 1
  <2> TAKE r \in S
  <2>1. Above(S, r) \in SUBSET S
    BY DEF Above
  <2> QED
    BY <2>1, FS_Subset, FS_CardinalityType DEF Place
<1>3. u = [i \in 1..n |-> CHOOSE x \in S : Cardinality(Above(S, x)) = i - 1]
  BY Zenon DEF NewestFirst, Above
<1> HIDE DEF f, u, n
<1>4. ASSUME NEW i \in 1..n
      PROVE  u[i] \in S /\ f[u[i]] = i
  <2>1. PICK r \in S : f[r] = i
    BY <1>1
  <2>2. Cardinality(Above(S, r)) = i - 1
    BY <1>2, <2>1
  <2>3. u[i] = CHOOSE x \in S : Cardinality(Above(S, x)) = i - 1
    BY <1>3
  <2>4. u[i] \in S /\ Cardinality(Above(S, u[i])) = i - 1
    BY <2>2, <2>3, Zenon
  <2> QED
    BY <1>2, <2>4
<1>5. DOMAIN u = 1..n /\ u \in [1..n -> Row]
  BY <1>3, <1>4
<1>6. u \in Seq(Row) /\ Len(u) = n
  BY <1>1, <1>5
<1>7. \A r \in S : u[f[r]] = r
  <2> TAKE r \in S
  <2>1. f[r] \in 1..n /\ u[f[r]] \in S /\ f[u[f[r]]] = f[r]
    BY <1>1, <1>4
  <2>2. r.id \in Nat /\ u[f[r]].id \in Nat
    BY <2>1 DEF Row
  <2>3. r.id = u[f[r]].id
    BY <1>1, <2>1, <2>2
  <2> QED
    BY <2>1, <2>3
<1>8. Range(u) = S
  BY <1>1, <1>4, <1>5, <1>7 DEF Range
<1>9. \A i, j \in 1..n : i < j => u[i].id > u[j].id
  BY <1>1, <1>4
<1> QED
  BY <1>6, <1>8, <1>9 DEF u

(***************************************************************************)
(* OldestFirst(S) has every row of S once, by rising ids: as many rows     *)
(* follow one in this order as precede it in the other.                    *)
(***************************************************************************)
LEMMA OldestFirstSorts ==
  ASSUME NEW S, S \subseteq Row, IsFiniteSet(S), \A r, s \in S : r.id = s.id => r = s
  PROVE  /\ OldestFirst(S) \in Seq(Row) /\ Range(OldestFirst(S)) = S
         /\ \A i, j \in 1..Len(OldestFirst(S)) : i < j => OldestFirst(S)[i].id < OldestFirst(S)[j].id
<1> DEFINE f == Place(S)
           u == OldestFirst(S)
           n == Cardinality(S)
           Below(r) == {s \in S : s.id < r.id}
<1>1. /\ n \in Nat /\ f \in [S -> 1..n]
      /\ \A r, s \in S : r.id > s.id <=> f[r] < f[s]
      /\ \A i \in 1..n : \E r \in S : f[r] = i
  BY Places1ToN
<1>2. \A r \in S : Cardinality(Below(r)) = n - f[r]
  <2> TAKE r \in S
  <2>1. \A s \in S : s.id \in Nat
    BY DEF Row
  <2>2. Above(S, r) \in SUBSET S /\ r \notin Above(S, r)
    BY <2>1 DEF Above
  <2>3. Below(r) = S \ (Above(S, r) \cup {r}) /\ S \cap (Above(S, r) \cup {r}) = Above(S, r) \cup {r}
    BY <2>1, <2>2 DEF Above
  <2>4. IsFiniteSet(Above(S, r))
    BY <2>2, FS_Subset
  <2>5. Cardinality(Above(S, r) \cup {r}) = f[r]
    BY <2>2, <2>4, FS_AddElement DEF Place
  <2>6. Cardinality(Below(r)) = n - Cardinality(S \cap (Above(S, r) \cup {r}))
    BY <2>3, FS_Difference
  <2> QED
    BY <2>3, <2>5, <2>6
<1>3. u = [i \in 1..n |-> CHOOSE x \in S : Cardinality(Below(x)) = i - 1]
  BY Zenon DEF OldestFirst
<1> HIDE DEF f, u, n, Below
<1>4. ASSUME NEW i \in 1..n
      PROVE  u[i] \in S /\ f[u[i]] = n + 1 - i
  <2>0. n + 1 - i \in 1..n
    BY <1>1
  <2>1. PICK r \in S : f[r] = n + 1 - i
    BY <1>1, <2>0
  <2>2. Cardinality(Below(r)) = i - 1
    BY <1>1, <1>2, <2>1
  <2>3. u[i] = CHOOSE x \in S : Cardinality(Below(x)) = i - 1
    BY <1>3
  <2>4. u[i] \in S /\ Cardinality(Below(u[i])) = i - 1
    BY <2>2, <2>3, Zenon
  <2>5. f[u[i]] \in 1..n /\ Cardinality(Below(u[i])) = n - f[u[i]]
    BY <1>1, <1>2, <2>4
  <2> QED
    BY <1>1, <2>4, <2>5
<1>5. DOMAIN u = 1..n /\ u \in [1..n -> Row]
  BY <1>3, <1>4
<1>6. u \in Seq(Row) /\ Len(u) = n
  BY <1>1, <1>5
<1>7. \A r \in S : n + 1 - f[r] \in 1..n /\ u[n + 1 - f[r]] = r
  <2> TAKE r \in S
  <2>0. f[r] \in 1..n /\ n + 1 - f[r] \in 1..n
    BY <1>1
  <2>1. u[n + 1 - f[r]] \in S /\ f[u[n + 1 - f[r]]] = f[r]
    BY <1>1, <1>4, <2>0
  <2>2. r.id \in Nat /\ u[n + 1 - f[r]].id \in Nat
    BY <2>1 DEF Row
  <2>3. r.id = u[n + 1 - f[r]].id
    BY <1>1, <2>0, <2>1, <2>2
  <2> QED
    BY <2>0, <2>1, <2>3
<1>8. Range(u) = S
  BY <1>1, <1>4, <1>5, <1>7 DEF Range
<1>9. ASSUME NEW i \in 1..n, NEW j \in 1..n, i < j
      PROVE  u[i].id < u[j].id
  <2>1. u[i] \in S /\ u[j] \in S /\ f[u[j]] < f[u[i]]
    BY <1>1, <1>4, <1>9
  <2>2. u[i].id \in Nat /\ u[j].id \in Nat
    BY <2>1 DEF Row
  <2> QED
    BY <1>1, <2>1, <2>2
<1> QED
  BY <1>6, <1>8, <1>9 DEF u

(***************************************************************************)
(* LIMIT n keeps the first n rows.                                         *)
(***************************************************************************)
LEMMA TakeKeeps ==
  ASSUME NEW s \in Seq(Row), NEW n \in Nat \ {0}
  PROVE  /\ Take(s, n) \in Seq(Row) /\ Len(Take(s, n)) <= Len(s)
         /\ Take(s, n) = <<>> <=> s = <<>>
         /\ \A i \in 1..Len(Take(s, n)) : Take(s, n)[i] = s[i]
         /\ Range(Take(s, n)) \subseteq Range(s)
<1>1. CASE Len(s) <= n
  BY <1>1 DEF Take
<1>2. CASE ~(Len(s) <= n)
  <2>1. Take(s, n) = SubSeq(s, 1, n) /\ n \in 1..Len(s) /\ Len(s) \in Nat
    BY <1>2 DEF Take
  <2>2. Take(s, n) \in Seq(Row) /\ Len(Take(s, n)) = n /\ \A i \in 1..n : Take(s, n)[i] = s[i]
    BY <2>1
  <2>3. Range(Take(s, n)) \subseteq Range(s)
    BY <2>1, <2>2 DEF Range
  <2> QED
    BY <2>1, <2>2, <2>3
<1> QED
  BY <1>1, <1>2

(***************************************************************************)
(* A page has the newest rows of S: its ids fall, it is empty only if S    *)
(* is, and S has nothing between its rows.                                 *)
(***************************************************************************)
LEMMA PageOf ==
  ASSUME NEW S, S \subseteq Row, IsFiniteSet(S), \A r, s \in S : r.id = s.id => r = s,
         NEW p, p = Take(NewestFirst(S), PageSize)
  PROVE  /\ p \in Seq(Row) /\ Range(p) \subseteq S
         /\ \A i, j \in 1..Len(p) : i < j => p[i].id > p[j].id
         /\ p = <<>> <=> S = {}
         /\ p # <<>> => Range(p) = {r \in S : r.id >= p[Len(p)].id}
<1> DEFINE u == NewestFirst(S)
<1>1. /\ u \in Seq(Row) /\ Range(u) = S
      /\ \A i, j \in 1..Len(u) : i < j => u[i].id > u[j].id
  BY NewestFirstSorts
<1>2. PageSize \in Nat \ {0}
  BY StatementConstants
<1>3. /\ p \in Seq(Row) /\ Len(p) <= Len(u) /\ (p = <<>> <=> u = <<>>)
      /\ \A i \in 1..Len(p) : p[i] = u[i]
      /\ Range(p) \subseteq Range(u)
  BY <1>1, <1>2, TakeKeeps
<1>4. u = <<>> <=> S = {}
  BY <1>1 DEF Range
<1> HIDE DEF u
<1>5. \A i, j \in 1..Len(p) : i < j => p[i].id > p[j].id
  BY <1>1, <1>3
<1>6. ASSUME p # <<>>
      PROVE  Range(p) = {r \in S : r.id >= p[Len(p)].id}
  <2>0. Len(p) \in Nat /\ Len(p) > 0 /\ Len(u) \in Nat
    BY <1>1, <1>3, <1>6
  <2>1. \A i \in 1..Len(u) : u[i].id \in Nat
    <3>1. \A i \in 1..Len(u) : u[i] \in Row
      BY <1>1
    <3> QED
      BY <3>1 DEF Row
  <2>2. \A i \in 1..Len(p) : p[i].id >= p[Len(p)].id
    BY <1>1, <1>3, <1>5, <2>0, <2>1
  <2>3. ASSUME NEW r \in S, r.id >= p[Len(p)].id
        PROVE  r \in Range(p)
    <3>1. PICK i \in 1..Len(u) : u[i] = r
      BY <1>1 DEF Range
    <3>2. i <= Len(p)
      BY <1>1, <1>3, <2>0, <2>1, <2>3, <3>1
    <3> QED
      BY <1>3, <2>0, <3>1, <3>2 DEF Range
  <2> QED
    BY <1>1, <1>3, <2>2, <2>3 DEF Range
<1> QED
  BY <1>1, <1>3, <1>4, <1>5, <1>6

-----------------------------------------------------------------------------
(***************************************************************************)
(* The granted accounts have one row each, and nothing is under way.       *)
(***************************************************************************)
LEMMA InitLedger == Init => LedgerInv
<1> SUFFICES ASSUME Init PROVE LedgerInv
  OBVIOUS
<1>1. /\ wr = [w \in Writers |-> IdleWriter] /\ seq = Max(Accounts) + 1 /\ clock = 1
      /\ rows = {[id |-> a, acct |-> a, cp |-> NoAccount, amt |-> Welcome, at |-> 1,
                  type |-> "demo_grant"] : a \in Granted}
  BY DEF Init
<1>2. /\ Accounts \subseteq Nat /\ IsFiniteSet(Accounts) /\ Granted \subseteq Accounts
      /\ Accounts # {} /\ Welcome \in Nat \ {0} /\ MaxClock \in Nat \ {0} /\ NoAccount \notin Accounts
  BY StatementConstants
<1>3. Max(Accounts) \in Accounts /\ \A a \in Accounts : a <= Max(Accounts)
  BY <1>2, MaxOf
<1>4. rows \subseteq Row /\ seq \in Nat /\ clock \in 1..MaxClock
  <2>1. \A a \in Granted : a \in Accounts /\ a \in Nat
    BY <1>2
  <2>2. rows \subseteq Row
    BY <1>1, <1>2, <2>1 DEF Row, Types
  <2>3. Max(Accounts) \in Nat
    BY <1>2, <1>3
  <2>4. seq \in Nat
    BY <1>1, <2>3
  <2>5. clock \in 1..MaxClock
    BY <1>1, <1>2
  <2> QED
    BY <2>2, <2>4, <2>5
<1>5. wr \in [Writers -> Posting] /\ \A w \in Writers : wr[w] = IdleWriter /\ wr[w].rows = {} /\ wr[w].pc = "idle"
  BY <1>1 DEF IdleWriter, Posting, PostingPcs, Places
<1>6. Known = rows
  BY <1>5 DEF Known
<1>7. \A r \in rows : r.id \in Granted /\ r.amt = Welcome /\ r.type = "demo_grant" /\ r.cp = NoAccount
  BY <1>1
<1>8. \A r, s \in rows : r.id = s.id => r = s
  BY <1>1
<1>9. IsFiniteSet(rows)
  <2> DEFINE f == [a \in Granted |-> [id |-> a, acct |-> a, cp |-> NoAccount, amt |-> Welcome, at |-> 1,
                                      type |-> "demo_grant"]]
  <2>1. IsFiniteSet(Granted)
    BY <1>2, FS_Subset
  <2>2. f \in Surjection(Granted, rows)
    BY <1>1 DEF Surjection
  <2> QED
    BY <2>1, <2>2, FS_Surjection
<1>10. RowInv
  <2>1. \A r \in rows : r.id < seq
    <3>1. Max(Accounts) \in Nat /\ \A a \in Granted : a \in Nat /\ a <= Max(Accounts)
      BY <1>2, <1>3
    <3> QED
      BY <1>1, <1>7, <3>1
  <2>2. \A r \in rows : Consistent(r)
    BY <1>2, <1>7 DEF Consistent
  <2>3. Paired(rows)
    BY <1>7 DEF Paired
  <2> QED
    BY <1>6, <1>8, <1>9, <2>1, <2>2, <2>3 DEF RowInv
<1>11. PostingInv /\ LockInv
  BY <1>5, FS_EmptySet DEF PostingInv, LockInv, Locked, Paired
<1> QED
  BY <1>4, <1>5, <1>10, <1>11 DEF LedgerInv

(***************************************************************************)
(* No request has read anything.                                           *)
(***************************************************************************)
LEMMA InitReaders == Init => ReadersInv
<1> SUFFICES ASSUME Init PROVE ReadersInv
  OBVIOUS
<1>1. PICK load \in Loads : rd = [q \in Readers |-> [IdleReader EXCEPT !.op = load[q]]]
  BY DEF Init
<1>2. \A q \in Readers : load[q] \in Ops
  BY StatementConstants DEF Ops
<1>3. holder \in [{"me", "other"} -> 0..MaxVersion]
  BY StatementConstants DEF Init
<1>4. enabled \in BOOLEAN
  BY Zenon DEF Init
<1>5. StoreInv
  BY DEF Init, StoreInv
<1>6. ASSUME NEW q \in Readers
      PROVE  ReaderInv(q)
  <2>1. /\ rd[q] = [pc |-> "idle", op |-> load[q], acct |-> NoAccount, filter |-> NoFilter,
                    shown |-> <<>>, opening |-> 0, tx |-> 0, doc |-> <<>>, issued |-> 0]
        /\ load[q] \in Ops
    BY <1>1, <1>2 DEF IdleReader
  <2>2. rd[q] \in Reading(rd[q].opening, rd[q].doc, rd[q].issued)
    BY <2>1 DEF Reading, ReadingPcs, Places
  <2>3. ReadingInv(q)
    BY <2>1 DEF ReadingInv, Range
  <2>4. WalkInv(q) /\ ReceiptInv(q)
    BY <2>1 DEF WalkInv, ReceiptInv
  <2> QED
    BY <2>2, <2>3, <2>4 DEF ReaderInv
<1> QED
  BY <1>1, <1>3, <1>4, <1>5, <1>6, Zenon DEF ReadersInv

-----------------------------------------------------------------------------
(***************************************************************************)
(* Beginning fixes the accounts and the time.                              *)
(***************************************************************************)
LEMMA BeginStep ==
  ASSUME LedgerInv, NEW w \in Writers, BeginPosting(w)
  PROVE  LedgerInv' /\ rows' = rows
<1>1. PICK m \in Moves :
        /\ wr[w].pc = "idle" /\ clock' = clock
        /\ wr' = [wr EXCEPT ![w].pc = "lock", ![w].src = m[1], ![w].dst = m[2], ![w].at = clock]
        /\ rows' = rows /\ seq' = seq
  BY DEF BeginPosting
<1>2. m[1] \in Places /\ m[2] \in Places /\ m[1] # m[2] /\ MaxClock \in Nat
  BY StatementConstants DEF Places
<1>3. wr \in [Writers -> Posting] /\ clock \in 1..MaxClock /\ clock \in Nat
  BY <1>1, <1>2 DEF LedgerInv
<1>4. wr[w] \in Posting /\ wr[w].rows = {}
  BY <1>1, <1>3 DEF LedgerInv, PostingInv
<1>5. /\ wr'[w] \in Posting /\ wr'[w].pc = "lock" /\ wr'[w].src = m[1] /\ wr'[w].dst = m[2]
      /\ wr'[w].rows = {}
  BY <1>1, <1>2, <1>3, <1>4 DEF Posting, PostingPcs
<1>6. /\ wr' \in [Writers -> Posting] /\ \A v \in Writers : wr'[v].rows = wr[v].rows
      /\ \A v \in Writers \ {w} : wr'[v] = wr[v]
  BY <1>1, <1>3, <1>4, <1>5
<1>7. Known' = Known
  BY <1>1, <1>6 DEF Known
<1>8. RowInv'
  BY <1>1, <1>7 DEF LedgerInv, RowInv, Paired
<1>9. PostingInv'
  BY <1>2, <1>4, <1>5, <1>6 DEF LedgerInv, PostingInv, Touched, Paired
<1>10. LockInv'
  BY <1>1, <1>5, <1>6 DEF LedgerInv, LockInv, Locked, Touched
<1> QED
  BY <1>1, <1>3, <1>6, <1>8, <1>9, <1>10 DEF LedgerInv

(***************************************************************************)
(* The lock is granted when no other posting holds one on its accounts.    *)
(***************************************************************************)
LEMMA LockStep ==
  ASSUME LedgerInv, NEW w \in Writers, LockAccounts(w)
  PROVE  LedgerInv' /\ rows' = rows
<1>1. /\ wr[w].pc = "lock" /\ wr' = [wr EXCEPT ![w].pc = "insert"]
      /\ \A v \in Writers : Locked(v) => Touched(v) \cap Touched(w) = {}
      /\ rows' = rows /\ seq' = seq /\ clock' = clock
  BY DEF LockAccounts, Locked
<1>2. wr \in [Writers -> Posting] /\ wr[w] \in Posting /\ wr[w].rows = {}
  BY <1>1 DEF LedgerInv, PostingInv
<1>3. /\ wr'[w] \in Posting /\ wr'[w].pc = "insert" /\ wr'[w].src = wr[w].src
      /\ wr'[w].dst = wr[w].dst /\ wr'[w].rows = {}
  BY <1>1, <1>2 DEF Posting, PostingPcs
<1>4. /\ wr' \in [Writers -> Posting] /\ \A v \in Writers : wr'[v].rows = wr[v].rows
      /\ \A v \in Writers \ {w} : wr'[v] = wr[v]
  BY <1>1, <1>2, <1>3
<1>5. \A v \in Writers : Touched(v)' = Touched(v)
  BY <1>3, <1>4 DEF Touched
<1>6. Known' = Known
  BY <1>1, <1>4 DEF Known
<1>7. RowInv'
  BY <1>1, <1>6 DEF LedgerInv, RowInv, Paired
<1>8. PostingInv'
  BY <1>1, <1>2, <1>3, <1>4, <1>5 DEF LedgerInv, PostingInv, Paired
<1>9. LockInv'
  <2>1. \A v \in Writers \ {w} : Locked(v)' = Locked(v)
    BY <1>4 DEF Locked
  <2>2. \A u, v \in Writers : u # v /\ Locked(u)' /\ Locked(v)' => Touched(u) \cap Touched(v) = {}
    BY <1>1, <2>1 DEF LedgerInv, LockInv
  <2> QED
    BY <1>1, <1>4, <1>5, <2>2 DEF LedgerInv, LockInv
<1> QED
  BY <1>1, <1>4, <1>7, <1>8, <1>9 DEF LedgerInv

(***************************************************************************)
(* A rollback takes the pending rows back.                                 *)
(***************************************************************************)
LEMMA AbortStep ==
  ASSUME LedgerInv, NEW w \in Writers, AbortPosting(w)
  PROVE  LedgerInv' /\ rows' = rows
<1>1. /\ wr' = [wr EXCEPT ![w] = [IdleWriter EXCEPT !.pc = "done"]]
      /\ rows' = rows /\ seq' = seq /\ clock' = clock
  BY DEF AbortPosting
<1>2. wr \in [Writers -> Posting]
  BY DEF LedgerInv
<1>3. wr'[w] \in Posting /\ wr'[w].pc = "done" /\ wr'[w].rows = {}
  BY <1>1, <1>2 DEF Posting, PostingPcs, Places, IdleWriter
<1>4. wr' \in [Writers -> Posting] /\ \A v \in Writers \ {w} : wr'[v] = wr[v]
  BY <1>1, <1>2, <1>3
<1>5. Known' \subseteq Known
  BY <1>1, <1>3, <1>4 DEF Known
<1>6. RowInv'
  BY <1>1, <1>5 DEF LedgerInv, RowInv, Paired
<1>7. PostingInv'
  BY <1>3, <1>4, FS_EmptySet DEF LedgerInv, PostingInv, Touched, Paired
<1>8. LockInv'
  BY <1>1, <1>3, <1>4 DEF LedgerInv, LockInv, Locked, Touched
<1> QED
  BY <1>1, <1>4, <1>6, <1>7, <1>8 DEF LedgerInv

(***************************************************************************)
(* A commit publishes the pending rows of one posting: they were known,    *)
(* and are newer than what its accounts had.                               *)
(***************************************************************************)
LEMMA CommitStep ==
  ASSUME LedgerInv, NEW w \in Writers, CommitPosting(w)
  PROVE  /\ LedgerInv' /\ rows \subseteq rows'
         /\ \A r \in rows' \ rows : \A s \in rows : r.acct = s.acct => s.id < r.id
<1>1. /\ wr[w].pc = "commit" /\ rows' = rows \cup wr[w].rows
      /\ wr' = [wr EXCEPT ![w] = [IdleWriter EXCEPT !.pc = "done"]]
      /\ seq' = seq /\ clock' = clock
  BY DEF CommitPosting
<1>2. wr \in [Writers -> Posting] /\ rows \subseteq Row
  BY DEF LedgerInv
<1>3. wr'[w] \in Posting /\ wr'[w].pc = "done" /\ wr'[w].rows = {} /\ wr[w].rows \subseteq Row
  BY <1>1, <1>2 DEF Posting, PostingPcs, Places, IdleWriter
<1>4. wr' \in [Writers -> Posting] /\ \A v \in Writers \ {w} : wr'[v] = wr[v]
  BY <1>1, <1>2, <1>3
<1>5. Known' = Known
  BY <1>1, <1>3, <1>4 DEF Known
<1>6. RowInv'
  <2>1. IsFiniteSet(rows) /\ IsFiniteSet(wr[w].rows) /\ Paired(rows) /\ Paired(wr[w].rows)
    BY DEF LedgerInv, RowInv, PostingInv
  <2>2. IsFiniteSet(rows')
    BY <1>1, <2>1, FS_Union
  <2>3. Paired(rows)'
    BY <1>1, <2>1 DEF Paired
  <2> QED
    BY <1>1, <1>5, <2>2, <2>3 DEF LedgerInv, RowInv
<1>7. PostingInv'
  BY <1>3, <1>4, FS_EmptySet DEF LedgerInv, PostingInv, Touched, Paired
<1>8. LockInv'
  <2>1. ASSUME NEW v \in Writers \ {w}, NEW r \in wr[v].rows, NEW s \in wr[w].rows
        PROVE  r.acct # s.acct
    <3>1. wr[v].pc = "commit" /\ r.acct \in Touched(v) /\ s.acct \in Touched(w)
      BY <2>1 DEF LedgerInv, PostingInv
    <3> QED
      BY <1>1, <3>1 DEF LedgerInv, LockInv, Locked
  <2>2. \A v \in Writers : \A r \in wr'[v].rows : \A s \in rows' : r.acct = s.acct => s.id < r.id
    BY <1>1, <1>3, <1>4, <2>1 DEF LedgerInv, LockInv
  <2> QED
    BY <1>3, <1>4, <2>2 DEF LedgerInv, LockInv, Locked, Touched
<1>9. \A r \in rows' \ rows : \A s \in rows : r.acct = s.acct => s.id < r.id
  BY <1>1 DEF LedgerInv, LockInv
<1> QED
  BY <1>1, <1>2, <1>3, <1>4, <1>6, <1>7, <1>8, <1>9 DEF LedgerInv

(***************************************************************************)
(* The rows of a posting take the next ids, on the accounts it has locked, *)
(* and carry the sign, type and counterparty of their side.                *)
(***************************************************************************)
LEMMA LinesOk ==
  ASSUME LedgerInv, NEW w \in Writers, wr[w].pc = "insert"
  PROVE  /\ Lines(w) \subseteq Row /\ IsFiniteSet(Lines(w)) /\ Cardinality(Lines(w)) \in Nat
         /\ \A r \in Lines(w) : /\ r.id >= seq /\ r.id < seq + Cardinality(Lines(w))
                                /\ r.acct \in Touched(w) /\ Consistent(r)
         /\ \A r, s \in Lines(w) : r.id = s.id => r = s
         /\ Paired(Lines(w))
<1> DEFINE a == wr[w].src
           c == wr[w].dst
           x == wr[w].at
<1>1. a \in Places /\ c \in Places /\ x \in Nat /\ a # c /\ seq \in Nat
  BY DEF LedgerInv, PostingInv, Posting
<1>2. Amount \in Nat \ {0} /\ Welcome \in Nat \ {0} /\ NoAccount \notin Accounts
  BY StatementConstants
<1>3. Touched(w) = {a, c} \ {NoAccount}
  BY DEF Touched
<1>4. CASE NoAccount \in {a, c}
  <2>1. PICK r : /\ Lines(w) = {r}
                 /\ \/ /\ a = NoAccount
                       /\ r = [id |-> seq + 0, acct |-> c, cp |-> NoAccount, amt |-> Welcome, at |-> x,
                               type |-> "demo_grant"]
                    \/ /\ a # NoAccount
                       /\ r = [id |-> seq + 0, acct |-> a, cp |-> NoAccount, amt |-> 0 - Amount, at |-> x,
                               type |-> "withdraw"]
    BY <1>4 DEF Lines, CashLines, IsGrant, Line
  <2>2. IsFiniteSet(Lines(w)) /\ Cardinality(Lines(w)) = 1
    BY <2>1, FS_Singleton
  <2>3. r \in Row /\ r.id = seq /\ r.acct \in {a, c} \ {NoAccount}
    BY <1>1, <1>2, <1>4, <2>1 DEF Row, Types, Places
  <2>4. Consistent(r) /\ Paired({r})
    BY <1>1, <1>2, <2>1 DEF Consistent, Paired
  <2>5. r.id >= seq /\ r.id < seq + 1
    BY <1>1, <2>3
  <2> QED
    BY <1>3, <2>1, <2>2, <2>3, <2>4, <2>5
<1>5. CASE NoAccount \notin {a, c}
  <2> DEFINE r == [id |-> seq + 0, acct |-> a, cp |-> c, amt |-> 0 - Amount, at |-> x,
                   type |-> "transfer_out"]
             s == [id |-> seq + 1, acct |-> c, cp |-> a, amt |-> Amount, at |-> x,
                   type |-> "transfer_in"]
  <2>1. Lines(w) = {r, s}
    BY <1>5 DEF Lines, TransferLines, Line
  <2>2. r \in Row /\ s \in Row
    BY <1>1, <1>2, <1>5 DEF Row, Types, Places
  <2>3. /\ r.id = seq /\ s.id = seq + 1 /\ r.acct = a /\ s.acct = c /\ r.cp = c /\ s.cp = a
        /\ r.amt = 0 - Amount /\ s.amt = Amount /\ r.type = "transfer_out" /\ s.type = "transfer_in"
    BY <1>1
  <2> HIDE DEF r, s
  <2>4. IsFiniteSet({r, s}) /\ Cardinality({r, s}) = 2
    <3>1. {r, s} = {r} \cup {s} /\ s \notin {r} /\ IsFiniteSet({r}) /\ Cardinality({r}) = 1
      BY <2>3, FS_Singleton
    <3> DEFINE R == {r}
    <3> HIDE DEF R
    <3>2. IsFiniteSet(R \cup {s}) /\ Cardinality(R \cup {s}) = 1 + 1
      BY <3>1, FS_AddElement DEF R
    <3> QED
      BY <3>1, <3>2 DEF R
  <2>5. Consistent(r) /\ Consistent(s)
    BY <1>2, <1>5, <2>3 DEF Consistent
  <2>6. Paired({r, s})
    BY <2>3 DEF Paired
  <2>7. seq >= seq /\ seq < seq + 2 /\ seq + 1 >= seq /\ seq + 1 < seq + 2 /\ seq # seq + 1
    BY <1>1
  <2>8. r.acct \in Touched(w) /\ s.acct \in Touched(w)
    BY <1>3, <1>5, <2>3
  <2> QED
    BY <2>1, <2>2, <2>3, <2>4, <2>5, <2>6, <2>7, <2>8
<1> QED
  BY <1>4, <1>5

(***************************************************************************)
(* The inserted rows are newer than every row there is.                    *)
(***************************************************************************)
LEMMA InsertStep ==
  ASSUME LedgerInv, NEW w \in Writers, InsertRows(w)
  PROVE  LedgerInv' /\ rows' = rows
<1> DEFINE L == Lines(w)
<1>1. /\ wr[w].pc = "insert" /\ wr' = [wr EXCEPT ![w].pc = "commit", ![w].rows = L]
      /\ seq' = seq + Cardinality(L) /\ rows' = rows /\ clock' = clock
  BY DEF InsertRows
<1>2. /\ L \subseteq Row /\ IsFiniteSet(L) /\ Cardinality(L) \in Nat
      /\ \A r \in L : /\ r.id >= seq /\ r.id < seq + Cardinality(L)
                      /\ r.acct \in Touched(w) /\ Consistent(r)
      /\ \A r, s \in L : r.id = s.id => r = s
      /\ Paired(L)
  BY <1>1, LinesOk
<1>3. wr \in [Writers -> Posting] /\ wr[w] \in Posting /\ wr[w].rows = {} /\ seq \in Nat /\ rows \subseteq Row
  BY <1>1 DEF LedgerInv, PostingInv
<1> HIDE DEF L
<1>4. /\ wr'[w] \in Posting /\ wr'[w].pc = "commit" /\ wr'[w].src = wr[w].src
      /\ wr'[w].dst = wr[w].dst /\ wr'[w].rows = L
  BY <1>1, <1>2, <1>3 DEF Posting, PostingPcs
<1>5. wr' \in [Writers -> Posting] /\ \A v \in Writers \ {w} : wr'[v] = wr[v]
  BY <1>1, <1>3, <1>4
<1>6. \A v \in Writers : Touched(v)' = Touched(v) /\ Locked(v)' = Locked(v)
  BY <1>1, <1>4, <1>5 DEF Touched, Locked
<1>7. Known' = Known \cup L
  BY <1>1, <1>3, <1>4, <1>5 DEF Known
<1>8. \A r \in Known : r \in Row /\ r.id \in Nat /\ r.id < seq
  <2>1. Known \subseteq Row
    BY <1>3 DEF Known, Posting
  <2> QED
    BY <2>1 DEF LedgerInv, RowInv, Row
<1>9. \A r \in L : r.id \in Nat
  BY <1>2 DEF Row
<1>10. RowInv'
  <2>1. \A r \in Known \cup L : r.id < seq' /\ Consistent(r)
    BY <1>1, <1>2, <1>3, <1>8, <1>9 DEF LedgerInv, RowInv
  <2>2. \A r, s \in Known \cup L : r.id = s.id => r = s
    BY <1>2, <1>3, <1>8, <1>9 DEF LedgerInv, RowInv
  <2>3. IsFiniteSet(rows') /\ Paired(rows)'
    BY <1>1 DEF LedgerInv, RowInv, Paired
  <2> QED
    BY <1>7, <2>1, <2>2, <2>3 DEF RowInv
<1>11. PostingInv'
  <2>1. Paired(wr'[w].rows) /\ \A v \in Writers \ {w} : Paired(wr'[v].rows)
    BY <1>2, <1>4, <1>5 DEF LedgerInv, PostingInv
  <2> QED
    BY <1>1, <1>2, <1>4, <1>5, <1>6, <2>1 DEF LedgerInv, PostingInv, Paired
<1>12. LockInv'
  <2>1. \A r \in L : \A s \in rows : s.id < r.id
    BY <1>2, <1>3, <1>8, <1>9 DEF Known
  <2> QED
    BY <1>1, <1>4, <1>5, <1>6, <2>1 DEF LedgerInv, LockInv
<1> QED
  BY <1>1, <1>2, <1>3, <1>5, <1>10, <1>11, <1>12 DEF LedgerInv

-----------------------------------------------------------------------------
(***************************************************************************)
(* Nothing in the invariant of the postings depends on the readers or on   *)
(* what time it is.                                                        *)
(***************************************************************************)
LEMMA LedgerKept ==
  ASSUME LedgerInv, rows' = rows, seq' = seq, clock' \in 1..MaxClock, wr' = wr
  PROVE  LedgerInv'
<1>1. Known' = Known
  BY DEF Known
<1>2. RowInv'
  BY <1>1 DEF LedgerInv, RowInv, Paired
<1>3. PostingInv'
  BY DEF LedgerInv, PostingInv, Touched, Paired
<1>4. LockInv'
  BY DEF LedgerInv, LockInv, Touched, Locked
<1> QED
  BY <1>2, <1>3, <1>4 DEF LedgerInv

HolderType == holder \in [{"me", "other"} -> 0..MaxVersion]

(***************************************************************************)
(* The versions of the holders only grow.                                  *)
(***************************************************************************)
Grows ==
  /\ HolderType /\ HolderType'
  /\ \A o \in {"me", "other"} : holder[o] <= holder'[o]

(***************************************************************************)
(* What has been read of a holder stays a version there was.               *)
(***************************************************************************)
LEMMA SeenGrows ==
  ASSUME Grows, NEW a
  PROVE  Seen(a) \subseteq Seen(a)'
<1>1. Owner(a) \in {"me", "other"} /\ MaxVersion \in Nat
  BY StatementConstants DEF Owner
<1>2. 0..holder[Owner(a)] \subseteq 0..holder'[Owner(a)]
  BY <1>1 DEF Grows, HolderType
<1>3. Owner(a)' = Owner(a)
  BY DEF Owner
<1> QED
  BY <1>2, <1>3 DEF Seen

(***************************************************************************)
(* So does every receipt printed from it.                                  *)
(***************************************************************************)
LEMMA PrintedGrows ==
  ASSUME Grows, NEW r
  PROVE  Printed(r) \subseteq Printed(r)'
<1>1. Seen(r.acct) \subseteq Seen(r.acct)' /\ Seen(r.cp) \subseteq Seen(r.cp)'
  BY SeenGrows
<1>2. \A own, other : Receipt(r, own, other)' = Receipt(r, own, other)
  BY DEF Receipt, Parties
<1> QED
  BY <1>1, <1>2 DEF Printed

\* What the committed rows may do meanwhile: new ones are newer.
RowsNewer ==
  /\ rows \subseteq rows' /\ rows' \subseteq Row
  /\ \A r \in rows' \ rows : \A s \in rows : r.acct = s.acct => s.id < r.id

(***************************************************************************)
(* A request that does not move keeps its invariant while postings commit  *)
(* and holders change: nothing is committed on its account below the first *)
(* row of its walk.                                                        *)
(***************************************************************************)
LEMMA ReaderStays ==
  ASSUME NEW q \in Readers, ReaderInv(q), rd'[q] = rd[q], Grows, RowsNewer
  PROVE  ReaderInv(q)'
<1> DEFINE Sel(S) == {r \in S : r.acct = rd[q].acct /\ Matches(r, rd[q].filter)}
<1>1. Selected(q) = Sel(rows) /\ Selected(q)' = Sel(rows')
  BY DEF Selected, Of, Matches, TypesForFilter
<1>2. Sel(rows) \subseteq Sel(rows')
  BY DEF RowsNewer
<1>3. ReadingInv(q)'
  BY <1>1, <1>2 DEF ReaderInv, ReadingInv
<1>4. ReceiptInv(q)'
  <2>1. \A r \in rows : r \in rows' /\ Asked(q, r)' = Asked(q, r)
    BY DEF RowsNewer, Asked
  <2>2. \A r : Seen(r.cp) \subseteq Seen(r.cp)' /\ Printed(r) \subseteq Printed(r)'
    BY SeenGrows, PrintedGrows
  <2> QED
    BY <2>1, <2>2 DEF ReaderInv, ReceiptInv
<1>5. WalkInv(q)'
  <2> SUFFICES ASSUME rd[q].op = "list", rd[q].shown # <<>> PROVE WalkInv(q)'
    BY DEF WalkInv
  <2> DEFINE s == rd[q].shown
             In(r) == r.id <= s[1].id /\ (Done(q, "list") \/ r.id >= Last(s).id)
  <2>1. /\ \A i \in 1..Len(s) - 1 : s[i].id > s[i + 1].id
        /\ Range(s) = {r \in Sel(rows) : In(r)}
    BY <1>1 DEF ReaderInv, WalkInv
  <2>2. s \in Seq(Row) /\ s # <<>>
    BY DEF ReaderInv, Reading
  <2>3. s[1] \in Range(s) /\ s[1] \in Row
    BY <2>2 DEF Range
  <2>4. s[1] \in Sel(rows)
    BY <2>1, <2>3
  <2>5. ASSUME NEW r \in Sel(rows'), In(r)
        PROVE  r \in Sel(rows)
    <3>1. r \in Row /\ r.id \in Nat /\ s[1].id \in Nat
      BY <2>3, <2>5 DEF RowsNewer, Row
    <3>2. r \notin rows => s[1].id < r.id
      BY <2>4, <2>5 DEF RowsNewer
    <3>3. r.id <= s[1].id
      BY <2>5
    <3>4. r \in rows
      BY <3>1, <3>2, <3>3
    <3> QED
      BY <2>5, <3>4
  <2>6. Range(s) = {r \in Sel(rows') : In(r)}
    BY <1>2, <2>1, <2>5
  <2>7. Done(q, "list")' = Done(q, "list")
    BY DEF Done
  <2> QED
    BY <1>1, <2>1, <2>6, <2>7 DEF WalkInv
<1> QED
  BY <1>3, <1>4, <1>5 DEF ReaderInv

(***************************************************************************)
(* The stored receipts stay receipts of committed rows.                    *)
(***************************************************************************)
LEMMA StoreStays ==
  ASSUME StoreInv, store' = store, Grows, RowsNewer
  PROVE  StoreInv'
<1>1. \A r : Printed(r) \subseteq Printed(r)'
  BY PrintedGrows
<1>2. \A r \in rows : r \in rows' /\ receipt_key(r.acct, r.id)' = receipt_key(r.acct, r.id)
  BY DEF RowsNewer, receipt_key
<1> QED
  BY <1>1, <1>2 DEF StoreInv

(***************************************************************************)
(* A step of a posting is none of a reader.                                *)
(***************************************************************************)
LEMMA PostingStep ==
  ASSUME IInv, NEW w \in Writers,
         \/ BeginPosting(w) \/ LockAccounts(w) \/ InsertRows(w) \/ CommitPosting(w) \/ AbortPosting(w)
  PROVE  IInv'
<1>1. LedgerInv /\ ReadersInv
  BY DEF IInv
<1>2. holder' = holder /\ store' = store /\ enabled' = enabled /\ rd' = rd
  BY DEF BeginPosting, LockAccounts, InsertRows, CommitPosting, AbortPosting, readers
<1>3. /\ LedgerInv' /\ rows \subseteq rows'
      /\ \A r \in rows' \ rows : \A s \in rows : r.acct = s.acct => s.id < r.id
  BY <1>1, BeginStep, LockStep, InsertStep, CommitStep, AbortStep
<1>4. RowsNewer
  BY <1>3 DEF RowsNewer, LedgerInv
<1>5. Grows
  BY <1>1, <1>2, StatementConstants DEF Grows, HolderType, ReadersInv
<1>6. \A q \in Readers : ReaderInv(q)'
  BY <1>1, <1>2, <1>4, <1>5, ReaderStays DEF ReadersInv
<1>7. StoreInv'
  BY <1>1, <1>2, <1>4, <1>5, StoreStays DEF ReadersInv
<1> QED
  BY <1>1, <1>2, <1>3, <1>6, <1>7, Zenon DEF IInv, ReadersInv

(***************************************************************************)
(* Nor is the passing of time.                                             *)
(***************************************************************************)
LEMMA TickStep ==
  ASSUME IInv, Tick
  PROVE  IInv'
<1>1. LedgerInv /\ ReadersInv /\ clock \in 1..MaxClock /\ rows \subseteq Row /\ MaxClock \in Nat
  BY StatementConstants DEF IInv, LedgerInv
<1>2. /\ rows' = rows /\ seq' = seq /\ wr' = wr /\ clock' \in 1..MaxClock
      /\ holder' = holder /\ store' = store /\ enabled' = enabled /\ rd' = rd
  BY <1>1 DEF Tick, readers
<1>3. LedgerInv'
  BY <1>1, <1>2, LedgerKept DEF LedgerInv
<1>4. RowsNewer /\ Grows
  BY <1>1, <1>2, StatementConstants DEF RowsNewer, Grows, HolderType, ReadersInv
<1>5. StoreInv' /\ \A q \in Readers : ReaderInv(q)'
  BY <1>1, <1>2, <1>4, StoreStays, ReaderStays DEF ReadersInv
<1> QED
  BY <1>1, <1>2, <1>3, <1>5, Zenon DEF IInv, ReadersInv

(***************************************************************************)
(* Renaming a holder touches no row and no request.                        *)
(***************************************************************************)
LEMMA HolderStep ==
  ASSUME IInv, NEW o \in {"me", "other"}, ChangeHolder(o)
  PROVE  IInv'
<1>1. LedgerInv /\ ReadersInv /\ holder \in [{"me", "other"} -> 0..MaxVersion] /\ MaxVersion \in Nat
  BY StatementConstants DEF IInv, ReadersInv
<1>2. /\ rows' = rows /\ seq' = seq /\ clock' = clock /\ wr' = wr /\ store' = store
      /\ enabled' = enabled /\ rd' = rd
      /\ holder[o] < MaxVersion /\ holder' = [holder EXCEPT ![o] = @ + 1]
  BY DEF ChangeHolder
<1>3. LedgerInv'
  BY <1>1, <1>2, LedgerKept DEF LedgerInv
<1>4. RowsNewer
  BY <1>1, <1>2 DEF RowsNewer, LedgerInv
<1>5. HolderType'
  BY <1>1, <1>2 DEF HolderType
<1>6. Grows
  BY <1>1, <1>2, <1>5 DEF Grows, HolderType
<1>7. \A q \in Readers : ReaderInv(q)'
  BY <1>1, <1>2, <1>4, <1>6, ReaderStays DEF ReadersInv
<1>8. StoreInv'
  BY <1>1, <1>2, <1>4, <1>6, StoreStays DEF ReadersInv
<1> QED
  BY <1>1, <1>2, <1>3, <1>5, <1>7, <1>8, Zenon DEF IInv, ReadersInv, HolderType

-----------------------------------------------------------------------------
(***************************************************************************)
(* A step of one reader leaves the postings and the other readers alone.   *)
(***************************************************************************)
LEMMA OneReads ==
  ASSUME IInv, NEW q \in Readers, NEW v, UNCHANGED ledger,
         rd' = [rd EXCEPT ![q] = v], ReaderInv(q)', StoreInv'
  PROVE  IInv'
<1>1. LedgerInv /\ ReadersInv
  BY DEF IInv
<1>2. /\ rows' = rows /\ seq' = seq /\ clock' = clock /\ wr' = wr /\ holder' = holder
      /\ enabled' = enabled
  BY DEF ledger
<1>3. LedgerInv'
  BY <1>1, <1>2, LedgerKept DEF LedgerInv
<1>4. RowsNewer /\ Grows
  BY <1>1, <1>2, StatementConstants DEF RowsNewer, Grows, HolderType, LedgerInv, ReadersInv
<1>5. rd' = [p \in Readers |-> rd'[p]] /\ \A p \in Readers \ {q} : rd'[p] = rd[p]
  BY <1>1 DEF ReadersInv
<1>6. \A p \in Readers : ReaderInv(p)'
  BY <1>1, <1>4, <1>5, ReaderStays DEF ReadersInv
<1> QED
  BY <1>1, <1>2, <1>3, <1>5, <1>6, Zenon DEF IInv, ReadersInv

(***************************************************************************)
(* What a reader that moves without touching the bucket has to show.       *)
(***************************************************************************)
LEMMA Reads ==
  ASSUME IInv, NEW q \in Readers, NEW v, Read(q, v)
  PROVE  /\ rd'[q] = v /\ UNCHANGED <<rows, holder, store, enabled>> /\ StoreInv'
         /\ Selected(q)' = {r \in rows : r.acct = v.acct /\ Matches(r, v.filter)}
         /\ ReaderInv(q)' => IInv'
<1>1. rd' = [rd EXCEPT ![q] = v] /\ UNCHANGED ledger /\ store' = store
  BY DEF Read
<1>2. rows' = rows /\ holder' = holder /\ enabled' = enabled
  BY <1>1 DEF ledger
<1>3. LedgerInv /\ ReadersInv
  BY DEF IInv
<1>4. rd'[q] = v
  BY <1>1, <1>3 DEF ReadersInv
<1>5. RowsNewer /\ Grows
  BY <1>2, <1>3, StatementConstants DEF RowsNewer, Grows, HolderType, LedgerInv, ReadersInv
<1>6. StoreInv'
  BY <1>1, <1>3, <1>5, StoreStays DEF ReadersInv
<1>7. Selected(q)' = {r \in rows : r.acct = v.acct /\ Matches(r, v.filter)}
  BY <1>2, <1>4 DEF Selected, Of, Matches, TypesForFilter
<1>8. ReaderInv(q)' => IInv'
  BY <1>1, <1>6, OneReads
<1> QED
  BY <1>1, <1>2, <1>4, <1>6, <1>7, <1>8

(***************************************************************************)
(* The subject's first account is one of its accounts.                     *)
(***************************************************************************)
LEMMA FirstIsMine == Min(Mine) \in Mine
<1>1. Mine \subseteq Nat /\ Mine # {} /\ IsFiniteSet(Mine)
  <2>1. Mine \in SUBSET Accounts /\ IsFiniteSet(Accounts) /\ Accounts \subseteq Nat /\ Mine # {}
    BY StatementConstants
  <2> QED
    BY <2>1, FS_Subset
<1> QED
  BY <1>1, MinOf

(***************************************************************************)
(* A listing or an export begins with nothing shown.                       *)
(***************************************************************************)
LEMMA BeginReadingStep ==
  ASSUME IInv, NEW q \in Readers, BeginReading(q)
  PROVE  IInv'
<1>1. PICK a \in Accounts \cup {NoAccount}, f \in Filters :
        /\ rd[q].op \in {"list", "export"} /\ rd[q].pc = "idle"
        /\ Read(q, [rd[q] EXCEPT !.acct = Resolved(a), !.filter = f,
                    !.pc = IF Resolved(a) \in Mine THEN rd[q].op ELSE "refused"])
  BY DEF BeginReading
<1> DEFINE t == rd[q]
           v == [t EXCEPT !.acct = Resolved(a), !.filter = f,
                    !.pc = IF Resolved(a) \in Mine THEN t.op ELSE "refused"]
<1>2. rd'[q] = v /\ (ReaderInv(q)' => IInv')
  BY <1>1, Reads
<1>3. t \in Reading(t.opening, t.doc, t.issued) /\ ReadingInv(q)
  BY DEF IInv, ReadersInv, ReaderInv
<1>4. Resolved(a) \in Places
  <2>1. Mine \subseteq Accounts
    BY StatementConstants
  <2> QED
    BY <2>1, FirstIsMine DEF Resolved, Places
<1>5. /\ v.acct = Resolved(a) /\ v.filter = f /\ v.pc \in {t.op, "refused"} /\ v.op = t.op
      /\ v.shown = t.shown /\ v.opening = t.opening /\ v.doc = t.doc
      /\ v \in Reading(v.opening, v.doc, v.issued)
  BY <1>1, <1>3, <1>4 DEF Reading, ReadingPcs
<1>6. t.shown = <<>>
  BY <1>1, <1>3 DEF ReadingInv
<1> HIDE DEF v
<1>7. ReadingInv(q)'
  BY <1>1, <1>2, <1>5, <1>6 DEF ReadingInv, Range
<1>8. WalkInv(q)' /\ ReceiptInv(q)'
  BY <1>1, <1>2, <1>5, <1>6 DEF WalkInv, ReceiptInv
<1> QED
  BY <1>2, <1>5, <1>7, <1>8 DEF ReaderInv

(***************************************************************************)
(* The rows a request selects can be put in order.                         *)
(***************************************************************************)
LEMMA SelectedRows ==
  ASSUME IInv, NEW q \in Readers, NEW S, S \subseteq Selected(q)
  PROVE  S \subseteq Row /\ IsFiniteSet(S) /\ \A r, s \in S : r.id = s.id => r = s
<1>1. LedgerInv /\ rows \subseteq Row /\ IsFiniteSet(rows)
  BY DEF IInv, LedgerInv, RowInv
<1>2. S \in SUBSET rows
  BY DEF Selected, Of
<1>3. \A r, s \in rows : r.id = s.id => r = s
  BY <1>1 DEF LedgerInv, RowInv, Known
<1> QED
  BY <1>1, <1>2, <1>3, FS_Subset

(***************************************************************************)
(* An export takes selected rows.                                          *)
(***************************************************************************)
LEMMA ExportRowsStep ==
  ASSUME IInv, NEW q \in Readers, ExportRows(q)
  PROVE  IInv'
<1> DEFINE t == rd[q]
           u == Take(OldestFirst(Selected(q)), EXPORT_MAX_ROWS)
           v == [t EXCEPT !.shown = u, !.pc = "opening"]
<1>1. t.pc = "export" /\ Read(q, v)
  BY DEF ExportRows
<1>2. /\ rd'[q] = v /\ (ReaderInv(q)' => IInv')
      /\ Selected(q)' = {r \in rows : r.acct = v.acct /\ Matches(r, v.filter)}
  BY <1>1, Reads
<1>3. t \in Reading(t.opening, t.doc, t.issued) /\ ReadingInv(q) /\ EXPORT_MAX_ROWS \in Nat \ {0}
  BY StatementConstants DEF IInv, ReadersInv, ReaderInv
<1>4. OldestFirst(Selected(q)) \in Seq(Row) /\ Range(OldestFirst(Selected(q))) = Selected(q)
  BY SelectedRows, OldestFirstSorts
<1>5. u \in Seq(Row) /\ Range(u) \subseteq Selected(q)
  BY <1>3, <1>4, TakeKeeps
<1> HIDE DEF u
<1>6. /\ v.acct = t.acct /\ v.filter = t.filter /\ v.pc = "opening" /\ v.op = t.op
      /\ v.shown = u /\ v.opening = t.opening /\ v.doc = t.doc
      /\ v \in Reading(v.opening, v.doc, v.issued)
  BY <1>3, <1>5 DEF Reading, ReadingPcs
<1>7. t.op = "export"
  BY <1>1, <1>3 DEF ReadingInv, Reading, Ops
<1> HIDE DEF v
<1>8. Selected(q)' = Selected(q)
  BY <1>2, <1>6 DEF Selected, Of
<1>9. ReadingInv(q)'
  BY <1>2, <1>5, <1>6, <1>7, <1>8 DEF ReadingInv
<1>10. WalkInv(q)' /\ ReceiptInv(q)'
  BY <1>2, <1>6, <1>7 DEF WalkInv, ReceiptInv
<1> QED
  BY <1>2, <1>6, <1>9, <1>10 DEF ReaderInv

(***************************************************************************)
(* The opening balance changes nothing of the rows shown.                  *)
(***************************************************************************)
LEMMA ExportOpeningStep ==
  ASSUME IInv, NEW q \in Readers, ExportOpening(q)
  PROVE  IInv'
<1> DEFINE t == rd[q]
           b == SumAmountBefore(t.acct, OpeningTime(q))
           v == [t EXCEPT !.opening = b, !.pc = "done"]
<1>1. t.pc = "opening" /\ Read(q, v)
  BY DEF ExportOpening
<1>2. /\ rd'[q] = v /\ (ReaderInv(q)' => IInv')
      /\ Selected(q)' = {r \in rows : r.acct = v.acct /\ Matches(r, v.filter)}
  BY <1>1, Reads
<1>3. t \in Reading(t.opening, t.doc, t.issued) /\ ReadingInv(q)
  BY DEF IInv, ReadersInv, ReaderInv
<1> HIDE DEF b
<1>6. /\ v.acct = t.acct /\ v.filter = t.filter /\ v.pc = "done" /\ v.op = t.op
      /\ v.shown = t.shown /\ v.opening = b /\ v.doc = t.doc
      /\ v \in Reading(v.opening, v.doc, v.issued)
  BY <1>3 DEF Reading, ReadingPcs
<1>7. t.op = "export"
  BY <1>1, <1>3 DEF ReadingInv, Reading, Ops
<1> HIDE DEF v
<1>8. Selected(q)' = Selected(q)
  BY <1>2, <1>6 DEF Selected, Of
<1>9. ReadingInv(q)'
  BY <1>2, <1>3, <1>6, <1>7, <1>8 DEF ReadingInv
<1>10. WalkInv(q)' /\ ReceiptInv(q)'
  BY <1>2, <1>6, <1>7 DEF WalkInv, ReceiptInv
<1> QED
  BY <1>2, <1>6, <1>9, <1>10 DEF ReaderInv

(***************************************************************************)
(* Two neighbours behind the first n rows.                                 *)
(***************************************************************************)
LEMMA Shifted ==
  ASSUME NEW i \in Nat, NEW n \in Nat, NEW m \in Nat, i >= n + 1, i <= n + m - 1
  PROVE  i - n \in 1..m /\ i + 1 - n \in 1..m /\ i - n < i + 1 - n
OBVIOUS

(***************************************************************************)
(* A page continues the walk below its cursor, where no row has appeared   *)
(* that it passed.                                                         *)
(***************************************************************************)
LEMMA ListPageStep ==
  ASSUME IInv, NEW q \in Readers, ListPage(q)
  PROVE  IInv'
<1> DEFINE t == rd[q]
           s == t.shown
           p == Page(q)
           S == Selected(q)
           A == {r \in S : s # <<>> => r.id < Last(s).id}
           v == [t EXCEPT !.shown = @ \o p, !.pc = IF p = <<>> THEN "done" ELSE @]
<1>1. t.pc = "list" /\ Read(q, v)
  BY DEF ListPage
<1> HIDE DEF v
<1>2. /\ rd'[q] = v /\ (ReaderInv(q)' => IInv')
      /\ Selected(q)' = {r \in rows : r.acct = v.acct /\ Matches(r, v.filter)}
  BY <1>1, Reads
<1>3. t \in Reading(t.opening, t.doc, t.issued) /\ ReadingInv(q) /\ WalkInv(q)
  BY DEF IInv, ReadersInv, ReaderInv
<1>4. A \subseteq Row /\ S \subseteq Row /\ IsFiniteSet(A) /\ \A r, x \in A : r.id = x.id => r = x
  BY SelectedRows
<1>5. p = Take(NewestFirst(A), PageSize)
  BY DEF Page
<1>6. /\ p \in Seq(Row) /\ Range(p) \subseteq A
      /\ \A i, j \in 1..Len(p) : i < j => p[i].id > p[j].id
      /\ p = <<>> <=> A = {}
      /\ p # <<>> => Range(p) = {r \in A : r.id >= p[Len(p)].id}
  BY <1>4, <1>5, PageOf
<1>7. s \in Seq(Row) /\ t.op = "list"
  BY <1>1, <1>3 DEF ReadingInv, Reading, Ops
<1>8. \A r \in S : r.id \in Nat
  BY <1>4 DEF Row
<1>9. \A r \in A : r \in S /\ (s # <<>> => r.id < Last(s).id)
  OBVIOUS
<1>10. \A r \in S : r \notin A => s # <<>> /\ ~(r.id < Last(s).id)
  OBVIOUS
<1> HIDE DEF p, A, S
<1>13. /\ s \o p \in Seq(Row) /\ Len(s \o p) = Len(s) + Len(p) /\ Len(s) \in Nat /\ Len(p) \in Nat
       /\ \A i \in 1..Len(s) : (s \o p)[i] = s[i]
       /\ \A i \in 1..Len(p) : (s \o p)[Len(s) + i] = p[i]
  BY <1>6, <1>7
<1>11. /\ v.acct = t.acct /\ v.filter = t.filter /\ v.op = t.op /\ v.shown = s \o p
       /\ v.pc = (IF p = <<>> THEN "done" ELSE "list") /\ v.opening = t.opening /\ v.doc = t.doc
       /\ v \in Reading(v.opening, v.doc, v.issued)
  <2>1. s \o p \in Seq(Row)
    BY <1>13
  <2>2. DOMAIN t = {"pc", "op", "acct", "filter", "shown", "opening", "tx", "doc",
                     "issued"}
    BY <1>3 DEF Reading
  <2> QED
    BY <1>1, <1>3, <2>1, <2>2 DEF Reading, ReadingPcs, v
<1>12. Selected(q)' = S
  BY <1>2, <1>11 DEF Selected, Of, S
<1>14. Range(s \o p) = Range(s) \cup Range(p)
  <2>1. \A i \in 1..Len(s) + Len(p) : i \in 1..Len(s) \/ \E j \in 1..Len(p) : i = Len(s) + j
    <3> TAKE i \in 1..Len(s) + Len(p)
    <3>1. i \notin 1..Len(s) => i - Len(s) \in 1..Len(p) /\ i = Len(s) + (i - Len(s))
      BY <1>13
    <3> QED
      BY <3>1
  <2>2. DOMAIN (s \o p) = 1..Len(s) + Len(p) /\ DOMAIN s = 1..Len(s) /\ DOMAIN p = 1..Len(p)
    BY <1>6, <1>7, <1>13
  <2>3. \A j \in 1..Len(p) : Len(s) + j \in 1..Len(s) + Len(p)
    BY <1>13
  <2>4. \A j \in 1..Len(s) : j \in 1..Len(s) + Len(p)
    BY <1>13
  <2>5. Range(s \o p) \subseteq Range(s) \cup Range(p)
    <3> SUFFICES ASSUME NEW i \in 1..Len(s) + Len(p) PROVE (s \o p)[i] \in Range(s) \cup Range(p)
      BY <2>2 DEF Range
    <3>1. CASE i \in 1..Len(s)
      BY <1>13, <2>2, <3>1 DEF Range
    <3>2. CASE \E j \in 1..Len(p) : i = Len(s) + j
      BY <1>13, <2>2, <3>2 DEF Range
    <3> QED
      BY <2>1, <3>1, <3>2
  <2>6. Range(s) \subseteq Range(s \o p)
    BY <1>13, <2>2, <2>4 DEF Range
  <2>7. Range(p) \subseteq Range(s \o p)
    BY <1>13, <2>2, <2>3 DEF Range
  <2> QED
    BY <2>5, <2>6, <2>7
<1>15. Range(s) \subseteq S
  BY <1>3 DEF ReadingInv, S
<1>16. ReadingInv(q)'
  BY <1>2, <1>6, <1>7, <1>9, <1>11, <1>12, <1>14, <1>15 DEF ReadingInv
<1>17. ReceiptInv(q)'
  BY <1>2, <1>7, <1>11 DEF ReceiptInv
<1>18. s # <<>> => /\ \A i \in 1..Len(s) - 1 : s[i].id > s[i + 1].id
                   /\ Range(s) = {r \in S : r.id <= s[1].id /\ r.id >= Last(s).id}
                   /\ Last(s) \in Range(s) /\ s[1] \in Range(s) /\ Len(s) > 0
  <2>1. ~Done(q, "list")
    BY <1>1 DEF Done
  <2>2. s # <<>> => Last(s) \in Range(s) /\ s[1] \in Range(s) /\ Len(s) > 0
    BY <1>7 DEF Last, Range
  <2> QED
    BY <1>3, <1>7, <2>1, <2>2 DEF WalkInv, S
<1>19. WalkInv(q)'
  <2>1. CASE p = <<>>
    <3>1. s \o p = s /\ v.pc = "done" /\ A = {}
      BY <1>6, <1>7, <1>11, <2>1
    <3>2. s # <<>> => Range(s) = {r \in S : r.id <= s[1].id}
      BY <1>8, <1>10, <1>15, <1>18, <3>1
    <3>3. Done(q, "list")'
      BY <1>2, <1>7, <1>11, <3>1 DEF Done
    <3> QED
      BY <1>2, <1>11, <1>12, <1>18, <3>1, <3>2, <3>3 DEF WalkInv
  <2>2. CASE p # <<>>
    <3> DEFINE z == s \o p
    <3>1. ~Done(q, "list")' /\ Len(p) > 0
      BY <1>2, <1>6, <1>11, <2>2 DEF Done
    <3>2. Last(z) = p[Len(p)] /\ p[Len(p)] \in Range(p) /\ p[1] \in Range(p)
      BY <1>6, <1>13, <3>1 DEF Last, Range
    <3>3. /\ \A r \in Range(p) : r \in S /\ r.id \in Nat /\ (s # <<>> => r.id < Last(s).id)
          /\ \A i \in 1..Len(p) : p[i] \in Range(p)
      BY <1>6, <1>8, <1>9 DEF Range
    <3>4. ASSUME NEW i \in 1..Len(z) - 1
          PROVE  z[i].id > z[i + 1].id
      <4>1. CASE i < Len(s)
        <5>1. i \in 1..Len(s) - 1 /\ i + 1 \in 1..Len(s) /\ i \in 1..Len(s) /\ s # <<>>
          BY <1>7, <1>13, <4>1
        <5> QED
          BY <1>13, <1>18, <5>1
      <4>2. CASE i = Len(s)
        <5>1. s # <<>> /\ z[i] = Last(s) /\ z[i + 1] = p[1]
          BY <1>7, <1>13, <3>1, <4>2 DEF Last
        <5>2. Last(s).id \in Nat /\ p[1].id \in Nat /\ p[1].id < Last(s).id
          BY <1>8, <1>15, <1>18, <3>2, <3>3, <5>1
        <5> QED
          BY <5>1, <5>2
      <4>3. CASE i > Len(s)
        <5>0. i \in Nat /\ i <= Len(s) + Len(p) - 1 /\ i >= Len(s) + 1
          BY <1>13, <4>3
        <5>1. i - Len(s) \in 1..Len(p) /\ i + 1 - Len(s) \in 1..Len(p) /\ i - Len(s) < i + 1 - Len(s)
          BY <1>13, <5>0, Shifted
        <5>2. i = Len(s) + (i - Len(s)) /\ i + 1 = Len(s) + (i + 1 - Len(s))
          BY <1>13, <5>0
        <5>3. z[i] = p[i - Len(s)] /\ z[i + 1] = p[i + 1 - Len(s)]
          BY <1>13, <5>1, <5>2
        <5> QED
          BY <1>6, <5>1, <5>3
      <4> QED
        BY <1>13, <4>1, <4>2, <4>3
    <3>5. Range(z) = {r \in S : r.id <= z[1].id /\ r.id >= Last(z).id}
      <4>1. CASE s = <<>>
        <5>1. z[1] = p[1] /\ A = S /\ Range(s) = {}
          <6>1. Len(s) = 0 /\ 1 \in 1..Len(p)
            BY <1>6, <3>1, <4>1
          <6>2. z[0 + 1] = p[1]
            BY <1>13, <6>1
          <6>3. Range(s) = {}
            BY <4>1 DEF Range
          <6>4. A = S
            BY <1>9, <1>10, <4>1
          <6>5. z[1] = p[1]
            <7>1. \A i \in 1..Len(p) : z[Len(s) + i] = p[i]
              BY <1>13
            <7>2. z[Len(s) + 1] = p[1] /\ Len(s) + 1 = 1
              BY <6>1, <7>1
            <7> HIDE DEF z, p, s
            <7> QED
              BY <7>2
          <6> QED
            BY <6>3, <6>4, <6>5
        <5>2. \A r \in Range(p) : r.id <= p[1].id
          <6> SUFFICES ASSUME NEW i \in 1..Len(p)
                       PROVE  p[i].id <= p[1].id
            BY DEF Range
          <6>1. p[i].id \in Nat /\ p[1].id \in Nat /\ 1 \in 1..Len(p)
            BY <3>1, <3>2, <3>3
          <6>2. CASE i = 1
            BY <6>1, <6>2
          <6>3. CASE i # 1
            <7>1. 1 < i
              BY <6>3
            <7>2. p[1].id > p[i].id
              BY <1>6, <6>1, <7>1
            <7> QED
              BY <6>1, <7>2
          <6> QED
            BY <6>2, <6>3
        <5> QED
          BY <1>6, <1>14, <2>2, <3>2, <5>1, <5>2
      <4>2. CASE s # <<>>
        <5>1. z[1] = s[1]
          BY <1>13, <1>18, <4>2
        <5>2. /\ s[1].id \in Nat /\ Last(s).id \in Nat /\ Last(s).id <= s[1].id
              /\ p[Len(p)].id \in Nat /\ p[Len(p)].id < Last(s).id
          BY <1>8, <1>15, <1>18, <3>2, <3>3, <4>2
        <5>3. Range(s) = {r \in S : r.id <= s[1].id /\ r.id >= Last(s).id}
          BY <1>18, <4>2
        <5>4. Range(p) = {r \in A : r.id >= p[Len(p)].id}
          BY <1>6, <2>2
        <5>5. ASSUME NEW r \in S
              PROVE  /\ r \in A <=> r.id < Last(s).id
                     /\ (r.id <= s[1].id /\ r.id >= p[Len(p)].id)
                          <=> \/ r.id <= s[1].id /\ r.id >= Last(s).id
                              \/ r.id < Last(s).id /\ r.id >= p[Len(p)].id
          <6>1. r \in A <=> r.id < Last(s).id
            BY <1>9, <1>10, <4>2
          <6>2. r.id \in Nat
            BY <1>8
          <6> QED
            BY <5>2, <6>1, <6>2
        <5>6. \A r \in A : r \in S
          BY <1>9
        <5>7. \A r : r \in Range(z) <=> r \in Range(s) \/ r \in Range(p)
          BY <1>14
        <5> QED
          BY <3>2, <5>1, <5>3, <5>4, <5>5, <5>6, <5>7
      <4> QED
        BY <4>1, <4>2
    <3> QED
      BY <1>2, <1>11, <1>12, <3>1, <3>4, <3>5 DEF WalkInv
  <2> QED
    BY <2>1, <2>2
<1> QED
  BY <1>2, <1>11, <1>16, <1>17, <1>19 DEF ReaderInv

-----------------------------------------------------------------------------
(***************************************************************************)
(* What is read of a holder now is one of its versions so far.             *)
(***************************************************************************)
LEMMA PartySeen ==
  ASSUME HolderType, NEW a
  PROVE  Party(a) \in Seen(a)
<1>1. Owner(a) \in {"me", "other"} /\ MaxVersion \in Nat
  BY StatementConstants DEF Owner
<1>2. holder[Owner(a)] \in 0..holder[Owner(a)]
  BY <1>1 DEF HolderType
<1> QED
  BY <1>2 DEF Party, Seen

(***************************************************************************)
(* The committed row of an id is one.                                      *)
(***************************************************************************)
LEMMA OneRow ==
  ASSUME LedgerInv, NEW r \in rows, NEW s \in rows, r.id = s.id
  PROVE  r = s
BY DEF LedgerInv, RowInv, Known

(***************************************************************************)
(* A reader of a receipt that ends up in v, its account and transaction    *)
(* those of a committed row.                                               *)
(***************************************************************************)
LEMMA ReceiptReads ==
  ASSUME IInv, NEW q \in Readers, NEW v, Read(q, v), v \in Reading(v.opening, v.doc, v.issued),
         v.op = "receipt", v.shown = <<>>,
         v.pc \in {"parties", "get", "put", "done", "refused", "failed"},
         v.pc = "parties" => \E r \in rows : /\ r.id = v.tx /\ r.acct = v.acct /\ r.acct \in Mine
                                             /\ \E x \in Seen(r.cp) : v.doc = <<x>>,
         v.pc \in {"get", "put", "done"} =>
           \E r \in rows : /\ r.id = v.tx /\ r.acct = v.acct /\ r.acct \in Mine
                           /\ \E d \in Printed(r) : v.doc = <<d>>
  PROVE  IInv'
<1>1. /\ rd'[q] = v /\ rows' = rows /\ holder' = holder /\ (ReaderInv(q)' => IInv')
  BY Reads
<1>2. \A r : Seen(r.cp)' = Seen(r.cp) /\ Printed(r)' = Printed(r)
  BY <1>1 DEF Seen, Printed, Owner, Receipt, Parties
<1>3. ReadingInv(q)' /\ WalkInv(q)'
  BY <1>1 DEF ReadingInv, WalkInv, Range
<1>4. ReceiptInv(q)'
  BY <1>1, <1>2 DEF ReceiptInv, Asked
<1> QED
  BY <1>1, <1>3, <1>4 DEF ReaderInv

(***************************************************************************)
(* The row and its counterparty are read.                                  *)
(***************************************************************************)
LEMMA LoadTransactionStep ==
  ASSUME IInv, NEW q \in Readers, LoadTransaction(q)
  PROVE  IInv'
<1> DEFINE t == rd[q]
<1>1. PICK r \in rows :
        /\ t.op = "receipt" /\ t.pc = "idle"
        /\ Read(q, [t EXCEPT !.acct = r.acct, !.tx = r.id, !.doc = <<Party(r.cp)>>,
                    !.pc = IF r.acct \in Mine THEN "parties" ELSE "refused"])
  BY DEF LoadTransaction
<1> DEFINE d == <<Party(r.cp)>>
           v == [t EXCEPT !.acct = r.acct, !.tx = r.id, !.doc = d,
                    !.pc = IF r.acct \in Mine THEN "parties" ELSE "refused"]
<1>2. Read(q, v)
  BY <1>1
<1>3. t \in Reading(t.opening, t.doc, t.issued) /\ t.shown = <<>>
  BY <1>1 DEF IInv, ReadersInv, ReaderInv, ReadingInv
<1>4. r.acct \in Places /\ r.id \in Nat
  BY DEF IInv, LedgerInv, Row, Places
<1>5. Party(r.cp) \in Seen(r.cp)
  BY PartySeen DEF IInv, ReadersInv, HolderType
<1> HIDE DEF d
<1>6. /\ v.acct = r.acct /\ v.tx = r.id /\ v.op = t.op /\ v.shown = t.shown /\ v.doc = d
      /\ v.pc = (IF r.acct \in Mine THEN "parties" ELSE "refused")
      /\ v \in Reading(v.opening, v.doc, v.issued)
  BY <1>3, <1>4 DEF Reading, ReadingPcs
<1> HIDE DEF v
<1>7. v.doc = <<Party(r.cp)>>
  BY <1>6 DEF d
<1> QED
  BY <1>1, <1>2, <1>3, <1>5, <1>6, <1>7, ReceiptReads

(***************************************************************************)
(* The receipt is of the row asked for: no other has its id.               *)
(***************************************************************************)
LEMMA LoadPartiesStep ==
  ASSUME IInv, NEW q \in Readers, LoadParties(q)
  PROVE  IInv'
<1> DEFINE t == rd[q]
<1>1. PICK r \in rows :
        /\ t.pc = "parties" /\ r.id = t.tx
        /\ Read(q, [t EXCEPT !.doc = <<Receipt(r, Party(r.acct), t.doc[1])>>,
                    !.issued = IF enabled THEN @ ELSE Now,
                    !.pc = IF enabled THEN "get" ELSE "done"])
  BY DEF LoadParties
<1> DEFINE e == Receipt(r, Party(r.acct), t.doc[1])
           d == <<e>>
           c == IF enabled THEN "get" ELSE "done"
           i == IF enabled THEN t.issued ELSE Now
           v == [t EXCEPT !.doc = d, !.issued = i, !.pc = c]
<1>2. Read(q, v)
  BY <1>1
<1>3. t \in Reading(t.opening, t.doc, t.issued) /\ ReadingInv(q) /\ ReceiptInv(q)
  BY DEF IInv, ReadersInv, ReaderInv
<1>4. t.op = "receipt" /\ t.shown = <<>>
  BY <1>1, <1>3 DEF ReadingInv, Reading, Ops
<1>5. PICK s \in rows : Asked(q, s) /\ \E x \in Seen(s.cp) : t.doc = <<x>>
  BY <1>1, <1>3, <1>4 DEF ReceiptInv
<1>6. s = r
  BY <1>1, <1>5, OneRow DEF Asked, IInv
<1>7. t.doc[1] \in Seen(r.cp)
  BY <1>5, <1>6
<1>8. Party(r.acct) \in Seen(r.acct)
  BY PartySeen DEF IInv, ReadersInv, HolderType
<1>9. e \in Printed(r)
  BY <1>7, <1>8 DEF Printed
<1>10. c \in {"get", "done"}
  BY Zenon
<1> HIDE DEF c, e, d, i
<1>11. /\ v.acct = t.acct /\ v.tx = t.tx /\ v.op = t.op /\ v.shown = t.shown /\ v.doc = d /\ v.pc = c
       /\ v \in Reading(v.opening, v.doc, v.issued)
  BY <1>3, <1>10 DEF Reading, ReadingPcs
<1> HIDE DEF v
<1>12. v.doc = <<e>>
  BY <1>11 DEF d
<1> QED
  BY <1>2, <1>4, <1>5, <1>6, <1>9, <1>10, <1>11, <1>12, ReceiptReads DEF Asked

(***************************************************************************)
(* A stored document has the name of the row it was printed from, so what  *)
(* is found under a name is a receipt of that row.                         *)
(***************************************************************************)
LEMMA S3GetStep ==
  ASSUME IInv, NEW q \in Readers, S3Get(q)
  PROVE  IInv'
<1> DEFINE t == rd[q]
<1>1. t \in Reading(t.opening, t.doc, t.issued) /\ ReadingInv(q) /\ ReceiptInv(q) /\ StoreInv /\ t.pc = "get"
  BY DEF IInv, ReadersInv, ReaderInv, S3Get
<1>2. t.op = "receipt" /\ t.shown = <<>>
  BY <1>1 DEF ReadingInv, Reading, Ops
<1>3. PICK s \in rows : Asked(q, s) /\ \E d \in Printed(s) : t.doc = <<d>>
  BY <1>1, <1>2 DEF ReceiptInv
<1>4. CASE \E e \in store :
             /\ e.key = KeyOf(q)
             /\ Read(q, [t EXCEPT !.doc = <<e.doc>>, !.issued = e.issued, !.pc = "done"])
  <2>1. PICK e \in store :
          /\ e.key = KeyOf(q)
          /\ Read(q, [t EXCEPT !.doc = <<e.doc>>, !.issued = e.issued, !.pc = "done"])
    BY <1>4
  <2>0. PICK r \in rows : \E d \in Printed(r) :
          e = [key |-> receipt_key(r.acct, r.id), doc |-> d, issued |-> e.issued]
    BY <1>1, <2>1 DEF StoreInv
  <2>2. PICK d \in Printed(r) :
          e = [key |-> receipt_key(r.acct, r.id), doc |-> d, issued |-> e.issued]
    BY <2>0
  <2>3. e.doc = d /\ r.acct = t.acct /\ r.id = t.tx
    BY <2>1, <2>2 DEF KeyOf, receipt_key
  <2>4. r.acct \in Mine
    BY <1>3, <2>3 DEF Asked
  <2> DEFINE x == <<d>>
             i == e.issued
             v == [t EXCEPT !.doc = x, !.issued = i, !.pc = "done"]
  <2>5. Read(q, v)
    BY <2>1, <2>3
  <2> HIDE DEF x, i
  <2>6. /\ v.acct = t.acct /\ v.tx = t.tx /\ v.op = t.op /\ v.shown = t.shown /\ v.doc = x
        /\ v.pc = "done" /\ v \in Reading(v.opening, v.doc, v.issued)
    BY <1>1 DEF Reading, ReadingPcs
  <2> HIDE DEF v
  <2>7. v.doc = <<d>>
    BY <2>6 DEF x
  <2> QED
    BY <1>2, <2>2, <2>3, <2>4, <2>5, <2>6, <2>7, ReceiptReads
<1>5. ASSUME NEW c \in {"put", "failed"}, NEW i, Read(q, [t EXCEPT !.issued = i, !.pc = c])
      PROVE  IInv'
  <2> DEFINE v == [t EXCEPT !.issued = i, !.pc = c]
  <2>1. /\ v.acct = t.acct /\ v.tx = t.tx /\ v.op = t.op /\ v.shown = t.shown /\ v.doc = t.doc
        /\ v.pc = c /\ v \in Reading(v.opening, v.doc, v.issued)
    BY <1>1 DEF Reading, ReadingPcs
  <2>2. Read(q, v)
    BY <1>5
  <2> HIDE DEF v
  <2> QED
    BY <1>2, <1>3, <2>1, <2>2, ReceiptReads DEF Asked
<1>6. CASE Read(q, [t EXCEPT !.pc = "failed"])
  <2>1. [t EXCEPT !.pc = "failed"] = [t EXCEPT !.issued = t.issued, !.pc = "failed"]
    BY <1>1 DEF Reading
  <2> QED
    BY <1>5, <1>6, <2>1
<1> QED
  BY <1>4, <1>5, <1>6 DEF S3Get

(***************************************************************************)
(* What is stored is the receipt the request has printed.                  *)
(***************************************************************************)
LEMMA S3PutStep ==
  ASSUME IInv, NEW q \in Readers, S3Put(q)
  PROVE  IInv'
<1> DEFINE t == rd[q]
<1>1. t \in Reading(t.opening, t.doc, t.issued) /\ ReadingInv(q) /\ ReceiptInv(q) /\ StoreInv /\ t.pc = "put"
      /\ rd = [p \in Readers |-> rd[p]]
  BY DEF IInv, ReadersInv, ReaderInv, S3Put
<1>2. t.op = "receipt" /\ t.shown = <<>>
  BY <1>1 DEF ReadingInv, Reading, Ops
<1>3. PICK s \in rows : Asked(q, s) /\ \E d \in Printed(s) : t.doc = <<d>>
  BY <1>1, <1>2 DEF ReceiptInv
<1>4. PICK d \in Printed(s) : t.doc = <<d>>
  BY <1>3
<1>5. CASE Read(q, [t EXCEPT !.pc = "failed"])
  <2> DEFINE v == [t EXCEPT !.pc = "failed"]
  <2>1. /\ v.acct = t.acct /\ v.tx = t.tx /\ v.op = t.op /\ v.shown = t.shown /\ v.doc = t.doc
        /\ v.pc = "failed" /\ v \in Reading(v.opening, v.doc, v.issued)
    BY <1>1 DEF Reading, ReadingPcs
  <2>2. Read(q, v)
    BY <1>5
  <2> HIDE DEF v
  <2> QED
    BY <1>2, <2>1, <2>2, ReceiptReads
<1>6. CASE /\ store' = {e \in store : e.key # KeyOf(q)} 
                       \cup {[key |-> KeyOf(q), doc |-> t.doc[1], issued |-> t.issued]}
           /\ rd' = [rd EXCEPT ![q].pc = "done"]
           /\ UNCHANGED ledger
  <2> DEFINE v == [t EXCEPT !.pc = "done"]
  <2>1. /\ v.acct = t.acct /\ v.tx = t.tx /\ v.op = t.op /\ v.shown = t.shown /\ v.doc = t.doc
        /\ v.pc = "done" /\ v \in Reading(v.opening, v.doc, v.issued)
    BY <1>1 DEF Reading, ReadingPcs
  <2>2. rd' = [rd EXCEPT ![q] = v] /\ rows' = rows /\ holder' = holder
    BY <1>6 DEF ledger
  <2> HIDE DEF v
  <2>3. rd'[q] = v
    BY <1>1, <2>2
  <2>4. \A r : Seen(r.cp)' = Seen(r.cp) /\ Printed(r)' = Printed(r)
    BY <2>2 DEF Seen, Printed, Owner, Receipt, Parties
  <2>5. ReadingInv(q)' /\ WalkInv(q)'
    BY <1>2, <2>1, <2>3 DEF ReadingInv, WalkInv, Range
  <2>6. ReceiptInv(q)'
    BY <1>2, <1>3, <2>1, <2>2, <2>3, <2>4 DEF ReceiptInv, Asked
  <2>7. ReaderInv(q)'
    BY <2>1, <2>3, <2>5, <2>6 DEF ReaderInv
  <2>8. StoreInv'
    <3>1. t.doc[1] = d /\ KeyOf(q) = receipt_key(s.acct, s.id)
      BY <1>3, <1>4 DEF KeyOf, Asked
    <3>2. \A e \in store' : 
            e \in store \/ e = [key |-> receipt_key(s.acct, s.id), doc |-> d, issued |-> t.issued]
      BY <1>6, <3>1
    <3>3. \A e \in store' : \E r \in rows : \E x \in Printed(r) :
            e = [key |-> receipt_key(r.acct, r.id), doc |-> x, issued |-> e.issued]
      BY <1>1, <1>4, <3>2 DEF StoreInv
    <3> QED
      BY <2>2, <2>4, <3>3 DEF StoreInv, receipt_key
  <2> QED
    BY <1>6, <2>2, <2>7, <2>8, OneReads
<1> QED
  BY <1>5, <1>6 DEF S3Put

-----------------------------------------------------------------------------
(***************************************************************************)
(* The invariant is inductive.                                             *)
(***************************************************************************)
THEOREM Inductive == Spec => []IInv
<1>1. Init => IInv
  BY InitLedger, InitReaders DEF IInv
<1>2. IInv /\ [Next]_vars => IInv'
  <2> SUFFICES ASSUME IInv, [Next]_vars PROVE IInv'
    OBVIOUS
  <2>1. CASE UNCHANGED vars
    <3>1. /\ rows' = rows /\ seq' = seq /\ clock' = clock /\ wr' = wr /\ holder' = holder
          /\ store' = store /\ enabled' = enabled /\ rd' = rd
      BY <2>1 DEF vars
    <3>2. LedgerInv /\ ReadersInv
      BY DEF IInv
    <3>3. LedgerInv'
      BY <3>1, <3>2, LedgerKept DEF LedgerInv
    <3>4. RowsNewer /\ Grows
      BY <3>1, <3>2, StatementConstants DEF RowsNewer, Grows, HolderType, LedgerInv, ReadersInv
    <3>5. StoreInv' /\ \A q \in Readers : ReaderInv(q)'
      BY <3>1, <3>2, <3>4, StoreStays, ReaderStays DEF ReadersInv
    <3> QED
      BY <3>1, <3>2, <3>3, <3>5, Zenon DEF IInv, ReadersInv
  <2>2. ASSUME NEW w \in Writers,
               BeginPosting(w) \/ LockAccounts(w) \/ InsertRows(w) \/ CommitPosting(w) \/ AbortPosting(w)
        PROVE  IInv'
    BY <2>2, PostingStep
  <2>3. ASSUME NEW o \in {"me", "other"}, ChangeHolder(o)
        PROVE  IInv'
    BY <2>3, HolderStep
  <2>4. ASSUME NEW q \in Readers,
               BeginReading(q) \/ ListPage(q) \/ ExportRows(q) \/ ExportOpening(q)
        PROVE  IInv'
    BY <2>4, BeginReadingStep, ListPageStep, ExportRowsStep, ExportOpeningStep
  <2>5. ASSUME NEW q \in Readers, LoadTransaction(q) \/ LoadParties(q) \/ S3Get(q) \/ S3Put(q)
        PROVE  IInv'
    BY <2>5, LoadTransactionStep, LoadPartiesStep, S3GetStep, S3PutStep
  <2>6. CASE Tick
    BY <2>6, TickStep
  <2> QED
    BY <2>1, <2>2, <2>3, <2>4, <2>5, <2>6 DEF Next
<1> QED
  BY <1>1, <1>2, PTL DEF Spec

(***************************************************************************)
(* Every row, committed or pending, is of a customer's account and of a    *)
(* type post emits, and requests are at one of their statements.           *)
(***************************************************************************)
THEOREM TypeCorrect == Spec => []TypeOK
<1>1. IInv => TypeOK
  <2> SUFFICES ASSUME IInv PROVE TypeOK
    OBVIOUS
  <2>1. LedgerInv /\ ReadersInv
    BY DEF IInv
  <2>2. \A w \in Writers : /\ wr[w].pc \in PostingPcs /\ {wr[w].src, wr[w].dst} \subseteq Places
                           /\ wr[w].rows \subseteq Row
    BY <2>1 DEF LedgerInv, Posting
  <2>3. \A q \in Readers : rd[q].pc \in ReadingPcs /\ Range(rd[q].shown) \subseteq Row
    <3> TAKE q \in Readers
    <3>1. rd[q].pc \in ReadingPcs /\ rd[q].shown \in Seq(Row)
      BY <2>1 DEF ReadersInv, ReaderInv, Reading
    <3> QED
      BY <3>1 DEF Range
  <2>4. holder \in [{"me", "other"} -> 0..MaxVersion]
    BY <2>1 DEF ReadersInv
  <2>5. enabled \in BOOLEAN
    BY <2>1, Zenon DEF ReadersInv
  <2> QED
    BY <2>1, <2>2, <2>3, <2>4, <2>5, Zenon DEF TypeOK, LedgerInv, PostingPcs, ReadingPcs, Places
<1> QED
  BY <1>1, Inductive, PTL

(***************************************************************************)
(* However postings commit between the pages, a walk through the statement *)
(* shows every matching row below its first once, newest first.            *)
(***************************************************************************)
THEOREM WalksAreGapless == Spec => []WalkGapless
<1>1. IInv => WalkGapless
  BY DEF IInv, ReadersInv, ReaderInv, WalkInv, WalkGapless
<1> QED
  BY <1>1, Inductive, PTL

(***************************************************************************)
(* The sign by which rows are filtered and the type by which they are      *)
(* presented give the same direction.                                      *)
(***************************************************************************)
THEOREM DirectionsAgree == Spec => []DirectionAgrees
<1>1. IInv => DirectionAgrees
  <2> SUFFICES ASSUME IInv, NEW q \in Readers, NEW r \in Range(rd[q].shown), rd[q].filter.dir # "any"
               PROVE  Direction(r) = rd[q].filter.dir
    BY DEF DirectionAgrees
  <2>1. LedgerInv /\ ReadingInv(q) /\ rd[q].filter \in Filters \cup {NoFilter}
    BY DEF IInv, ReadersInv, ReaderInv, Reading
  <2>2. rd[q].filter.dir \in {"in", "out"}
    BY <2>1, StatementConstants DEF NoFilter
  <2>3. r \in rows /\ Matches(r, rd[q].filter)
    BY <2>1 DEF ReadingInv, Selected, Of
  <2>4. Consistent(r) /\ r \in Row
    BY <2>1, <2>3 DEF LedgerInv, RowInv, Known
  <2>5. r.amt \in Int /\ (rd[q].filter.dir = "in" => r.amt >= 0) /\ (rd[q].filter.dir = "out" => r.amt < 0)
    BY <2>3, <2>4 DEF Matches, Row
  <2> QED
    BY <2>2, <2>4, <2>5 DEF Direction, Consistent
<1> QED
  BY <1>1, Inductive, PTL

(***************************************************************************)
(* A printed receipt names its row, its amount and, by the sign of the     *)
(* amount, its origin and its destination.                                 *)
(***************************************************************************)
LEMMA PrintedSays ==
  ASSUME NEW r, NEW d \in Printed(r)
  PROVE  /\ d.tx = r.id /\ d.amt = r.amt
         /\ r.amt >= 0 => d.origin.acct = r.cp /\ d.destination.acct = r.acct
         /\ ~(r.amt >= 0) => d.origin.acct = r.acct /\ d.destination.acct = r.cp
<1>1. PICK own \in Seen(r.acct), other \in Seen(r.cp) : d = Receipt(r, own, other)
  BY DEF Printed
<1>2. own.acct = r.acct /\ other.acct = r.cp
  BY DEF Seen
<1> QED
  BY <1>1, <1>2 DEF Receipt, Parties

(***************************************************************************)
(* The row and the document of a finished receipt.                         *)
(***************************************************************************)
LEMMA FinishedReceipt ==
  ASSUME IInv, NEW q \in Receipts
  PROVE  \E r \in rows : Asked(q, r) /\ DocOf(q) \in Printed(r)
<1>1. q \in Readers /\ rd[q].op = "receipt" /\ rd[q].pc = "done"
  BY DEF Receipts, Done
<1>2. ReceiptInv(q)
  BY <1>1 DEF IInv, ReadersInv, ReaderInv
<1>3. PICK r \in rows : Asked(q, r) /\ \E d \in Printed(r) : rd[q].doc = <<d>>
  BY <1>1, <1>2 DEF ReceiptInv
<1> QED
  BY <1>3 DEF DocOf

(***************************************************************************)
(* A receipt is of the transaction asked for, and the receipts of the two  *)
(* sides of a transfer name the same parties.                              *)
(***************************************************************************)
THEOREM ReceiptsMatch == Spec => []ReceiptsMatchRows
<1>1. ASSUME IInv, NEW q \in Receipts
      PROVE  \E r \in rows :
               /\ r.id = rd[q].tx /\ r.acct \in Mine
               /\ DocOf(q).tx = r.id /\ DocOf(q).amt = r.amt
               /\ r.acct \in {DocOf(q).origin.acct, DocOf(q).destination.acct}
  <2>1. PICK r \in rows : Asked(q, r) /\ DocOf(q) \in Printed(r)
    BY <1>1, FinishedReceipt
  <2>2. /\ DocOf(q).tx = r.id /\ DocOf(q).amt = r.amt
        /\ r.acct \in {DocOf(q).origin.acct, DocOf(q).destination.acct}
    BY <2>1, PrintedSays
  <2> QED
    BY <2>1, <2>2 DEF Asked
<1>2. ASSUME IInv, NEW p \in Receipts, NEW q \in Receipts, NEW r \in rows, NEW s \in rows,
             r.id = rd[p].tx, s.id = rd[q].tx, r.cp = s.acct, s.cp = r.acct, s.id = r.id + 1
      PROVE  /\ DocOf(p).origin.acct = DocOf(q).origin.acct
             /\ DocOf(p).destination.acct = DocOf(q).destination.acct
  <2>1. LedgerInv
    BY <1>2 DEF IInv
  <2>2. DocOf(p) \in Printed(r) /\ DocOf(q) \in Printed(s)
    BY <1>2, <2>1, FinishedReceipt, OneRow DEF Asked
  <2>3. /\ Consistent(r) /\ Consistent(s) /\ r \in Row /\ s \in Row /\ Paired(rows)
        /\ \A x, y \in rows : x.id = y.id => x = y
    BY <2>1 DEF LedgerInv, RowInv, Known
  <2>4. /\ r.amt \in Int /\ s.amt \in Int /\ r.id \in Nat /\ s.id \in Nat
        /\ r.type \in Types /\ s.type \in Types /\ r.acct \in Accounts /\ s.acct \in Accounts
    BY <2>3 DEF Row
  <2>5. r.cp # NoAccount /\ s.cp # NoAccount
    BY <1>2, <2>4, StatementConstants
  <2>6. r.type \in {"transfer_in", "transfer_out"} /\ s.type \in {"transfer_in", "transfer_out"}
    BY <2>3, <2>4, <2>5 DEF Consistent, Types
  <2>7. r.type = "transfer_out" => s.type = "transfer_in"
    <3> SUFFICES ASSUME r.type = "transfer_out" PROVE s.type = "transfer_in"
      OBVIOUS
    <3>1. PICK x \in rows : x.id = r.id + 1 /\ x.type = "transfer_in"
      BY <2>3 DEF Paired
    <3> QED
      BY <1>2, <2>3, <3>1
  <2>8. s.type = "transfer_in" => r.type = "transfer_out"
    <3> SUFFICES ASSUME s.type = "transfer_in" PROVE r.type = "transfer_out"
      OBVIOUS
    <3>1. PICK x \in rows : s.id = x.id + 1 /\ x.type = "transfer_out"
      BY <2>3 DEF Paired
    <3>2. x.id \in Nat
      BY <2>1 DEF LedgerInv, Row
    <3>3. x.id = r.id
      BY <1>2, <2>4, <3>1, <3>2
    <3> QED
      BY <2>3, <3>1, <3>3
  <2>9. r.amt >= 0 <=> ~(s.amt >= 0)
    BY <2>3, <2>6, <2>7, <2>8 DEF Consistent
  <2>10. /\ r.amt >= 0 => DocOf(p).origin.acct = r.cp /\ DocOf(p).destination.acct = r.acct
         /\ ~(r.amt >= 0) => DocOf(p).origin.acct = r.acct /\ DocOf(p).destination.acct = r.cp
    BY <2>2, PrintedSays
  <2>11. /\ s.amt >= 0 => DocOf(q).origin.acct = s.cp /\ DocOf(q).destination.acct = s.acct
         /\ ~(s.amt >= 0) => DocOf(q).origin.acct = s.acct /\ DocOf(q).destination.acct = s.cp
    BY <2>2, PrintedSays
  <2> QED
    BY <1>2, <2>9, <2>10, <2>11
<1>3. IInv => ReceiptsMatchRows
  BY <1>1, <1>2 DEF ReceiptsMatchRows
<1> QED
  BY <1>3, Inductive, PTL

(***************************************************************************)
(* Two receipts of one transaction differ in the time of their issue only, *)
(* unless a holder of one of its parties was renamed, whichever of them    *)
(* come from the bucket.                                                   *)
(***************************************************************************)
THEOREM ReceiptsAgree == Spec => []ReceiptsAgreeUnlessRenamed
<1>1. ASSUME IInv, NEW p \in Receipts, NEW q \in Receipts, rd[p].tx = rd[q].tx,
             \A a \in {DocOf(p).origin.acct, DocOf(p).destination.acct} \ {NoAccount} :
               ~(holder[Owner(a)] > 0)
      PROVE  DocOf(p) = DocOf(q)
  <2>1. PICK r \in rows : Asked(p, r) /\ DocOf(p) \in Printed(r)
    BY <1>1, FinishedReceipt
  <2>2. PICK s \in rows : Asked(q, s) /\ DocOf(q) \in Printed(s)
    BY <1>1, FinishedReceipt
  <2>3. r = s
    BY <1>1, <2>1, <2>2, OneRow DEF Asked, IInv
  <2>4. \A a \in {r.acct, r.cp} : a \in {DocOf(p).origin.acct, DocOf(p).destination.acct}
    BY <2>1, PrintedSays
  <2>5. ASSUME NEW a \in {r.acct, r.cp}, NEW x \in Seen(a), NEW y \in Seen(a)
        PROVE  x = y
    <3>1. CASE a = NoAccount
      BY <2>5, <3>1 DEF Seen
    <3>2. CASE a # NoAccount
      <4>1. Owner(a) \in {"me", "other"} /\ MaxVersion \in Nat /\ holder[Owner(a)] \in Nat
        <5>1. Owner(a) \in {"me", "other"} /\ MaxVersion \in Nat
          BY StatementConstants DEF Owner
        <5> QED
          BY <1>1, <5>1 DEF IInv, ReadersInv
      <4>2. holder[Owner(a)] = 0
        BY <1>1, <2>4, <3>2, <4>1
      <4>3. \A h \in 0..holder[Owner(a)] : h = 0
        BY <4>2
      <4> QED
        BY <2>5, <3>2, <4>3 DEF Seen
    <3> QED
      BY <3>1, <3>2
  <2> QED
    BY <2>1, <2>2, <2>3, <2>5 DEF Printed
<1>2. IInv => ReceiptsAgreeUnlessRenamed
  BY <1>1 DEF ReceiptsAgreeUnlessRenamed
<1> QED
  BY <1>2, Inductive, PTL


-----------------------------------------------------------------------------
(***************************************************************************)
(* An export in progress: its rows are in the order of their ids, with no  *)
(* selected row of today left out up to the last of them; the opening      *)
(* balance, when it has been read, is the sum of the rows before the first *)
(* if the account's rows, today, bear times in the order of their ids.     *)
(***************************************************************************)
ByDates(q) == rd[q].filter.dir = "any" /\ rd[q].filter.kind = "any"

ExportInv(q) ==
  rd[q].op = "export" /\ rd[q].pc \in {"opening", "done"} =>
    LET s == rd[q].shown IN
    /\ \A i, j \in 1..Len(s) : i < j => s[i].id < s[j].id
    /\ \A r \in Selected(q) : \A i \in 1..Len(s) : r.id <= s[i].id => r \in Range(s)
    /\ rd[q].pc = "done" /\ s # <<>> /\ ByDates(q) /\ InOrder(Of(rd[q].acct)) =>
         rd[q].opening = Total({r \in Of(rd[q].acct) : r.id < s[1].id})

(***************************************************************************)
(* Every step that adds rows adds newer ones on each account.              *)
(***************************************************************************)
LEMMA StepsNewer ==
  ASSUME IInv, [Next]_vars
  PROVE  RowsNewer
<1>1. LedgerInv /\ ReadersInv /\ rows \subseteq Row
  BY DEF IInv, LedgerInv
<1>2. ASSUME NEW w \in Writers,
             BeginPosting(w) \/ LockAccounts(w) \/ InsertRows(w) \/ CommitPosting(w) \/ AbortPosting(w)
      PROVE  RowsNewer
  <2>1. /\ LedgerInv' /\ rows \subseteq rows'
        /\ \A r \in rows' \ rows : \A s \in rows : r.acct = s.acct => s.id < r.id
    BY <1>1, <1>2, BeginStep, LockStep, InsertStep, CommitStep, AbortStep
  <2> QED
    BY <2>1 DEF RowsNewer, LedgerInv
<1>3. ASSUME rows' = rows PROVE RowsNewer
  BY <1>1, <1>3 DEF RowsNewer
<1>4. ASSUME NEW o \in {"me", "other"}, ChangeHolder(o) PROVE rows' = rows
  BY <1>4 DEF ChangeHolder
<1>5. ASSUME NEW q \in Readers,
             \/ BeginReading(q) \/ ListPage(q) \/ ExportRows(q) \/ ExportOpening(q)
             \/ LoadTransaction(q) \/ LoadParties(q) \/ S3Get(q) \/ S3Put(q)
      PROVE  rows' = rows
  BY <1>5 DEF BeginReading, ListPage, ExportRows, ExportOpening, LoadTransaction, LoadParties,
              S3Get, S3Put, Read, ledger
<1>6. Tick \/ UNCHANGED vars => rows' = rows
  BY DEF Tick, vars
<1> QED
  BY <1>2, <1>3, <1>4, <1>5, <1>6 DEF Next

(***************************************************************************)
(* What is committed meanwhile is after the rows of an export.             *)
(***************************************************************************)
LEMMA ExportStays ==
  ASSUME NEW q \in Readers, ReaderInv(q), ExportInv(q), rd'[q] = rd[q], RowsNewer, rows \subseteq Row
  PROVE  ExportInv(q)'
<1> DEFINE s == rd[q].shown
           a == rd[q].acct
           Sel(S) == {r \in S : r.acct = a /\ Matches(r, rd[q].filter)}
           On(S) == {r \in S : r.acct = a}
<1> SUFFICES ASSUME rd[q].op = "export", rd[q].pc \in {"opening", "done"} PROVE ExportInv(q)'
  BY DEF ExportInv
<1>1. Selected(q) = Sel(rows) /\ Selected(q)' = Sel(rows') /\ Of(a) = On(rows) /\ Of(a)' = On(rows')
  BY DEF Selected, Of, Matches, TypesForFilter
<1>2. s \in Seq(Row) /\ Range(s) \subseteq Sel(rows)
  BY <1>1 DEF ReaderInv, ReadingInv, Reading
<1>3. ASSUME NEW i \in 1..Len(s), NEW r \in On(rows'), r.id <= s[i].id PROVE r \in On(rows)
  <2>1. s[i] \in Range(s) /\ s[i] \in Row /\ r \in Row
    BY <1>2, <1>3 DEF Range, RowsNewer
  <2>2. s[i] \in rows /\ s[i].acct = r.acct /\ s[i].id \in Nat /\ r.id \in Nat
    BY <1>2, <2>1 DEF Row
  <2> QED
    BY <1>3, <2>2 DEF RowsNewer
<1>4. \A i, j \in 1..Len(s) : i < j => s[i].id < s[j].id
  BY DEF ExportInv
<1>5. ASSUME NEW r \in Sel(rows'), NEW i \in 1..Len(s), r.id <= s[i].id PROVE r \in Range(s)
  <2>1. r \in Sel(rows)
    BY <1>3, <1>5
  <2> QED
    BY <1>1, <1>5, <2>1 DEF ExportInv
<1>6. ASSUME rd[q].pc = "done", s # <<>>, ByDates(q), InOrder(On(rows'))
      PROVE  rd[q].opening = Total({r \in On(rows') : r.id < s[1].id})
  <2>1. On(rows) \subseteq On(rows')
    BY DEF RowsNewer
  <2>2. InOrder(On(rows))
    BY <1>6, <2>1 DEF InOrder
  <2>3. rd[q].opening = Total({r \in On(rows) : r.id < s[1].id})
    BY <1>1, <1>6, <2>2 DEF ExportInv
  <2>4. 1 \in 1..Len(s) /\ s[1].id \in Nat
    <3>1. 1 \in 1..Len(s)
      BY <1>2, <1>6
    <3>2. s[1] \in Row
      BY <1>2, <3>1
    <3> QED
      BY <3>1, <3>2 DEF Row
  <2>5. \A r \in On(rows') : r.id < s[1].id => r \in On(rows)
    <3> TAKE r \in On(rows')
    <3>1. r.id \in Nat
      BY DEF RowsNewer, Row
    <3> QED
      BY <1>3, <2>4, <3>1
  <2>6. {r \in On(rows) : r.id < s[1].id} = {r \in On(rows') : r.id < s[1].id}
    BY <2>1, <2>5
  <2> QED
    BY <2>3, <2>6
<1>7. (ByDates(q)' <=> ByDates(q)) /\ (InOrder(Of(a))' <=> InOrder(On(rows')))
  BY <1>1 DEF ByDates, InOrder
<1> HIDE DEF Sel, On
<1> QED
  BY <1>1, <1>4, <1>5, <1>6, <1>7 DEF ExportInv

(***************************************************************************)
(* The rows of an account, for the proofs below.                           *)
(***************************************************************************)
LEMMA AccountRows ==
  ASSUME IInv, NEW a
  PROVE  /\ Of(a) \subseteq Row /\ IsFiniteSet(Of(a))
         /\ \A r \in Of(a) : r.id \in Nat /\ r.at \in Nat /\ r.amt \in Int /\ r.type \in Types
         /\ \A r, s \in Of(a) : r.id = s.id => r = s
<1>1. rows \subseteq Row /\ IsFiniteSet(rows) /\ \A r, s \in rows : r.id = s.id => r = s
  BY DEF IInv, LedgerInv, RowInv, Known
<1>2. Of(a) \in SUBSET rows
  BY DEF Of
<1>3. IsFiniteSet(Of(a))
  BY <1>1, <1>2, FS_Subset
<1> QED
  BY <1>1, <1>2, <1>3 DEF Row

(***************************************************************************)
(* A filter by dates selects by the times alone.                           *)
(***************************************************************************)
LEMMA DatesSelect ==
  ASSUME IInv, NEW q \in Readers, ByDates(q)
  PROVE  LET f == rd[q].filter IN
         /\ f.from \in Nat /\ f.to \in Nat
         /\ \A r \in Of(rd[q].acct) :
              r \in Selected(q) <=> (f.from # 0 => r.at >= f.from) /\ (f.to # 0 => r.at < f.to)
<1>1. rd[q].filter \in Filters \cup {NoFilter}
  BY DEF IInv, ReadersInv, ReaderInv, Reading
<1>2. rd[q].filter.from \in Nat /\ rd[q].filter.to \in Nat
  BY <1>1, StatementConstants DEF NoFilter
<1>3. \A r \in Of(rd[q].acct) : r.type \in TypesForFilter(rd[q].filter.kind)
  BY AccountRows DEF ByDates, TypesForFilter
<1>4. rd[q].filter.dir = "any"
  BY DEF ByDates
<1> QED
  BY <1>2, <1>3, <1>4 DEF Selected, Matches

(***************************************************************************)
(* In order, the rows before the opening time are those before the first   *)
(* row shown.                                                              *)
(***************************************************************************)
LEMMA OpeningIsBeforeFirst ==
  ASSUME IInv, NEW q \in Readers, ExportInv(q), rd[q].op = "export", rd[q].pc = "opening",
         rd[q].shown # <<>>, ByDates(q), InOrder(Of(rd[q].acct))
  PROVE  {r \in Of(rd[q].acct) : r.at < OpeningTime(q)}
           = {r \in Of(rd[q].acct) : r.id < rd[q].shown[1].id}
<1> DEFINE s == rd[q].shown
           A == Of(rd[q].acct)
           f == rd[q].filter
           T == OpeningTime(q)
<1>1. s \in Seq(Row) /\ Range(s) \subseteq Selected(q)
  BY DEF IInv, ReadersInv, ReaderInv, ReadingInv, Reading
<1>2. Len(s) \in Nat /\ 1 \in 1..Len(s)
  BY <1>1
<1>3. s[1] \in Selected(q) /\ s[1] \in A
  BY <1>1, <1>2 DEF Range, Selected
<1>4. \A r \in A : r.id \in Nat /\ r.at \in Nat
  BY AccountRows
<1>5. \A r, u \in A : r.id = u.id => r = u
  BY AccountRows
<1>6. f.from \in Nat /\ f.to \in Nat
  BY DatesSelect
<1>7. \A r \in A : r \in Selected(q) <=> (f.from # 0 => r.at >= f.from) /\ (f.to # 0 => r.at < f.to)
  BY DatesSelect
<1>8. T = IF f.from # 0 THEN f.from ELSE s[1].at
  BY DEF OpeningTime
<1>9. \A r, u \in A : r.id < u.id => r.at <= u.at
  BY DEF InOrder
<1>10. \A r \in Selected(q) : \A i \in 1..Len(s) : r.id <= s[i].id => r \in Range(s)
  BY DEF ExportInv
<1>11. \A i, j \in 1..Len(s) : i < j => s[i].id < s[j].id
  BY DEF ExportInv
<1> HIDE DEF s, A, f, T
<1>12. ASSUME NEW r \in A, r.id < s[1].id PROVE r \notin Selected(q)
  <2> SUFFICES ASSUME r \in Selected(q) PROVE FALSE
    OBVIOUS
  <2>1. r.id <= s[1].id
    BY <1>3, <1>4, <1>12
  <2>2. r \in Range(s)
    BY <1>2, <1>10, <2>1
  <2>3. PICK j \in 1..Len(s) : r = s[j]
    BY <1>1, <2>2 DEF Range
  <2>4. j = 1 \/ s[1].id < s[j].id
    BY <1>2, <1>11
  <2> QED
    BY <1>3, <1>4, <1>12, <2>3, <2>4
<1>13. ASSUME NEW r \in A, r.id < s[1].id PROVE r.at < T
  <2>1. r \notin Selected(q) /\ r.at <= s[1].at
    BY <1>3, <1>9, <1>12, <1>13
  <2>2. /\ r.at \in Nat /\ s[1].at \in Nat
        /\ f.from # 0 => s[1].at >= f.from
        /\ f.to # 0 => s[1].at < f.to
        /\ ~((f.from # 0 => r.at >= f.from) /\ (f.to # 0 => r.at < f.to))
    BY <1>3, <1>4, <1>7, <2>1
  <2> QED
    BY <1>6, <1>8, <2>1, <2>2
<1>14. ASSUME NEW r \in A, r.at < T PROVE r.id < s[1].id
  <2> SUFFICES ASSUME ~(r.id < s[1].id) PROVE FALSE
    OBVIOUS
  <2>1. r = s[1] \/ s[1].id < r.id
    BY <1>3, <1>4, <1>5
  <2>2. r.at \in Nat /\ s[1].at \in Nat /\ s[1].at <= r.at
    BY <1>3, <1>4, <1>9, <2>1
  <2>3. T <= s[1].at /\ T \in Nat
    BY <1>3, <1>6, <1>7, <1>8, <2>2
  <2> QED
    BY <1>14, <2>2, <2>3
<1>15. {r \in A : r.at < T} = {r \in A : r.id < s[1].id}
  BY <1>13, <1>14
<1> QED
  BY <1>15 DEF A, T, s

(***************************************************************************)
(* The two steps of an export establish its invariant.                     *)
(***************************************************************************)
LEMMA ExportRowsExact ==
  ASSUME IInv, NEW q \in Readers, ExportRows(q)
  PROVE  ExportInv(q)'
<1> DEFINE t == rd[q]
           o == OldestFirst(Selected(q))
           u == Take(o, EXPORT_MAX_ROWS)
           v == [t EXCEPT !.shown = u, !.pc = "opening"]
<1>1. t.pc = "export" /\ Read(q, v)
  BY DEF ExportRows
<1>2. /\ rd'[q] = v
      /\ Selected(q)' = {r \in rows : r.acct = v.acct /\ Matches(r, v.filter)}
  BY <1>1, Reads
<1>3. t \in Reading(t.opening, t.doc, t.issued) /\ EXPORT_MAX_ROWS \in Nat \ {0}
  BY StatementConstants DEF IInv, ReadersInv, ReaderInv
<1>4. /\ o \in Seq(Row) /\ Range(o) = Selected(q)
      /\ \A i, j \in 1..Len(o) : i < j => o[i].id < o[j].id
  BY SelectedRows, OldestFirstSorts
<1> HIDE DEF o
<1>5. u \in Seq(Row) /\ Len(u) <= Len(o) /\ \A i \in 1..Len(u) : u[i] = o[i]
  BY <1>3, <1>4, TakeKeeps
<1> HIDE DEF u
<1>6. v.acct = t.acct /\ v.filter = t.filter /\ v.pc = "opening" /\ v.op = t.op /\ v.shown = u
  BY <1>3 DEF Reading
<1> HIDE DEF v
<1>7. Selected(q)' = Selected(q)
  BY <1>2, <1>6 DEF Selected, Of
<1>8. Len(u) \in Nat /\ Len(o) \in Nat
  BY <1>4, <1>5
<1>9. \A i, j \in 1..Len(u) : i < j => u[i].id < u[j].id
  BY <1>4, <1>5, <1>8
<1>10. ASSUME NEW r \in Selected(q), NEW i \in 1..Len(u), r.id <= u[i].id
       PROVE  r \in Range(u)
  <2>1. PICK j \in 1..Len(o) : r = o[j]
    BY <1>4 DEF Range
  <2>2. i \in 1..Len(o) /\ u[i] = o[i] /\ o[i] \in Row /\ o[j] \in Row
    BY <1>4, <1>5, <1>8, <2>1
  <2>3. ~(i < j)
    <3>1. o[j].id <= o[i].id /\ o[i].id \in Nat /\ o[j].id \in Nat
      BY <1>10, <2>1, <2>2 DEF Row
    <3> QED
      BY <1>4, <2>2, <3>1
  <2>4. j \in 1..Len(u)
    BY <1>8, <2>3
  <2>5. r = u[j]
    BY <1>5, <2>1, <2>4
  <2> QED
    BY <1>5, <2>4, <2>5 DEF Range
<1> QED
  BY <1>2, <1>6, <1>7, <1>9, <1>10 DEF ExportInv

LEMMA ExportOpeningExact ==
  ASSUME IInv, NEW q \in Readers, ExportInv(q), ExportOpening(q)
  PROVE  ExportInv(q)'
<1> DEFINE t == rd[q]
           b == SumAmountBefore(t.acct, OpeningTime(q))
           v == [t EXCEPT !.opening = b, !.pc = "done"]
<1>1. t.pc = "opening" /\ Read(q, v)
  BY DEF ExportOpening
<1>2. /\ rd'[q] = v /\ rows' = rows
      /\ Selected(q)' = {r \in rows : r.acct = v.acct /\ Matches(r, v.filter)}
  BY <1>1, Reads
<1>3. t \in Reading(t.opening, t.doc, t.issued) /\ ReadingInv(q)
  BY DEF IInv, ReadersInv, ReaderInv
<1>4. t.op = "export"
  BY <1>1, <1>3 DEF ReadingInv, Reading, Ops
<1>5. ASSUME t.shown # <<>>, ByDates(q), InOrder(Of(t.acct))
      PROVE  b = Total({r \in Of(t.acct) : r.id < t.shown[1].id})
  BY <1>1, <1>4, <1>5, OpeningIsBeforeFirst DEF SumAmountBefore
<1> HIDE DEF b
<1>6. /\ v.acct = t.acct /\ v.filter = t.filter /\ v.pc = "done" /\ v.op = t.op
      /\ v.shown = t.shown /\ v.opening = b
  BY <1>3 DEF Reading
<1> HIDE DEF v
<1>7. Selected(q)' = Selected(q)
  BY <1>2, <1>6 DEF Selected, Of
<1>8. Of(rd[q].acct)' = Of(t.acct) /\ (ByDates(q)' <=> ByDates(q))
      /\ (InOrder(Of(rd[q].acct))' <=> InOrder(Of(t.acct)))
  BY <1>2, <1>6 DEF Of, ByDates, InOrder
<1> QED
  BY <1>1, <1>2, <1>4, <1>5, <1>6, <1>7, <1>8 DEF ExportInv

(***************************************************************************)
(* Every other step leaves an export alone.                                *)
(***************************************************************************)
LEMMA ExportStep ==
  ASSUME IInv, [Next]_vars, NEW q \in Readers, ExportInv(q)
  PROVE  ExportInv(q)'
<1>1. RowsNewer /\ rows \subseteq Row /\ ReaderInv(q) /\ rd = [p \in Readers |-> rd[p]]
  BY StepsNewer DEF IInv, LedgerInv, ReadersInv
<1>2. ASSUME rd'[q] = rd[q] PROVE ExportInv(q)'
  BY <1>1, <1>2, ExportStays
<1>3. ASSUME NEW w \in Writers,
             BeginPosting(w) \/ LockAccounts(w) \/ InsertRows(w) \/ CommitPosting(w) \/ AbortPosting(w)
      PROVE  rd' = rd
  BY <1>3 DEF BeginPosting, LockAccounts, InsertRows, CommitPosting, AbortPosting, readers
<1>4. ASSUME NEW o \in {"me", "other"}, ChangeHolder(o) PROVE rd' = rd
  BY <1>4 DEF ChangeHolder
<1>5. Tick \/ UNCHANGED vars => rd' = rd
  BY DEF Tick, vars, readers
<1>6. ASSUME NEW p \in Readers \ {q},
             \/ BeginReading(p) \/ ListPage(p) \/ ExportRows(p) \/ ExportOpening(p)
             \/ LoadTransaction(p) \/ LoadParties(p) \/ S3Get(p) \/ S3Put(p)
      PROVE  rd'[q] = rd[q]
  BY <1>1, <1>6 DEF BeginReading, ListPage, ExportRows, ExportOpening, LoadTransaction, LoadParties,
                    S3Get, S3Put, Read
<1>7. ASSUME BeginReading(q) PROVE ExportInv(q)'
  <2>1. PICK a \in Accounts \cup {NoAccount}, f \in Filters :
          /\ rd[q].op \in {"list", "export"} /\ rd[q].pc = "idle"
          /\ Read(q, [rd[q] EXCEPT !.acct = Resolved(a), !.filter = f,
                      !.pc = IF Resolved(a) \in Mine THEN rd[q].op ELSE "refused"])
    BY <1>7 DEF BeginReading
  <2>2. rd'[q].pc \in {"list", "export", "refused"}
    BY <1>1, <2>1 DEF Read, ReaderInv, Reading
  <2> QED
    BY <2>2 DEF ExportInv
<1>8. ASSUME ListPage(q) \/ LoadTransaction(q) \/ LoadParties(q) \/ S3Get(q) \/ S3Put(q)
      PROVE  ExportInv(q)'
  <2>1. rd[q].op # "export"
    BY <1>1, <1>8 DEF ListPage, LoadTransaction, LoadParties, S3Get, S3Put, ReaderInv, ReadingInv
  <2>2. rd'[q].op = rd[q].op
    <3>1. q \in DOMAIN rd /\ rd[q] \in Reading(rd[q].opening, rd[q].doc, rd[q].issued)
      BY <1>1 DEF ReaderInv
    <3>2. CASE ListPage(q)
      BY <3>1, <3>2 DEF ListPage, Read, Reading
    <3>3. CASE LoadTransaction(q)
      BY <3>1, <3>3 DEF LoadTransaction, Read, Reading
    <3>4. CASE LoadParties(q)
      BY <3>1, <3>4 DEF LoadParties, Read, Reading
    <3>5. CASE S3Get(q) \/ S3Put(q)
      BY <3>1, <3>5 DEF S3Get, S3Put, Read, Reading
    <3> QED
      BY <1>8, <3>2, <3>3, <3>4, <3>5
  <2> QED
    BY <2>1, <2>2 DEF ExportInv
<1>9. ASSUME NEW p \in Readers,
             BeginReading(p) \/ ListPage(p) \/ ExportRows(p) \/ ExportOpening(p)
      PROVE  ExportInv(q)'
  BY <1>2, <1>6, <1>7, <1>8, <1>9, ExportRowsExact, ExportOpeningExact
<1>10. ASSUME NEW p \in Readers, LoadTransaction(p) \/ LoadParties(p) \/ S3Get(p) \/ S3Put(p)
       PROVE  ExportInv(q)'
  BY <1>2, <1>6, <1>8, <1>10
<1> QED
  BY <1>2, <1>3, <1>4, <1>5, <1>9, <1>10 DEF Next

(***************************************************************************)
(* In order, each line of an export by dates adds its row and no other to  *)
(* the rows up to the line before.                                         *)
(***************************************************************************)
LEMMA LineAdds ==
  ASSUME IInv, NEW q \in Readers, ExportInv(q), Done(q, "export"), ByDates(q),
         InOrder(Of(rd[q].acct)),
         NEW i \in 1..Len(rd[q].shown), i + 1 \in 1..Len(rd[q].shown)
  PROVE  {r \in Of(rd[q].acct) : r.id <= rd[q].shown[i + 1].id}
           = {r \in Of(rd[q].acct) : r.id <= rd[q].shown[i].id} \cup {rd[q].shown[i + 1]}
<1> DEFINE s == rd[q].shown
           A == Of(rd[q].acct)
           f == rd[q].filter
<1>1. s \in Seq(Row) /\ Range(s) \subseteq Selected(q)
  BY DEF IInv, ReadersInv, ReaderInv, ReadingInv, Reading
<1>2. \A j \in 1..Len(s) : s[j] \in Selected(q) /\ s[j] \in A
  BY <1>1 DEF Range, Selected
<1>3. \A r \in A : r.id \in Nat /\ r.at \in Nat
  BY AccountRows
<1>4. \A r, u \in A : r.id = u.id => r = u
  BY AccountRows
<1>5. f.from \in Nat /\ f.to \in Nat
  BY DatesSelect
<1>6. \A r \in A : r \in Selected(q) <=> (f.from # 0 => r.at >= f.from) /\ (f.to # 0 => r.at < f.to)
  BY DatesSelect
<1>7. \A r, u \in A : r.id < u.id => r.at <= u.at
  BY DEF InOrder
<1>8. \A r \in Selected(q) : \A j \in 1..Len(s) : r.id <= s[j].id => r \in Range(s)
  BY DEF ExportInv, Done
<1>9. \A j, k \in 1..Len(s) : j < k => s[j].id < s[k].id
  BY DEF ExportInv, Done
<1>10. i \in 1..Len(s) /\ i + 1 \in 1..Len(s) /\ Len(s) \in Nat
  BY <1>1
<1> HIDE DEF s, A, f
<1> DEFINE x == s[i]
           y == s[i + 1]
<1>11. x \in A /\ y \in A /\ x \in Selected(q) /\ y \in Selected(q) /\ x.id < y.id
  BY <1>2, <1>9, <1>10
<1>12. ASSUME NEW r \in A, x.id < r.id, r.id <= y.id PROVE r = y
  <2>1. r \in Selected(q)
    <3>1. x.at <= r.at /\ (r = y \/ r.at <= y.at)
      <4>1. r.id \in Nat /\ y.id \in Nat
        BY <1>3, <1>11
      <4>2. r.id = y.id \/ r.id < y.id
        BY <1>12, <4>1
      <4> QED
        BY <1>4, <1>7, <1>11, <1>12, <4>2
    <3>2. /\ (f.from # 0 => x.at >= f.from) /\ (f.to # 0 => y.at < f.to)
          /\ x.at \in Nat /\ y.at \in Nat /\ r.at \in Nat
      BY <1>3, <1>6, <1>11
    <3>3. (f.from # 0 => r.at >= f.from) /\ (f.to # 0 => r.at < f.to)
      BY <1>5, <3>1, <3>2
    <3> QED
      BY <1>6, <3>3
  <2>2. r \in Range(s)
    BY <1>8, <1>10, <1>12, <2>1
  <2>3. PICK j \in 1..Len(s) : r = s[j]
    BY <1>1, <2>2 DEF Range, s
  <2>4. ~(j < i) /\ j # i
    <3>1. r.id \in Nat /\ x.id \in Nat
      BY <1>3, <1>11
    <3> QED
      BY <1>9, <1>10, <1>12, <2>3, <3>1
  <2>5. ~(i + 1 < j)
    <3>1. r.id \in Nat /\ y.id \in Nat
      BY <1>3, <1>11
    <3> QED
      BY <1>9, <1>10, <1>12, <2>3, <3>1
  <2>6. j = i + 1
    BY <1>10, <2>4, <2>5
  <2> QED
    BY <2>3, <2>6
<1> HIDE DEF x, y
<1>13. \A r \in A : r.id <= y.id <=> r.id <= x.id \/ r = y
  <2> TAKE r \in A
  <2>1. r.id \in Nat /\ x.id \in Nat /\ y.id \in Nat
    BY <1>3, <1>11
  <2>2. x.id < r.id /\ r.id <= y.id => r = y
    BY <1>12
  <2> QED
    BY <1>11, <2>1, <2>2
<1>14. {r \in A : r.id <= y.id} = {r \in A : r.id <= x.id} \cup {y}
  BY <1>11, <1>13
<1> QED
  BY <1>14 DEF A, s, x, y

(***************************************************************************)
(* The running balance of a line is the sum of the rows up to it.          *)
(***************************************************************************)
LEMMA LinesExact ==
  ASSUME IInv, NEW q \in Readers, ExportInv(q), Done(q, "export"), ByDates(q),
         InOrder(Of(rd[q].acct)), rd[q].shown # <<>>
  PROVE  \A i \in 1..Len(rd[q].shown) :
           Running(q, i) = Total({r \in Of(rd[q].acct) : r.id <= rd[q].shown[i].id})
<1> DEFINE s == rd[q].shown
           A == Of(rd[q].acct)
           Upto(i) == {r \in A : r.id <= s[i].id}
           Part(i) == SubSeq(s, 1, i)
           N == 1..Len(s)
<1>1. s \in Seq(Row) /\ Range(s) \subseteq Selected(q) /\ Len(s) \in Nat /\ 1 \in N
  BY DEF IInv, ReadersInv, ReaderInv, ReadingInv, Reading
<1>2. ASSUME NEW i \in N PROVE s[i] \in A /\ s[i].amt \in Int /\ s[i].id \in Nat
  <2>1. s[i] \in Range(s) /\ s[i] \in Row
    BY <1>1, <1>2 DEF Range
  <2> QED
    BY <1>1, <2>1 DEF Selected, Row
<1>3. A \subseteq Row /\ IsFiniteSet(A)
  BY AccountRows
<1>4. \A r \in A : r.id \in Nat /\ r.amt \in Int
  BY AccountRows
<1>5. ASSUME NEW S \in SUBSET A
      PROVE  IsFiniteSet(S) /\ (\A r \in S : r.amt \in Int) /\ Total(S) = AmtSum(S) /\ Total(S) \in Int
  <2>1. IsFiniteSet(S) /\ \A r \in S : r.amt \in Int
    BY <1>3, <1>4, <1>5, FS_Subset
  <2>2. Total(S) = AmtSum(S)
    BY DEF Total, AmtSum
  <2> QED
    BY <2>1, <2>2, AmtSumType
<1>6. ASSUME NEW i \in 0..Len(s)
      PROVE  DOMAIN Part(i) = 1..i /\ (\A j \in 1..i : Part(i)[j] = s[j])
  BY <1>1, <1>6
<1>7. \A i : Running(q, i) = rd[q].opening + AmtFold(Part(i))
  BY DEF Running, AmtFold
<1>8. ASSUME NEW i \in N
      PROVE  AmtFold(Part(i)) = AmtFold(Part(i - 1)) + s[i].amt
  <2>1. i - 1 \in Nat /\ i - 1 \in 0..Len(s) /\ i \in 0..Len(s) /\ (i - 1) + 1 = i /\ i \in 1..i
    BY <1>1, <1>8
  <2>2. DOMAIN Part(i - 1) = 1..(i - 1) /\ DOMAIN Part(i) = 1..((i - 1) + 1)
    BY <1>6, <2>1
  <2>3. \A j \in 1..i : j \in N /\ Part(i)[j] = s[j] /\ Part(i)[j].amt \in Int
    BY <1>1, <1>2, <1>6, <2>1
  <2>4. \A j \in 1..((i - 1) + 1) : Part(i)[j].amt \in Int
    BY <2>1, <2>3
  <2>5. \A j \in 1..(i - 1) : Part(i - 1)[j] = Part(i)[j]
    BY <1>6, <2>1, <2>3
  <2> HIDE DEF Part
  <2>6. AmtFold(Part(i)) = AmtFold(Part(i - 1)) + Part(i)[(i - 1) + 1].amt
    BY <2>1, <2>2, <2>4, <2>5, AmtFoldNext
  <2> QED
    BY <2>1, <2>3, <2>6
<1>9. AmtFold(Part(0)) = 0
  <2>1. DOMAIN Part(0) = 1..0
    BY <1>1, <1>6
  <2> HIDE DEF Part
  <2> QED
    BY <2>1, AmtFoldNone
<1>10. rd[q].opening = Total({r \in A : r.id < s[1].id})
  BY DEF ExportInv, Done
<1> HIDE DEF Part, A, s
<1>11. Running(q, 1) = Total(Upto(1))
  <2> DEFINE B == {r \in A : r.id < s[1].id}
  <2>1. B \in SUBSET A /\ s[1] \in A /\ s[1] \notin B /\ s[1].amt \in Int
    BY <1>1, <1>2
  <2>2. Upto(1) = B \cup {s[1]}
    <3>1. \A r \in A : r.id = s[1].id => r = s[1]
      BY <2>1, AccountRows DEF A
    <3>2. \A r \in A : r.id <= s[1].id <=> r.id < s[1].id \/ r = s[1]
      BY <1>4, <2>1, <3>1
    <3> QED
      BY <2>1, <3>2
  <2>3. Upto(1) \in SUBSET A
    OBVIOUS
  <2> HIDE DEF B, Upto
  <2>4. Total(Upto(1)) = Total(B) + s[1].amt
    BY <1>5, <2>1, <2>2, <2>3, AmtSumAdd
  <2>5. AmtFold(Part(1)) = 0 + s[1].amt
    BY <1>1, <1>8, <1>9
  <2>6. Total(B) \in Int /\ rd[q].opening = Total(B)
    BY <1>5, <1>10, <2>1 DEF B
  <2> QED
    BY <1>7, <2>1, <2>4, <2>5, <2>6
<1>12. ASSUME NEW i \in N, i + 1 \in N, Running(q, i) = Total(Upto(i))
       PROVE  Running(q, i + 1) = Total(Upto(i + 1))
  <2>1. Upto(i + 1) = Upto(i) \cup {s[i + 1]}
    BY <1>12, LineAdds DEF A, s
  <2>2. s[i].id < s[i + 1].id
    BY <1>12 DEF ExportInv, Done, s
  <2>3. s[i + 1] \notin Upto(i) /\ s[i + 1].amt \in Int /\ Upto(i) \in SUBSET A /\ Upto(i + 1) \in SUBSET A
    BY <1>2, <1>12, <2>2
  <2> HIDE DEF Upto
  <2>4. Total(Upto(i + 1)) = Total(Upto(i)) + s[i + 1].amt
    BY <1>5, <2>1, <2>3, AmtSumAdd
  <2>5. AmtFold(Part(i + 1)) = AmtFold(Part(i)) + s[i + 1].amt
    <3>1. (i + 1) - 1 = i
      BY <1>12
    <3> QED
      BY <1>8, <1>12, <3>1
  <2>6. AmtFold(Part(i)) \in Int /\ rd[q].opening \in Int
    <3>1. i \in Nat /\ i \in 0..Len(s) /\ \A j \in 1..i : j \in N
      BY <1>1, <1>12
    <3>2. DOMAIN Part(i) = 1..i /\ \A j \in 1..i : Part(i)[j].amt \in Int
      BY <1>2, <1>6, <3>1
    <3>3. {r \in A : r.id < s[1].id} \in SUBSET A
      OBVIOUS
    <3> QED
      BY <1>5, <1>10, <3>1, <3>2, <3>3, AmtFoldType
  <2> QED
    BY <1>7, <1>12, <2>3, <2>4, <2>5, <2>6
<1> DEFINE Bad == {i \in N : Running(q, i) # Total(Upto(i))}
<1>13. SUFFICES ASSUME Bad # {} PROVE FALSE
  BY DEF A, s
<1>14. Bad \subseteq Nat /\ Bad \subseteq N
  BY <1>1
<1>15. Min(Bad) \in Bad /\ \A i \in Bad : Min(Bad) <= i
  <2> HIDE DEF Bad
  <2> QED
    BY <1>13, <1>14, MinOf
<1>16. PICK m \in Bad : \A i \in Bad : m <= i
  BY <1>15
<1>17. m \in N /\ Running(q, m) # Total(Upto(m))
  BY <1>16
<1>18. m # 1
  BY <1>11, <1>17
<1>19. m - 1 \in N /\ (m - 1) + 1 = m
  BY <1>1, <1>17, <1>18
<1>20. m - 1 \notin Bad
  BY <1>16, <1>19
<1> QED
  BY <1>12, <1>17, <1>19, <1>20

(***************************************************************************)
(* When the account's rows bear times in the order of their ids, every     *)
(* running balance and the closing balance of an export by dates are the   *)
(* sum of the rows up to the line, although postings commit between its    *)
(* two SELECTs and the export is cut at EXPORT_MAX_ROWS.                   *)
(***************************************************************************)
THEOREM ExportsAreExact == Spec => []ExportExact
<1> DEFINE EInv == \A q \in Readers : ExportInv(q)
<1>1. Init => EInv
  BY DEF Init, ExportInv, IdleReader
<1>2. IInv /\ EInv /\ [Next]_vars => EInv'
  BY ExportStep
<1>3. IInv /\ EInv => ExportExact
  <2> SUFFICES ASSUME IInv, EInv, NEW q \in Readers, Done(q, "export"),
                      rd[q].filter.dir = "any", rd[q].filter.kind = "any",
                      InOrder(Of(rd[q].acct)), rd[q].shown # <<>>
               PROVE  LET pdf == StatementPdf(q)
                          Upto(i) == Total({r \in Of(rd[q].acct) : r.id <= rd[q].shown[i].id})
                      IN  /\ \A i \in 1..Len(pdf.lines) : pdf.lines[i].balance_after = Upto(i)
                          /\ pdf.closing = Upto(Len(pdf.lines))
    BY DEF ExportExact
  <2> DEFINE n == Len(rd[q].shown)
  <2>1. \A i \in 1..n : Running(q, i) = Total({r \in Of(rd[q].acct) : r.id <= rd[q].shown[i].id})
    BY LinesExact DEF ByDates
  <2>2. rd[q].shown \in Seq(Row) /\ n \in Nat /\ n \in 1..n
    BY DEF IInv, ReadersInv, ReaderInv, Reading
  <2>3. StatementPdf(q).lines = StatementCsv(q) /\ StatementPdf(q).closing = Running(q, n)
    BY DEF StatementPdf
  <2>4. Len(StatementCsv(q)) = n /\ \A i \in 1..n : StatementCsv(q)[i].balance_after = Running(q, i)
    BY <2>2 DEF StatementCsv
  <2> QED
    BY <2>1, <2>2, <2>3, <2>4
<1> QED
  BY <1>1, <1>2, <1>3, Inductive, PTL DEF Spec
=============================================================================
