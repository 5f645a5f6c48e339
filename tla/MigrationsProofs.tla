-------------------------- MODULE MigrationsProofs --------------------------
(***************************************************************************)
(* Proofs about Migrations, for any accounts, subjects and amounts, and    *)
(* any number of transactions, sessions and downgrades.                    *)
(*                                                                         *)
(* What a revision may assume of the data depends on the ones before it:   *)
(* ColumnInv says what the columns hold that a revision adds or drops,     *)
(* OwnerInv, NumberInv, RefInv and SessionInv what the constraints and the *)
(* references between the tables are worth at each revision.               *)
(***************************************************************************)
EXTENDS Migrations, SetTheorems

Forms == {"legacy", "chk", "uuid"}
Account == [form : Forms, owner : Subjects \cup {None}, num : Nat, balance : Int, cached : Int,
            status : Statuses]
TxTypes == {"deposit", "transfer_out", "transfer_in", "demo_grant"}
AnyId == (Forms \cup {"none"}) \X Nat
Tx == [n : Nat, acct : AnyId, cp : AnyId, amt : Int, type : TxTypes]
Ids == {Id(k) : k \in Opened}

TypeInv ==
  /\ rev \in 0..11 /\ cols \subseteq {"balance", "onboarding_status"}
  /\ Opened \subseteq Keys /\ accounts \in [Opened -> Account]
  /\ DOMAIN users \subseteq Subjects /\ users \in [DOMAIN users -> Statuses]
  /\ txs \subseteq Tx
  /\ seq \in Nat /\ restarts \in Nat

(***************************************************************************)
(* A column that is not there holds its default, and what a revision is    *)
(* the first to write is empty before it.                                  *)
(***************************************************************************)
ColumnInv ==
  /\ "balance" \in cols => rev = 1
  /\ rev < 2 => txs = {}
  /\ rev < 4 => seq = 0 /\ ledger = {}
  /\ \A k \in Opened :
       /\ "balance" \notin cols => accounts[k].balance = 0
       /\ rev < 3 => accounts[k].owner = None
       /\ rev < 4 => accounts[k].num = 0 /\ accounts[k].cached = 0

OwnerInv ==
  /\ \A k \in Opened : accounts[k].owner \in DOMAIN users \cup {None}
  /\ rev \in 3..6 => \A j, k \in Opened :
       accounts[j].owner = accounts[k].owner /\ accounts[k].owner # None => j = k

(***************************************************************************)
(* Numbers are unique.  Before 0006 they are High or more, and so is the   *)
(* sequence; after its first upgrade the ones below High were drawn since, *)
(* so the sequence is past them.                                           *)
(***************************************************************************)
NumberInv ==
  /\ \A j, k \in Opened : accounts[j].num = accounts[k].num /\ accounts[k].num # 0 => j = k
  /\ restarts = 0 =>
       /\ rev < 6 /\ (rev >= 4 => seq >= High)
       /\ \A k \in Opened : accounts[k].num = 0 \/ accounts[k].num >= High
  /\ rev >= 6 /\ restarts = 1 =>
       /\ seq >= 1
       /\ \A k \in Opened : accounts[k].num < High => accounts[k].num < seq

(***************************************************************************)
(* Transactions and ledger refer to accounts, transactions are numbered.   *)
(***************************************************************************)
RefInv ==
  /\ IsFiniteSet(txs)
  /\ \A t, u \in txs : t.n = u.n => t = u
  /\ \A t \in txs : t.acct \in Ids /\ t.cp \in Ids \cup {NoId}
  /\ postings \subseteq ledger /\ ledger \subseteq Ids

(***************************************************************************)
(* Sessions have no account before 0008 and must have one from 0009 on, an *)
(* account of their subject.                                               *)
(***************************************************************************)
SessionInv ==
  /\ \A s \in sessions :
       /\ s = [n |-> s.n, subject |-> s.subject, acct |-> s.acct, status |-> s.status]
       /\ s.acct = NoId \/ \E k \in Opened : accounts[k].owner = s.subject /\ Id(k) = s.acct
  /\ rev < 8 => \A s \in sessions : s.acct = NoId
  /\ rev >= 9 => \A s \in sessions : s.acct # NoId

IInv ==
  /\ TypeInv /\ ColumnInv /\ OwnerInv /\ NumberInv /\ RefInv /\ SessionInv
  /\ CachedIsSumUnlessAstray

-----------------------------------------------------------------------------
(***************************************************************************)
(* Ids and sums.                                                           *)
(***************************************************************************)
SumIn(S, i) == AmtSum({t \in S : t.acct = i})

LEMMA SumOfIsSumIn == \A k : SumOf(k) = SumIn(txs, Id(k))
BY DEF SumOf, RowsOf, SumIn, AmtSum

LEMMA SumNextIsSumIn == \A k : SumOf(k)' = SumIn(txs', Id(k)')
<1>1. (\A k : SumOf(k) = SumIn(txs, Id(k)))'
  BY SumOfIsSumIn, PTL
<1> QED
  BY <1>1

LEMMA IdsApart ==
  /\ \A j, k \in Opened : Id(j) = Id(k) => j = k
  /\ TypeInv => \A k \in Opened : Id(k) # NoId
<1>1. \A j, k \in Opened : Id(j) = Id(k) => j = k
  BY DEF Id
<1>2. TypeInv => \A k \in Opened : Id(k) # NoId
  BY DEF TypeInv, Account, Forms, Id, NoId
<1> QED
  BY <1>1, <1>2

LEMMA SumInType ==
  ASSUME NEW S, S \subseteq Tx, IsFiniteSet(S), NEW i
  PROVE  SumIn(S, i) \in Int
<1> DEFINE R == {t \in S : t.acct = i}
<1>1. IsFiniteSet(R) /\ \A t \in R : t.amt \in Int
  BY FS_Subset DEF Tx
<1> HIDE DEF R
<1>2. AmtSum(R) \in Int
  BY <1>1, AmtSumType
<1> QED
  BY <1>2 DEF SumIn, R

LEMMA SumInAdd ==
  ASSUME NEW S, S \subseteq Tx, IsFiniteSet(S), NEW x \in Tx, x \notin S, NEW i
  PROVE  SumIn(S \cup {x}, i) = SumIn(S, i) + IF x.acct = i THEN x.amt ELSE 0
<1> DEFINE R == {t \in S : t.acct = i}
           Q == {t \in S \cup {x} : t.acct = i}
<1>1. IsFiniteSet(R) /\ \A t \in R : t.amt \in Int
  BY FS_Subset DEF Tx
<1>2. x \notin R /\ x.amt \in Int
  BY DEF Tx
<1>3. x.acct = i => Q = R \cup {x}
  OBVIOUS
<1>4. x.acct # i => Q = R
  OBVIOUS
<1>5. SumIn(S, i) = AmtSum(R) /\ SumIn(S \cup {x}, i) = AmtSum(Q)
  BY DEF SumIn
<1> HIDE DEF R, Q
<1>6. AmtSum(R) \in Int /\ AmtSum(R \cup {x}) = AmtSum(R) + x.amt
  BY <1>1, <1>2, AmtSumAdd, AmtSumType
<1>7. CASE x.acct = i
  BY <1>3, <1>5, <1>6, <1>7
<1>8. CASE x.acct # i
  <2>1. SumIn(S \cup {x}, i) = SumIn(S, i) /\ SumIn(S, i) \in Int
    BY <1>4, <1>5, <1>6, <1>8
  <2> QED
    BY <2>1, <1>8
<1> QED
  BY <1>7, <1>8

(***************************************************************************)
(* The sum over no row of the account.                                     *)
(***************************************************************************)
LEMMA SumInNone ==
  ASSUME NEW S, NEW i, \A t \in S : t.acct # i
  PROVE  SumIn(S, i) = 0
<1>1. {t \in S : t.acct = i} = {}
  OBVIOUS
<1> QED
  BY <1>1, AmtSumOfNone DEF SumIn

(***************************************************************************)
(* New transactions have numbers of their own.                             *)
(***************************************************************************)
LEMMA NextTxFresh ==
  ASSUME TypeInv, RefInv
  PROVE  NextTx \in Nat /\ NextTx >= 1 /\ \A t \in txs : t.n < NextTx
<1>1. CASE txs = {}
  BY <1>1 DEF NextTx
<1>2. CASE txs # {}
  <2> DEFINE f == [t \in txs |-> t.n]
             N == {t.n : t \in txs}
  <2>1. N = {f[t] : t \in txs} /\ N \subseteq Nat /\ N # {}
    BY <1>2 DEF TypeInv, Tx
  <2>2. IsFiniteSet(N)
    <3>1. IsFiniteSet(txs)
      BY DEF RefInv
    <3> HIDE DEF f, N
    <3>2. IsFiniteSet({f[t] : t \in txs})
      BY <3>1, FiniteImage
    <3> QED
      BY <3>2, <2>1
  <2>3. NextTx = Max(N) + 1
    BY <1>2 DEF NextTx
  <2>4. \A t \in txs : t.n \in N
    OBVIOUS
  <2> HIDE DEF N
  <2>5. Max(N) \in N /\ \A a \in N : a <= Max(N)
    BY <2>1, <2>2, MaxOf
  <2>6. Max(N) \in Nat /\ \A t \in txs : t.n \in Nat /\ t.n <= Max(N)
    BY <2>1, <2>4, <2>5
  <2> DEFINE m == Max(N)
  <2> HIDE DEF m
  <2>7. m \in Nat /\ NextTx = m + 1 /\ \A t \in txs : t.n \in Nat /\ t.n <= m
    BY <2>3, <2>6 DEF m
  <2> QED
    BY <2>7
<1> QED
  BY <1>1, <1>2

-----------------------------------------------------------------------------
(***************************************************************************)
(* What a step leaves alone keeps its part of the invariant.               *)
(***************************************************************************)
SameIds == DOMAIN accounts' = Opened /\ \A k \in Opened : accounts'[k].form = accounts[k].form
SameOwners == DOMAIN accounts' = Opened /\ \A k \in Opened : accounts'[k].owner = accounts[k].owner
SameNumbers == DOMAIN accounts' = Opened /\ \A k \in Opened : accounts'[k].num = accounts[k].num
SameCached == DOMAIN accounts' = Opened /\ \A k \in Opened : accounts'[k].cached = accounts[k].cached

LEMMA IdsKept ==
  ASSUME SameIds
  PROVE  Opened' = Opened /\ Ids' = Ids /\ \A k \in Opened : Id(k)' = Id(k)
BY DEF SameIds, Ids, Id, Opened

LEMMA RefsKept ==
  ASSUME RefInv, SameIds, UNCHANGED <<txs, ledger, postings>>
  PROVE  RefInv'
<1>1. Ids' = Ids
  BY IdsKept
<1> QED
  BY <1>1 DEF RefInv, NoId

LEMMA CacheKept ==
  ASSUME CachedIsSumUnlessAstray, SameIds, SameCached, UNCHANGED <<txs, astray>>,
         rev' >= 4 => rev >= 4
  PROVE  CachedIsSumUnlessAstray'
<1>1. Opened' = Opened /\ \A k \in Opened : Id(k)' = Id(k)
  BY IdsKept
<1>2. ASSUME NEW k \in Opened PROVE SumOf(k)' = SumOf(k)
  BY <1>1, SumOfIsSumIn, SumNextIsSumIn
<1> QED
  BY <1>1, <1>2 DEF CachedIsSumUnlessAstray, SameCached

LEMMA OwnersKept ==
  ASSUME OwnerInv, SameOwners, DOMAIN users \subseteq DOMAIN users', rev' \in 3..6 => rev \in 3..6
  PROVE  OwnerInv'
BY DEF OwnerInv, SameOwners, Opened

LEMMA SessionsKept ==
  ASSUME SessionInv, SameIds, SameOwners, sessions' = sessions,
         rev' < 8 => rev < 8, rev' >= 9 => rev >= 9
  PROVE  SessionInv'
<1>1. Opened' = Opened /\ \A k \in Opened : Id(k)' = Id(k) /\ accounts'[k].owner = accounts[k].owner
  BY IdsKept DEF SameOwners
<1> QED
  BY <1>1 DEF SessionInv, NoId

LEMMA NumbersKept ==
  ASSUME TypeInv, NumberInv, SameNumbers, UNCHANGED <<seq, restarts>>, rev' \in 0..11,
         rev' >= 4 => rev >= 4, rev' >= 6 => rev >= 6
  PROVE  NumberInv'
<1>1. Opened' = Opened /\ \A k \in Opened : accounts'[k].num = accounts[k].num
  BY DEF SameNumbers, Opened
<1>3. \A j, k \in Opened' : accounts'[j].num = accounts'[k].num /\ accounts'[k].num # 0 => j = k
  BY <1>1 DEF NumberInv
<1>4. restarts = 0 => rev' < 6 /\ (rev' >= 4 => seq >= High)
  BY DEF NumberInv, TypeInv
<1>5. restarts = 0 => \A k \in Opened' : accounts'[k].num = 0 \/ accounts'[k].num >= High
  BY <1>1 DEF NumberInv
<1>6. rev' >= 6 /\ restarts = 1 =>
        /\ seq >= 1
        /\ \A k \in Opened' : accounts'[k].num < High => accounts'[k].num < seq
  BY <1>1 DEF NumberInv
<1> QED
  BY <1>3, <1>4, <1>5, <1>6 DEF NumberInv

-----------------------------------------------------------------------------
(***************************************************************************)
(* A step that moves no money and creates no account: accounts change in   *)
(* their statuses only.                                                    *)
(***************************************************************************)
Steady ==
  /\ DOMAIN accounts' = Opened
  /\ \A k \in Opened :
       /\ accounts'[k] \in Account
       /\ accounts'[k].form = accounts[k].form /\ accounts'[k].owner = accounts[k].owner
       /\ accounts'[k].num = accounts[k].num /\ accounts'[k].balance = accounts[k].balance
       /\ accounts'[k].cached = accounts[k].cached
  /\ UNCHANGED <<txs, ledger, postings, astray>>

LEMMA SteadyFrame ==
  ASSUME Steady
  PROVE  SameIds /\ SameOwners /\ SameNumbers /\ SameCached
BY DEF Steady, SameIds, SameOwners, SameNumbers, SameCached

LEMMA SteadyStep ==
  ASSUME IInv, Steady, accounts' = [k \in Opened |-> accounts'[k]],
         rev \in 2..11, rev' \in 2..11,
         rev' >= 4 <=> rev >= 4, rev' < 3 => rev < 3,
         cols' \subseteq cols \cup {"onboarding_status"},
         DOMAIN users' \subseteq Subjects, users' \in [DOMAIN users' -> Statuses],
         seq' \in Nat, restarts' \in Nat, rev' < 4 => seq' = 0,
         OwnerInv', NumberInv', SessionInv'
  PROVE  IInv'
<1>0. TypeInv /\ ColumnInv /\ RefInv /\ CachedIsSumUnlessAstray
  BY DEF IInv
<1>1. SameIds /\ SameOwners /\ SameNumbers /\ SameCached
  BY SteadyFrame
<1>2. Opened' = Opened /\ Opened \subseteq Keys
  BY <1>0 DEF Steady, Opened, TypeInv
<1>3. TypeInv'
  <2>1. accounts' \in [Opened' -> Account]
    BY <1>2 DEF Steady
  <2>2. cols' \subseteq {"balance", "onboarding_status"} /\ txs' \subseteq Tx /\ rev' \in 0..11
    BY <1>0 DEF TypeInv, Steady
  <2> QED
    BY <1>2, <2>1, <2>2 DEF TypeInv
<1>4. ColumnInv'
  <2>1. "balance" \notin cols /\ "balance" \notin cols'
    BY <1>0 DEF ColumnInv
  <2>2. ASSUME NEW k \in Opened
        PROVE  /\ accounts'[k].balance = 0
               /\ rev' < 3 => accounts'[k].owner = None
               /\ rev' < 4 => accounts'[k].num = 0 /\ accounts'[k].cached = 0
    BY <1>0, <2>1 DEF ColumnInv, Steady
  <2>3. rev' < 4 => ledger' = {}
    BY <1>0 DEF ColumnInv, Steady
  <2> QED
    BY <1>2, <2>1, <2>2, <2>3 DEF ColumnInv
<1>5. RefInv' /\ CachedIsSumUnlessAstray'
  BY <1>0, <1>1, RefsKept, CacheKept DEF Steady
<1> QED
  BY <1>3, <1>4, <1>5 DEF IInv

(***************************************************************************)
(* Revisions that only add or drop tables and constraints.                 *)
(***************************************************************************)
Still ==
  /\ rev \in 2..11 /\ rev' \in 2..11
  /\ UNCHANGED <<cols, accounts, users, txs, ledger, postings, sessions, seq, astray, restarts>>

LEMMA StillStep ==
  ASSUME IInv, Still, rev' >= 4 <=> rev >= 4, rev' >= 6 => rev >= 6, rev' < 3 => rev < 3,
         OwnerInv', SessionInv'
  PROVE  IInv'
<1>1. Steady /\ accounts' = [k \in Opened |-> accounts'[k]]
  BY DEF IInv, TypeInv, Still, Steady, Opened
<1>2. SameNumbers
  BY <1>1, SteadyFrame
<1>3. NumberInv'
  BY <1>2, NumbersKept DEF IInv, Still
<1>4. /\ rev \in 2..11 /\ rev' \in 2..11 /\ cols' \subseteq cols \cup {"onboarding_status"}
      /\ DOMAIN users' \subseteq Subjects /\ users' \in [DOMAIN users' -> Statuses]
      /\ seq' \in Nat /\ restarts' \in Nat /\ (rev' < 4 => seq' = 0)
  BY DEF IInv, TypeInv, ColumnInv, Still
<1> QED
  BY <1>1, <1>3, <1>4, SteadyStep

LEMMA StillOwners ==
  ASSUME IInv, Still, rev' \in 3..6 => rev \in 3..6
  PROVE  OwnerInv'
<1>1. SameOwners
  BY DEF Still, SameOwners, Opened
<1> QED
  BY <1>1, OwnersKept DEF IInv, Still

LEMMA StillSessions ==
  ASSUME IInv, Still, rev' < 8 => rev < 8, rev' >= 9 => rev >= 9
  PROVE  SessionInv'
<1>1. SameIds /\ SameOwners
  BY DEF Still, SameIds, SameOwners, Opened
<1> QED
  BY <1>1, SessionsKept DEF IInv, Still

LEMMA Up0003Step == ASSUME IInv, Up0003 PROVE IInv'
<1>1. Still /\ rev = 2 /\ rev' = 3
  BY DEF Up0003, Up, To, Still
<1>2. SessionInv'
  BY <1>1, StillSessions
<1>3. OwnerInv'
  <2>1. \A k \in Opened' : accounts'[k].owner = None
    BY <1>1 DEF IInv, ColumnInv, Still, Opened
  <2> QED
    BY <2>1 DEF OwnerInv
<1> QED
  BY <1>1, <1>2, <1>3, StillStep

LEMMA Down0005Step == ASSUME IInv, Down0005 PROVE IInv'
<1>1. Still /\ rev = 5 /\ rev' = 4
  BY DEF Down0005, Down, To, Still
<1>2. SessionInv' /\ OwnerInv'
  BY <1>1, StillSessions, StillOwners
<1> QED
  BY <1>1, <1>2, StillStep

LEMMA Up0007Step == ASSUME IInv, Up0007 PROVE IInv'
<1>1. Still /\ rev = 6 /\ rev' = 7
  BY DEF Up0007, Up, To, Still
<1>2. SessionInv' /\ OwnerInv'
  BY <1>1, StillSessions, StillOwners
<1> QED
  BY <1>1, <1>2, StillStep

(***************************************************************************)
(* One account at most: no two of the owner's accounts differ.             *)
(***************************************************************************)
LEMMA OnlyOne ==
  ASSUME NEW S, IsFiniteSet(S), Cardinality(S) <= 1, NEW j \in S, NEW k \in S
  PROVE  j = k
<1>1. SUFFICES ASSUME j # k PROVE FALSE
  OBVIOUS
<1>2. {j, k} \subseteq S /\ IsFiniteSet({j, k})
  BY FS_Subset
<1>3. IsFiniteSet({j}) /\ Cardinality({j}) = 1 /\ k \notin {j} /\ {j} \cup {k} = {j, k}
  BY <1>1, FS_Singleton
<1>4. Cardinality({j, k}) = 2
  BY <1>3, FS_AddElement
<1>5. Cardinality({j, k}) <= Cardinality(S) /\ Cardinality(S) \in Nat
  BY <1>2, FS_Subset, FS_CardinalityType
<1> QED
  BY <1>4, <1>5

LEMMA AtMostOne ==
  ASSUME NEW S, \A j, k \in S : j = k
  PROVE  IsFiniteSet(S) /\ Cardinality(S) <= 1
<1>1. CASE S = {}
  BY <1>1, FS_EmptySet
<1>2. CASE S # {}
  <2>1. PICK j : S = {j}
    BY <1>2
  <2> QED
    BY <2>1, FS_Singleton
<1> QED
  BY <1>1, <1>2

LEMMA OpenedFinite == ASSUME TypeInv PROVE IsFiniteSet(Opened)
BY MigrationConstants, FS_Subset DEF TypeInv

LEMMA Down0007Step == ASSUME IInv, Down0007 PROVE IInv'
<1>1. Still /\ rev = 7 /\ rev' = 6 /\ OnePerOwner
  BY DEF Down0007, Down, To, Still
<1>2. SessionInv'
  BY <1>1, StillSessions
<1>3. OwnerInv'
  <2>1. \A k \in Opened' : accounts'[k].owner \in DOMAIN users' \cup {None}
    BY <1>1 DEF IInv, OwnerInv, Still, Opened
  <2>2. ASSUME NEW j \in Opened, NEW k \in Opened,
               accounts[j].owner = accounts[k].owner, accounts[k].owner # None
        PROVE  j = k
    <3> DEFINE s == accounts[k].owner
    <3>1. s \in Subjects
      BY <2>1, <2>2, <1>1 DEF IInv, OwnerInv, TypeInv
    <3>2. j \in Owned(s) /\ k \in Owned(s) /\ Owned(s) \subseteq Opened
      BY <2>2 DEF Owned
    <3>3. IsFiniteSet(Opened)
      BY OpenedFinite DEF IInv
    <3>4. IsFiniteSet(Owned(s))
      BY <3>2, <3>3, FS_Subset
    <3>5. Cardinality(Owned(s)) <= 1
      BY <1>1, <3>1 DEF OnePerOwner
    <3> QED
      BY <3>2, <3>4, <3>5, OnlyOne
  <2>3. Opened' = Opened /\ accounts' = accounts
    BY <1>1 DEF Still, Opened
  <2> QED
    BY <2>1, <2>2, <2>3 DEF OwnerInv
<1> QED
  BY <1>1, <1>2, <1>3, StillStep

LEMMA Up0009Step == ASSUME IInv, Up0009 PROVE IInv'
<1>1. Still /\ rev = 8 /\ rev' = 9 /\ \A s \in sessions : s.acct # NoId
  BY DEF Up0009, Up, To, Still
<1>2. OwnerInv'
  BY <1>1, StillOwners
<1>3. SessionInv'
  <2>1. Opened' = Opened /\ \A k : Id(k)' = Id(k)
    BY <1>1 DEF Still, Opened, Id
  <2> QED
    BY <1>1, <2>1 DEF IInv, SessionInv, Still, NoId
<1> QED
  BY <1>1, <1>2, <1>3, StillStep

LEMMA Down0009Step == ASSUME IInv, Down0009 PROVE IInv'
<1>1. Still /\ rev = 9 /\ rev' = 8
  BY DEF Down0009, Down, To, Still
<1>2. SessionInv' /\ OwnerInv'
  BY <1>1, StillSessions, StillOwners
<1> QED
  BY <1>1, <1>2, StillStep

LEMMA Down0011Step == ASSUME IInv, Down0011 PROVE IInv'
<1>1. Still /\ rev = 11 /\ rev' = 10
  BY DEF Down0011, Down, To, Still
<1>2. SessionInv' /\ OwnerInv'
  BY <1>1, StillSessions, StillOwners
<1> QED
  BY <1>1, <1>2, StillStep

-----------------------------------------------------------------------------
(***************************************************************************)
(* Revisions that write the status column.                                 *)
(***************************************************************************)
LEMMA StatusStep ==
  ASSUME IInv, Steady, accounts' = [k \in Opened |-> accounts'[k]],
         rev \in 7..11, rev' \in 7..11, cols' \subseteq cols \cup {"onboarding_status"},
         UNCHANGED <<users, seq, restarts>>, SessionInv'
  PROVE  IInv'
<1>1. SameOwners /\ SameNumbers
  BY SteadyFrame
<1>2. OwnerInv'
  BY <1>1, OwnersKept DEF IInv
<1>3. NumberInv'
  BY <1>1, NumbersKept DEF IInv
<1>4. /\ DOMAIN users' \subseteq Subjects /\ users' \in [DOMAIN users' -> Statuses]
      /\ seq' \in Nat /\ restarts' \in Nat /\ (rev' < 4 => seq' = 0)
  BY DEF IInv, TypeInv, ColumnInv
<1> QED
  BY <1>2, <1>3, <1>4, SteadyStep

(***************************************************************************)
(* An account is a record of which a step may replace the status alone.    *)
(***************************************************************************)
LEMMA StatusReplaced ==
  ASSUME TypeInv, UNCHANGED <<txs, ledger, postings, astray>>,
         NEW st, \A k \in Opened : st[k] \in Statuses,
         accounts' = [k \in Opened |-> [accounts[k] EXCEPT !.status = st[k]]]
  PROVE  Steady /\ accounts' = [k \in Opened |-> accounts'[k]]
<1>1. DOMAIN accounts' = Opened /\ accounts' = [k \in Opened |-> accounts'[k]]
  OBVIOUS
<1>2. ASSUME NEW k \in Opened
      PROVE  /\ accounts'[k] \in Account
             /\ accounts'[k].form = accounts[k].form /\ accounts'[k].owner = accounts[k].owner
             /\ accounts'[k].num = accounts[k].num /\ accounts'[k].balance = accounts[k].balance
             /\ accounts'[k].cached = accounts[k].cached
  <2>1. accounts[k] \in Account /\ st[k] \in Statuses
    BY DEF TypeInv
  <2>2. accounts'[k] = [accounts[k] EXCEPT !.status = st[k]]
    OBVIOUS
  <2> QED
    BY <2>1, <2>2 DEF Account
<1> QED
  BY <1>1, <1>2 DEF Steady

LEMMA DropStatusSteady ==
  ASSUME TypeInv, DropStatus, UNCHANGED <<txs, ledger, postings, astray>>
  PROVE  Steady /\ accounts' = [k \in Opened |-> accounts'[k]]
<1> DEFINE st == [k \in Opened |-> "not_started"]
<1>1. accounts' = [k \in Opened |-> [accounts[k] EXCEPT !.status = st[k]]]
  BY DEF DropStatus, SetAccounts
<1>2. \A k \in Opened : st[k] \in Statuses
  BY DEF Statuses
<1> HIDE DEF st
<1> QED
  BY <1>1, <1>2, StatusReplaced

LEMMA CopyStatusSteady ==
  ASSUME TypeInv, OwnerInv, SetAccounts(CopyStatus), UNCHANGED <<txs, ledger, postings, astray>>
  PROVE  Steady /\ accounts' = [k \in Opened |-> accounts'[k]]
<1> DEFINE st == [k \in Opened |-> CopyStatus(accounts[k]).status]
<1>1. ASSUME NEW k \in Opened
      PROVE  /\ CopyStatus(accounts[k]) = [accounts[k] EXCEPT !.status = st[k]]
             /\ st[k] \in Statuses
  <2>1. accounts[k] \in Account /\ accounts[k].owner \in DOMAIN users \cup {None}
    BY DEF TypeInv, OwnerInv
  <2>2. CASE accounts[k].owner = None
    <3>1. CopyStatus(accounts[k]) = accounts[k]
      BY <2>2 DEF CopyStatus
    <3> QED
      BY <2>1, <3>1 DEF Account
  <2>3. CASE accounts[k].owner # None
    <3>1. users[accounts[k].owner] \in Statuses
      BY <2>1, <2>3 DEF TypeInv
    <3>2. CopyStatus(accounts[k]) = [accounts[k] EXCEPT !.status = users[accounts[k].owner]]
      BY <2>3 DEF CopyStatus
    <3> QED
      BY <2>1, <3>1, <3>2 DEF Account
  <2> QED
    BY <2>2, <2>3
<1>2. accounts' = [k \in Opened |-> [accounts[k] EXCEPT !.status = st[k]]]
  BY <1>1 DEF SetAccounts
<1> HIDE DEF st
<1> QED
  BY <1>1, <1>2, StatusReplaced

LEMMA Up0008Step == ASSUME IInv, Up0008 PROVE IInv'
<1>1. /\ rev = 7 /\ rev' = 8 /\ cols' = cols \cup {"onboarding_status"} /\ SetAccounts(CopyStatus)
      /\ sessions' = {[s EXCEPT !.acct = OldestAccount(s.subject)] : s \in sessions}
      /\ UNCHANGED <<users, txs, ledger, postings, seq, astray, restarts>>
  BY DEF Up0008, Up, To
<1>2. Steady /\ accounts' = [k \in Opened |-> accounts'[k]]
  BY <1>1, CopyStatusSteady DEF IInv
<1>3. Opened' = Opened /\ \A k \in Opened : Id(k)' = Id(k) /\ accounts'[k].owner = accounts[k].owner
  BY <1>2, SteadyFrame, IdsKept DEF SameOwners
<1>4. ASSUME NEW t \in sessions'
      PROVE  /\ t = [n |-> t.n, subject |-> t.subject, acct |-> t.acct, status |-> t.status]
             /\ t.acct = NoId \/ \E k \in Opened : accounts[k].owner = t.subject /\ Id(k) = t.acct
  <2>1. PICK s \in sessions : t = [s EXCEPT !.acct = OldestAccount(s.subject)]
    BY <1>1
  <2>2. s = [n |-> s.n, subject |-> s.subject, acct |-> s.acct, status |-> s.status]
    BY DEF IInv, SessionInv
  <2> DEFINE a == OldestAccount(s.subject)
  <2>3. a = NoId \/ \E k \in Opened : accounts[k].owner = s.subject /\ Id(k) = a
    <3>1. CASE Owned(s.subject) = {}
      BY <3>1 DEF OldestAccount
    <3>2. CASE Owned(s.subject) # {}
      <4>1. Owned(s.subject) \subseteq Nat
        BY MigrationConstants DEF Owned, IInv, TypeInv
      <4>2. Min(Owned(s.subject)) \in Owned(s.subject)
        BY <3>2, <4>1, MinOf
      <4> QED
        BY <3>2, <4>2 DEF OldestAccount, Owned
    <3> QED
      BY <3>1, <3>2
  <2> HIDE DEF a
  <2>4. t = [s EXCEPT !.acct = a]
    BY <2>1 DEF a
  <2>5. t = [n |-> s.n, subject |-> s.subject, acct |-> a, status |-> s.status]
    BY <2>2, <2>4
  <2> QED
    BY <2>3, <2>5
<1>5. SessionInv'
  BY <1>1, <1>3, <1>4 DEF SessionInv, NoId
<1> QED
  BY <1>1, <1>2, <1>5, StatusStep

LEMMA Down0008Step == ASSUME IInv, Down0008 PROVE IInv'
<1>1. /\ rev = 8 /\ rev' = 7 /\ DropStatus /\ cols' = cols \ {"onboarding_status"}
      /\ sessions' = {[s EXCEPT !.acct = NoId] : s \in sessions}
      /\ UNCHANGED <<users, txs, ledger, postings, seq, astray, restarts>>
  BY DEF Down0008, Down, To, DropStatus
<1>2. Steady /\ accounts' = [k \in Opened |-> accounts'[k]]
  BY <1>1, DropStatusSteady DEF IInv
<1>3. ASSUME NEW t \in sessions'
      PROVE  /\ t = [n |-> t.n, subject |-> t.subject, acct |-> t.acct, status |-> t.status]
             /\ t.acct = NoId
  <2>1. PICK s \in sessions : t = [s EXCEPT !.acct = NoId]
    BY <1>1
  <2>2. s = [n |-> s.n, subject |-> s.subject, acct |-> s.acct, status |-> s.status]
    BY DEF IInv, SessionInv
  <2>3. t = [n |-> s.n, subject |-> s.subject, acct |-> NoId, status |-> s.status]
    BY <2>1, <2>2
  <2> QED
    BY <2>3
<1>4. SessionInv'
  BY <1>1, <1>3 DEF SessionInv, NoId
<1> QED
  BY <1>1, <1>2, <1>4, StatusStep

LEMMA SteadySessions ==
  ASSUME IInv, Steady, sessions' = sessions, rev' < 8 => rev < 8, rev' >= 9 => rev >= 9
  PROVE  SessionInv'
BY SteadyFrame, SessionsKept DEF IInv

LEMMA Up0010Steady ==
  ASSUME IInv, Up0010
  PROVE  Steady /\ accounts' = [k \in Opened |-> accounts'[k]]
<1>1. /\ rev = 9 /\ rev' = 10 /\ sessions' = sessions
      /\ UNCHANGED <<users, txs, ledger, postings, seq, astray, restarts>>
  BY DEF Up0010, Up, To
<1>2. CASE HasStatus
  BY <1>1, <1>2 DEF Up0010, IInv, TypeInv, Steady, Opened
<1>3. CASE ~HasStatus
  <2>1. SetAccounts(CopyStatus)
    BY <1>3 DEF Up0010
  <2> QED
    BY <1>1, <2>1, CopyStatusSteady DEF IInv
<1> QED
  BY <1>2, <1>3

LEMMA Up0010Step == ASSUME IInv, Up0010 PROVE IInv'
<1>1. /\ rev = 9 /\ rev' = 10 /\ sessions' = sessions
      /\ UNCHANGED <<users, txs, ledger, postings, seq, astray, restarts>>
  BY DEF Up0010, Up, To
<1>2. Steady /\ accounts' = [k \in Opened |-> accounts'[k]]
  BY Up0010Steady
<1>3. cols' \subseteq cols \cup {"onboarding_status"}
  BY DEF Up0010
<1>4. SessionInv'
  BY <1>1, <1>2, SteadySessions
<1> QED
  BY <1>1, <1>2, <1>3, <1>4, StatusStep

LEMMA Down0010Step == ASSUME IInv, Down0010 PROVE IInv'
<1>1. /\ rev = 10 /\ rev' = 9 /\ sessions' = sessions /\ DropStatus /\ cols' = cols \ {"onboarding_status"}
      /\ UNCHANGED <<users, txs, ledger, postings, seq, astray, restarts>>
  BY DEF Down0010, Down, To, DropStatus
<1>2. Steady /\ accounts' = [k \in Opened |-> accounts'[k]]
  BY <1>1, DropStatusSteady DEF IInv
<1>3. SessionInv'
  BY <1>1, <1>2, SteadySessions
<1> QED
  BY <1>1, <1>2, <1>3, StatusStep

LEMMA DriftStep == ASSUME IInv, Drift PROVE IInv'
<1>1. /\ rev \in {8, 9} /\ rev' = rev /\ sessions' = sessions /\ DropStatus
      /\ cols' = cols \ {"onboarding_status"}
      /\ UNCHANGED <<users, txs, ledger, postings, seq, astray, restarts>>
  BY DEF Drift, DropStatus, history
<1>2. Steady /\ accounts' = [k \in Opened |-> accounts'[k]]
  BY <1>1, DropStatusSteady DEF IInv
<1>3. SessionInv'
  BY <1>1, <1>2, SteadySessions
<1> QED
  BY <1>1, <1>2, <1>3, StatusStep

(***************************************************************************)
(* What 0011 makes of a status.                                            *)
(***************************************************************************)
LEMMA RestoredIs ==
  ASSUME NEW k
  PROVE  Restored(k) = IF ~Frozen(k) THEN accounts[k].status
                       ELSE IF Finished(k, "approved_demo") THEN "completed"
                       ELSE IF Finished(k, "skipped") \/ Granted(k) THEN "skipped"
                       ELSE accounts[k].status
<1> DEFINE F == Frozen(k)
           A == Finished(k, "approved_demo")
           B == Finished(k, "skipped") \/ Granted(k)
<1>1. Restored(k) = CASE ~F -> accounts[k].status
                      [] F /\ A -> "completed"
                      [] F /\ ~A /\ B -> "skipped"
                      [] OTHER -> accounts[k].status
  BY DEF Restored
<1> HIDE DEF F, A, B
<1>2. Restored(k) = IF ~F THEN accounts[k].status ELSE IF A THEN "completed"
                    ELSE IF B THEN "skipped" ELSE accounts[k].status
  BY <1>1
<1> QED
  BY <1>2 DEF F, A, B

LEMMA Up0011Is ==
  ASSUME IInv, Up0011
  PROVE  /\ Steady /\ accounts' = [k \in Opened |-> accounts'[k]]
         /\ \A k \in Opened : accounts'[k].status = Restored(k)
<1>1. UNCHANGED <<txs, ledger, postings, astray>>
  BY DEF Up0011
<1> DEFINE st == [k \in Opened |-> Restored(k)]
<1>2. accounts' = [k \in Opened |-> [accounts[k] EXCEPT !.status = st[k]]]
  BY DEF Up0011
<1>3. ASSUME NEW k \in Opened PROVE st[k] \in Statuses
  <2>1. accounts[k].status \in Statuses
    BY DEF IInv, TypeInv, Account
  <2> QED
    BY <2>1, RestoredIs DEF Statuses
<1>4. ASSUME NEW k \in Opened PROVE accounts'[k].status = Restored(k)
  <2>1. accounts[k] \in Account /\ accounts'[k] = [accounts[k] EXCEPT !.status = st[k]]
    BY <1>2 DEF IInv, TypeInv
  <2>2. accounts'[k].status = st[k]
    <3> HIDE DEF st
    <3> QED
      BY <2>1 DEF Account
  <2> QED
    BY <2>2
<1> HIDE DEF st
<1>5. Steady /\ accounts' = [k \in Opened |-> accounts'[k]]
  BY <1>1, <1>2, <1>3, StatusReplaced DEF IInv
<1> QED
  BY <1>4, <1>5

LEMMA Up0011Step == ASSUME IInv, Up0011 PROVE IInv'
<1>1. /\ rev = 10 /\ rev' = 11 /\ sessions' = sessions /\ cols' = cols
      /\ UNCHANGED <<users, txs, ledger, postings, seq, astray, restarts>>
  BY DEF Up0011, Up, To
<1>2. Steady /\ accounts' = [k \in Opened |-> accounts'[k]]
  BY Up0011Is
<1>3. SessionInv'
  BY <1>1, <1>2, SteadySessions
<1> QED
  BY <1>1, <1>2, <1>3, StatusStep

-----------------------------------------------------------------------------
(***************************************************************************)
(* Sessions and numbers.                                                   *)
(***************************************************************************)
LEMMA EnsureSessionHolds ==
  ASSUME IInv, NEW k \in Opened, rev = 11
  PROVE  \A t \in EnsureSession(k) :
           /\ t = [n |-> t.n, subject |-> t.subject, acct |-> t.acct, status |-> t.status]
           /\ t.acct # NoId
           /\ \E j \in Opened : accounts[j].owner = t.subject /\ Id(j) = t.acct
<1> DEFINE new == [n |-> NextSession, subject |-> accounts[k].owner, acct |-> Id(k), status |-> "draft"]
<1>1. EnsureSession(k) \subseteq sessions \cup {new}
  BY DEF EnsureSession
<1>2. Id(k) # NoId
  BY IdsApart DEF IInv
<1> QED
  BY <1>1, <1>2 DEF IInv, SessionInv

LEMMA RestartStep == ASSUME IInv, Restart PROVE IInv'
<1>1. PICK k \in Opened :
        /\ rev = 11 /\ sessions' = EnsureSession(k)
        /\ accounts' = [accounts EXCEPT ![k].status = "in_progress"]
        /\ UNCHANGED <<schema, users, txs, ledger, postings, seq>>
  BY DEF Restart
<1>2. UNCHANGED <<rev, cols, users, txs, ledger, postings, seq, astray, restarts>>
  BY <1>1 DEF schema, history
<1> DEFINE st == [j \in Opened |-> IF j = k THEN "in_progress" ELSE accounts[j].status]
<1>3. ASSUME NEW j \in Opened
      PROVE  accounts'[j] = [accounts[j] EXCEPT !.status = st[j]] /\ st[j] \in Statuses
  <2>1. accounts[j] \in Account /\ accounts \in [Opened -> Account]
    BY DEF IInv, TypeInv
  <2> QED
    BY <1>1, <2>1 DEF Account, Statuses
<1>4. accounts' = [j \in Opened |-> accounts'[j]]
  BY <1>1 DEF IInv, TypeInv
<1> HIDE DEF st
<1>5. accounts' = [j \in Opened |-> [accounts[j] EXCEPT !.status = st[j]]]
  BY <1>3, <1>4
<1>6. Steady /\ accounts' = [j \in Opened |-> accounts'[j]]
  BY <1>2, <1>3, <1>5, StatusReplaced DEF IInv
<1>7. Opened' = Opened /\ \A j \in Opened : Id(j)' = Id(j) /\ accounts'[j].owner = accounts[j].owner
  BY <1>6, SteadyFrame, IdsKept DEF SameOwners
<1>8. SessionInv'
  <2>1. \A t \in sessions' :
           /\ t = [n |-> t.n, subject |-> t.subject, acct |-> t.acct, status |-> t.status]
           /\ t.acct # NoId
           /\ \E j \in Opened : accounts[j].owner = t.subject /\ Id(j) = t.acct
    BY <1>1, EnsureSessionHolds
  <2>2. rev' = 11
    BY <1>1, <1>2
  <2> QED
    BY <1>7, <2>1, <2>2 DEF SessionInv, NoId
<1> QED
  BY <1>1, <1>2, <1>6, <1>8, StatusStep

LEMMA SignUpStep == ASSUME IInv, SignUp PROVE IInv'
<1>1. PICK s \in Subjects, u \in Statuses, x \in {"draft", "approved_demo", "skipped", "none"} :
        /\ rev \in 3..7
        /\ users' = [t \in DOMAIN users \cup {s} |-> IF t = s THEN u ELSE users[t]]
        /\ sessions' = IF x = "none" \/ \E e \in sessions : e.subject = s THEN sessions
                       ELSE sessions \cup {[n |-> NextSession, subject |-> s, acct |-> NoId, status |-> x]}
        /\ UNCHANGED <<schema, accounts, txs, ledger, postings, seq>>
  BY DEF SignUp
<1>2. UNCHANGED <<rev, cols, accounts, txs, ledger, postings, seq, astray, restarts>>
  BY <1>1 DEF schema, history
<1>3. DOMAIN users' = DOMAIN users \cup {s} /\ DOMAIN users' \subseteq Subjects
      /\ users' \in [DOMAIN users' -> Statuses]
  BY <1>1 DEF IInv, TypeInv
<1>4. Steady /\ accounts' = [k \in Opened |-> accounts'[k]]
  BY <1>2 DEF IInv, TypeInv, Steady, Opened
<1>5. SameIds /\ SameOwners /\ SameNumbers
  BY <1>4, SteadyFrame
<1>6. OwnerInv' /\ NumberInv'
  BY <1>2, <1>3, <1>5, OwnersKept, NumbersKept DEF IInv, TypeInv
<1>7. SessionInv'
  <2>1. Opened' = Opened /\ \A k \in Opened : Id(k)' = Id(k) /\ accounts'[k].owner = accounts[k].owner
    BY <1>5, IdsKept DEF SameOwners
  <2>2. \A t \in sessions' :
          /\ t = [n |-> t.n, subject |-> t.subject, acct |-> t.acct, status |-> t.status]
          /\ t.acct = NoId
    BY <1>1 DEF IInv, SessionInv
  <2> QED
    BY <1>1, <1>2, <2>1, <2>2 DEF SessionInv, NoId
<1>8. /\ rev \in 2..11 /\ rev' \in 2..11 /\ cols' \subseteq cols \cup {"onboarding_status"}
      /\ seq' \in Nat /\ restarts' \in Nat /\ (rev' < 4 => seq' = 0)
      /\ (rev' >= 4 <=> rev >= 4) /\ (rev' < 3 => rev < 3)
  BY <1>1, <1>2 DEF IInv, TypeInv, ColumnInv
<1> QED
  BY <1>3, <1>4, <1>6, <1>7, <1>8, SteadyStep

(***************************************************************************)
(* A step on the sequence alone.                                           *)
(***************************************************************************)
LEMMA SequenceStep ==
  ASSUME IInv, UNCHANGED <<cols, accounts, users, txs, ledger, postings, sessions, astray>>,
         rev \in 4..11, rev' \in 4..11, seq' \in Nat, restarts' \in Nat, NumberInv',
         rev' \in 3..6 => rev \in 3..6, rev' < 8 => rev < 8, rev' >= 9 => rev >= 9
  PROVE  IInv'
<1>1. Steady /\ accounts' = [k \in Opened |-> accounts'[k]]
  BY DEF IInv, TypeInv, Steady, Opened
<1>2. OwnerInv'
  BY <1>1, SteadyFrame, OwnersKept DEF IInv
<1>3. SessionInv'
  BY <1>1, SteadySessions
<1>4. /\ cols' \subseteq cols \cup {"onboarding_status"}
      /\ DOMAIN users' \subseteq Subjects /\ users' \in [DOMAIN users' -> Statuses]
  BY DEF IInv, TypeInv
<1> QED
  BY <1>1, <1>2, <1>3, <1>4, SteadyStep

(***************************************************************************)
(* 0006: no number is below the restarted sequence, because the first      *)
(* restart finds none below High.                                          *)
(***************************************************************************)
LEMMA Up0006Step == ASSUME IInv, Up0006 PROVE IInv'
<1>1. /\ rev = 5 /\ rev' = 6 /\ seq' = 1 /\ restarts' = restarts + 1
      /\ UNCHANGED <<cols, accounts, users, txs, ledger, postings, sessions, astray>>
  BY DEF Up0006, Up, To
<1>2. restarts \in Nat /\ \A k \in Opened : accounts[k].num \in Nat
  BY DEF IInv, TypeInv, Account
<1>3. Opened' = Opened /\ accounts' = accounts
  BY <1>1 DEF Opened
<1>6. High \in Nat /\ 1 < High
  BY MigrationConstants
<1>7. ASSUME restarts' = 1, NEW k \in Opened, accounts[k].num < High PROVE accounts[k].num < 1
  BY <1>1, <1>2, <1>7, <1>6 DEF IInv, NumberInv
<1>8. \A j, k \in Opened : accounts[j].num = accounts[k].num /\ accounts[k].num # 0 => j = k
  BY DEF IInv, NumberInv
<1>9. restarts' # 0
  BY <1>1, <1>2
<1>10. NumberInv'
  BY <1>1, <1>3, <1>7, <1>8, <1>9 DEF NumberInv
<1> QED
  BY <1>1, <1>2, <1>10, SequenceStep

LEMMA Down0006Step == ASSUME IInv, Down0006 PROVE IInv'
<1>1. /\ rev = 6 /\ rev' = 5 /\ seq' = High
      /\ UNCHANGED <<cols, accounts, users, txs, ledger, postings, sessions, astray, restarts>>
  BY DEF Down0006, Down, To
<1>2. restarts \in Nat /\ restarts # 0 /\ High \in Nat
  BY <1>1, MigrationConstants DEF IInv, TypeInv, NumberInv
<1>3. Opened' = Opened /\ accounts' = accounts
  BY <1>1 DEF Opened
<1>4. NumberInv'
  BY <1>1, <1>2, <1>3 DEF IInv, NumberInv
<1> QED
  BY <1>1, <1>2, <1>4, SequenceStep

(***************************************************************************)
(* A number that is gone leaves the others as they are.                    *)
(***************************************************************************)
LEMMA OpenFailsStep == ASSUME IInv, OpenFails PROVE IInv'
<1>1. /\ rev \in 4..7 \cup {11} /\ Draw
      /\ UNCHANGED <<rev, cols, accounts, users, txs, ledger, postings, sessions, astray, restarts>>
  BY DEF OpenFails, schema, history
<1>2. seq \in Nat /\ restarts \in Nat /\ \A k \in Opened : accounts[k].num \in Nat
  BY DEF IInv, TypeInv, Account
<1>3. seq' \in Nat /\ (seq' = seq + 1 \/ (seq = 0 /\ seq' = 0))
  <2>1. CASE seq = 0
    BY <1>1, <2>1 DEF Draw
  <2>2. CASE seq # 0
    BY <1>1, <1>2, <2>2 DEF Draw
  <2> QED
    BY <2>1, <2>2
<1>4. Opened' = Opened /\ accounts' = accounts
  BY <1>1 DEF Opened
<1>5. restarts = 0 => /\ rev < 6 /\ (rev >= 4 => seq' >= High)
                      /\ \A k \in Opened : accounts[k].num = 0 \/ accounts[k].num >= High
  BY <1>2, <1>3, MigrationConstants DEF IInv, NumberInv
<1>6. rev >= 6 /\ restarts = 1 =>
        seq' >= 1 /\ \A k \in Opened : accounts[k].num < High => accounts[k].num < seq'
  BY <1>2, <1>3, MigrationConstants DEF IInv, NumberInv
<1>7. \A j, k \in Opened : accounts[j].num = accounts[k].num /\ accounts[k].num # 0 => j = k
  BY DEF IInv, NumberInv
<1>8. NumberInv'
  BY <1>1, <1>4, <1>5, <1>6, <1>7 DEF NumberInv
<1> QED
  BY <1>1, <1>2, <1>3, <1>8, SequenceStep

-----------------------------------------------------------------------------
(***************************************************************************)
(* 0003 back: nobody owns an account, no user and no session is left.      *)
(***************************************************************************)
LEMMA Down0003Is ==
  ASSUME IInv, Down0003
  PROVE  /\ rev = 3 /\ rev' = 2 /\ users' = <<>> /\ sessions' = {} /\ Opened' = Opened
         /\ accounts' = [k \in Opened |-> accounts'[k]]
         /\ UNCHANGED <<cols, txs, ledger, postings, seq, astray, restarts>>
         /\ \A k \in Opened :
              /\ accounts'[k] \in Account /\ accounts'[k].owner = None
              /\ accounts'[k].form = accounts[k].form
              /\ accounts'[k].num = accounts[k].num /\ accounts'[k].balance = accounts[k].balance
              /\ accounts'[k].cached = accounts[k].cached
<1>1. /\ rev = 3 /\ rev' = 2 /\ users' = <<>> /\ sessions' = {}
      /\ accounts' = [k \in Opened |-> [accounts[k] EXCEPT !.owner = None]]
      /\ UNCHANGED <<cols, txs, ledger, postings, seq, astray, restarts>>
  BY DEF Down0003, Down, To, SetAccounts
<1>2. ASSUME NEW k \in Opened
      PROVE  /\ accounts'[k] \in Account /\ accounts'[k].owner = None
             /\ accounts'[k].form = accounts[k].form
             /\ accounts'[k].num = accounts[k].num /\ accounts'[k].balance = accounts[k].balance
             /\ accounts'[k].cached = accounts[k].cached
  <2>1. accounts[k] \in Account
    BY DEF IInv, TypeInv
  <2>2. accounts'[k] = [accounts[k] EXCEPT !.owner = None]
    BY <1>1
  <2> QED
    BY <2>1, <2>2 DEF Account
<1>3. Opened' = Opened /\ accounts' = [k \in Opened |-> accounts'[k]]
  BY <1>1 DEF Opened
<1> QED
  BY <1>1, <1>2, <1>3

LEMMA Down0003Step == ASSUME IInv, Down0003 PROVE IInv'
<1>1. /\ rev = 3 /\ rev' = 2 /\ users' = <<>> /\ sessions' = {}
      /\ UNCHANGED <<cols, txs, ledger, postings, seq, astray, restarts>>
  BY Down0003Is
<1>2. \A k \in Opened :
        /\ accounts'[k] \in Account /\ accounts'[k].owner = None
        /\ accounts'[k].form = accounts[k].form
        /\ accounts'[k].num = accounts[k].num /\ accounts'[k].balance = accounts[k].balance
        /\ accounts'[k].cached = accounts[k].cached
  BY Down0003Is
<1>3. Opened' = Opened /\ DOMAIN accounts' = Opened /\ accounts' = [k \in Opened |-> accounts'[k]]
  BY Down0003Is DEF Opened
<1>4. SameIds /\ SameNumbers /\ SameCached
  BY <1>2, <1>3 DEF SameIds, SameNumbers, SameCached
<1>5. TypeInv'
  <2>1. accounts' \in [Opened' -> Account] /\ Opened' \subseteq Keys
    BY <1>2, <1>3 DEF IInv, TypeInv
  <2>2. DOMAIN users' = {} /\ users' \in [DOMAIN users' -> Statuses]
    BY <1>1
  <2> QED
    BY <1>1, <2>1, <2>2 DEF IInv, TypeInv
<1>6. ColumnInv'
  BY <1>1, <1>2, <1>3 DEF IInv, ColumnInv
<1>7. OwnerInv' /\ SessionInv'
  BY <1>1, <1>2, <1>3 DEF OwnerInv, SessionInv
<1>8. NumberInv' /\ RefInv' /\ CachedIsSumUnlessAstray'
  BY <1>1, <1>4, NumbersKept, RefsKept, CacheKept DEF IInv
<1> QED
  BY <1>5, <1>6, <1>7, <1>8 DEF IInv

-----------------------------------------------------------------------------
(***************************************************************************)
(* 0002: one deposit for each balance.                                     *)
(***************************************************************************)
Balance == [k \in Opened |-> [n |-> NextTx + k, acct |-> Id(k), cp |-> NoId,
                              amt |-> accounts[k].balance, type |-> "deposit"]]
Moved == {k \in Opened : "balance" \in cols /\ accounts[k].balance # 0}

LEMMA IdTyped == ASSUME TypeInv, NEW k \in Opened PROVE Id(k) \in AnyId
BY MigrationConstants DEF TypeInv, Account, Id, AnyId

LEMMA NoIdTyped == NoId \in AnyId
BY DEF NoId, AnyId

LEMMA Up0002Is ==
  ASSUME IInv, Up0002
  PROVE  /\ rev = 1 /\ rev' = 2 /\ cols' = cols \ {"balance"} /\ txs = {} /\ NextTx = 1
         /\ txs' = {Balance[k] : k \in Moved}
         /\ accounts' = [k \in Opened |-> [accounts[k] EXCEPT !.balance = 0]]
         /\ UNCHANGED <<users, ledger, postings, sessions, seq, astray, restarts>>
         /\ Opened' = Opened /\ Moved \subseteq Opened
         /\ \A k \in Opened :
              /\ accounts'[k] \in Account /\ accounts'[k].balance = 0
              /\ accounts'[k].form = accounts[k].form /\ accounts'[k].owner = accounts[k].owner
              /\ accounts'[k].num = accounts[k].num /\ accounts'[k].cached = accounts[k].cached
              /\ accounts'[k].status = accounts[k].status
<1>1. /\ rev = 1 /\ rev' = 2 /\ cols' = cols \ {"balance"} /\ txs = {}
      /\ accounts' = [k \in Opened |-> [accounts[k] EXCEPT !.balance = 0]]
      /\ UNCHANGED <<users, ledger, postings, sessions, seq, astray, restarts>>
  BY DEF Up0002, Up, To, SetAccounts, IInv, ColumnInv
<1>2. NextTx = 1
  BY <1>1 DEF NextTx
<1>3. txs' = txs \cup {[n |-> NextTx + k, acct |-> Id(k), cp |-> NoId,
                        amt |-> accounts[k].balance, type |-> "deposit"] : k \in Moved}
  BY DEF Up0002, Moved
<1>4. \A k \in Moved : Balance[k] = [n |-> NextTx + k, acct |-> Id(k), cp |-> NoId,
                                     amt |-> accounts[k].balance, type |-> "deposit"]
  BY DEF Balance, Moved
<1>5. txs' = {Balance[k] : k \in Moved}
  BY <1>1, <1>3, <1>4
<1>6. Opened' = Opened /\ Moved \subseteq Opened
  BY <1>1 DEF Opened, Moved
<1>7. ASSUME NEW k \in Opened
      PROVE  /\ accounts'[k] \in Account /\ accounts'[k].balance = 0
             /\ accounts'[k].form = accounts[k].form /\ accounts'[k].owner = accounts[k].owner
             /\ accounts'[k].num = accounts[k].num /\ accounts'[k].cached = accounts[k].cached
             /\ accounts'[k].status = accounts[k].status
  <2>1. accounts[k] \in Account
    BY DEF IInv, TypeInv
  <2>2. accounts'[k] = [accounts[k] EXCEPT !.balance = 0]
    BY <1>1
  <2> QED
    BY <2>1, <2>2 DEF Account
<1> QED
  BY <1>1, <1>2, <1>5, <1>6, <1>7

LEMMA BalanceRow ==
  ASSUME TypeInv, NextTx = 1, NEW k \in Opened
  PROVE  /\ Balance[k] \in Tx /\ Balance[k].n = 1 + k /\ Balance[k].acct = Id(k) /\ Balance[k].cp = NoId
         /\ Balance[k].amt = accounts[k].balance /\ k \in Nat
<1>1. Balance[k] = [n |-> 1 + k, acct |-> Id(k), cp |-> NoId, amt |-> accounts[k].balance, type |-> "deposit"]
  BY DEF Balance
<1>2. k \in Nat /\ accounts[k].balance \in Int
  BY MigrationConstants DEF TypeInv, Account
<1>3. Id(k) \in AnyId /\ NoId \in AnyId
  BY IdTyped, NoIdTyped
<1> QED
  BY <1>1, <1>2, <1>3 DEF Tx, TxTypes

LEMMA Up0002Step == ASSUME IInv, Up0002 PROVE IInv'
<1>1. /\ rev = 1 /\ rev' = 2 /\ cols' = cols \ {"balance"} /\ txs = {} /\ NextTx = 1
      /\ txs' = {Balance[k] : k \in Moved}
      /\ accounts' = [k \in Opened |-> [accounts[k] EXCEPT !.balance = 0]]
      /\ UNCHANGED <<users, ledger, postings, sessions, seq, astray, restarts>>
      /\ Opened' = Opened /\ Moved \subseteq Opened
  BY Up0002Is
<1>2. \A k \in Opened :
        /\ accounts'[k] \in Account /\ accounts'[k].balance = 0
        /\ accounts'[k].form = accounts[k].form /\ accounts'[k].owner = accounts[k].owner
        /\ accounts'[k].num = accounts[k].num /\ accounts'[k].cached = accounts[k].cached
  BY Up0002Is
<1>3. SameIds /\ SameOwners /\ SameNumbers
  BY <1>1, <1>2 DEF SameIds, SameOwners, SameNumbers, Opened
<1>4. \A k \in Moved : /\ Balance[k] \in Tx /\ Balance[k].n = 1 + k /\ Balance[k].acct = Id(k)
                       /\ Balance[k].cp = NoId /\ k \in Nat
  BY <1>1, BalanceRow DEF IInv
<1>5. TypeInv'
  <2>1. accounts' \in [Opened' -> Account] /\ Opened' \subseteq Keys
    BY <1>1, <1>2 DEF IInv, TypeInv
  <2>2. txs' \subseteq Tx
    BY <1>1, <1>4
  <2> QED
    BY <1>1, <2>1, <2>2 DEF IInv, TypeInv
<1>6. ColumnInv'
  BY <1>1, <1>2 DEF IInv, ColumnInv
<1>7. OwnerInv' /\ NumberInv' /\ SessionInv'
  BY <1>1, <1>3, OwnersKept, NumbersKept, SessionsKept DEF IInv
<1>8. RefInv'
  <2>1. IsFiniteSet(Moved)
    BY <1>1, OpenedFinite, FS_Subset DEF IInv
  <2>2. IsFiniteSet(txs')
    BY <1>1, <2>1, FiniteImage
  <2>3. Ids' = Ids /\ \A k \in Opened : Id(k) \in Ids
    BY <1>3, IdsKept DEF Ids
  <2>4. \A t, u \in txs' : t.n = u.n => t = u
    <3>1. ASSUME NEW t \in txs', NEW u \in txs', t.n = u.n PROVE t = u
      <4>1. PICK j \in Moved : t = Balance[j]
        BY <1>1
      <4>2. PICK k \in Moved : u = Balance[k]
        BY <1>1
      <4>3. t.n = 1 + j /\ u.n = 1 + k /\ j \in Nat /\ k \in Nat
        BY <1>4, <4>1, <4>2
      <4>4. 1 + j = 1 + k
        BY <3>1, <4>3
      <4>5. j = k
        BY <4>3, <4>4
      <4> QED
        BY <4>1, <4>2, <4>5
    <3> QED
      BY <3>1
  <2>5. \A t \in txs' : t.acct \in Ids' /\ t.cp = NoId
    BY <1>1, <1>4, <2>3
  <2>6. postings' \subseteq ledger' /\ ledger' \subseteq Ids'
    BY <1>1, <2>3 DEF IInv, RefInv
  <2> QED
    BY <2>2, <2>4, <2>5, <2>6 DEF RefInv, NoId
<1>9. CachedIsSumUnlessAstray'
  BY <1>1 DEF CachedIsSumUnlessAstray
<1> QED
  BY <1>5, <1>6, <1>7, <1>8, <1>9 DEF IInv

(***************************************************************************)
(* The deposit is worth the balance it replaces.                           *)
(***************************************************************************)
LEMMA Up0002Money ==
  ASSUME IInv, Up0002, NEW k \in Opened
  PROVE  SumOf(k)' = accounts[k].balance /\ SumOf(k) = 0
<1>1. /\ txs = {} /\ NextTx = 1 /\ txs' = {Balance[j] : j \in Moved} /\ Moved \subseteq Opened
  BY Up0002Is
<1>2. SameIds
  BY Up0002Is DEF SameIds, Opened
<1>3. Id(k)' = Id(k)
  BY <1>2, IdsKept
<1>4. \A j \in Moved : Balance[j].acct = Id(j) /\ (Id(j) = Id(k) => j = k)
  BY <1>1, BalanceRow, IdsApart DEF IInv
<1>5. SumOf(k)' = SumIn(txs', Id(k)) /\ SumOf(k) = SumIn(txs, Id(k))
  BY <1>3, SumNextIsSumIn, SumOfIsSumIn
<1>6. SumOf(k) = 0
  BY <1>1, <1>5, SumInNone
<1>7. CASE k \in Moved
  <2>1. {t \in txs' : t.acct = Id(k)} = {Balance[k]}
    BY <1>1, <1>4, <1>7
  <2>2. {Balance[k]} = {} \cup {Balance[k]}
    OBVIOUS
  <2>3. Balance[k].amt = accounts[k].balance /\ accounts[k].balance \in Int
    BY <1>1, BalanceRow DEF IInv, TypeInv, Account
  <2>4. AmtSum({} \cup {Balance[k]}) = AmtSum({}) + Balance[k].amt
    <3>1. IsFiniteSet({}) /\ \A r \in {} : r.amt \in Int
      BY FS_EmptySet
    <3> QED
      BY <3>1, <2>3, AmtSumAdd
  <2>5. AmtSum({Balance[k]}) = accounts[k].balance
    BY <2>2, <2>3, <2>4, AmtSumOfNone
  <2> QED
    BY <1>5, <1>6, <2>1, <2>5 DEF SumIn
<1>8. CASE k \notin Moved
  <2>1. accounts[k].balance = 0
    BY <1>8 DEF Moved, IInv, ColumnInv
  <2>2. \A t \in txs' : t.acct # Id(k)
    BY <1>1, <1>4, <1>8
  <2>3. SumIn(txs', Id(k)) = 0
    BY <2>2, SumInNone
  <2> QED
    BY <1>5, <1>6, <2>1, <2>3
<1> QED
  BY <1>7, <1>8

LEMMA SumOfType == ASSUME IInv, NEW k PROVE SumOf(k) \in Int
<1>1. txs \subseteq Tx /\ IsFiniteSet(txs)
  BY DEF IInv, TypeInv, RefInv
<1>2. SumIn(txs, Id(k)) \in Int
  BY <1>1, SumInType
<1> QED
  BY <1>2, SumOfIsSumIn

LEMMA Down0002Is ==
  ASSUME IInv, Down0002
  PROVE  /\ rev = 2 /\ rev' = 1 /\ cols' = cols \cup {"balance"} /\ txs' = {} /\ Opened' = Opened
         /\ accounts' = [k \in Opened |-> accounts'[k]]
         /\ UNCHANGED <<users, ledger, postings, sessions, seq, astray, restarts>>
         /\ \A k \in Opened :
              /\ accounts'[k] \in Account /\ accounts'[k].balance = SumOf(k)
              /\ accounts'[k].form = accounts[k].form /\ accounts'[k].owner = accounts[k].owner
              /\ accounts'[k].num = accounts[k].num /\ accounts'[k].cached = accounts[k].cached
<1>1. /\ rev = 2 /\ rev' = 1 /\ cols' = cols \cup {"balance"} /\ txs' = {}
      /\ accounts' = [k \in Opened |-> [accounts[k] EXCEPT !.balance = SumOf(k)]]
      /\ UNCHANGED <<users, ledger, postings, sessions, seq, astray, restarts>>
  BY DEF Down0002, Down, To
<1>2. Opened' = Opened /\ accounts' = [k \in Opened |-> accounts'[k]]
  BY <1>1 DEF Opened
<1>3. ASSUME NEW k \in Opened
      PROVE  /\ accounts'[k] \in Account /\ accounts'[k].balance = SumOf(k)
             /\ accounts'[k].form = accounts[k].form /\ accounts'[k].owner = accounts[k].owner
             /\ accounts'[k].num = accounts[k].num /\ accounts'[k].cached = accounts[k].cached
  <2>1. accounts[k] \in Account /\ SumOf(k) \in Int
    BY SumOfType DEF IInv, TypeInv
  <2>2. accounts'[k] = [accounts[k] EXCEPT !.balance = SumOf(k)]
    BY <1>1
  <2> QED
    BY <2>1, <2>2 DEF Account
<1> QED
  BY <1>1, <1>2, <1>3

LEMMA Down0002Step == ASSUME IInv, Down0002 PROVE IInv'
<1>1. /\ rev = 2 /\ rev' = 1 /\ cols' = cols \cup {"balance"} /\ txs' = {} /\ Opened' = Opened
      /\ accounts' = [k \in Opened |-> accounts'[k]]
      /\ UNCHANGED <<users, ledger, postings, sessions, seq, astray, restarts>>
  BY Down0002Is
<1>2. \A k \in Opened :
        /\ accounts'[k] \in Account
        /\ accounts'[k].form = accounts[k].form /\ accounts'[k].owner = accounts[k].owner
        /\ accounts'[k].num = accounts[k].num /\ accounts'[k].cached = accounts[k].cached
  BY Down0002Is
<1>3. SameIds /\ SameOwners /\ SameNumbers
  BY <1>1, <1>2 DEF SameIds, SameOwners, SameNumbers, Opened
<1>4. TypeInv'
  <2>1. accounts' \in [Opened' -> Account] /\ Opened' \subseteq Keys
    BY <1>1, <1>2 DEF IInv, TypeInv
  <2> QED
    BY <1>1, <2>1 DEF IInv, TypeInv
<1>5. ColumnInv'
  BY <1>1, <1>2 DEF IInv, ColumnInv
<1>6. OwnerInv' /\ NumberInv' /\ SessionInv'
  BY <1>1, <1>3, OwnersKept, NumbersKept, SessionsKept DEF IInv
<1>7. RefInv'
  <2>1. Ids' = Ids
    BY <1>3, IdsKept
  <2> QED
    BY <1>1, <2>1, FS_EmptySet DEF IInv, RefInv
<1>8. CachedIsSumUnlessAstray'
  BY <1>1 DEF CachedIsSumUnlessAstray
<1> QED
  BY <1>4, <1>5, <1>6, <1>7, <1>8 DEF IInv

LEMMA Up0004Step == ASSUME IInv, Up0004 PROVE IInv'
<1>1. /\ rev = 3 /\ rev' = 4 /\ seq' = High /\ astray' = {k \in Opened : SumOf(k) # 0}
      /\ UNCHANGED <<cols, accounts, users, txs, ledger, postings, sessions, restarts>>
  BY DEF Up0004, Up, To
<1>2. SameIds /\ SameOwners /\ Opened' = Opened /\ High \in Nat
  BY <1>1, MigrationConstants DEF SameIds, SameOwners, Opened
<1>3. \A k \in Opened : accounts[k].num = 0 /\ accounts[k].cached = 0
  BY <1>1 DEF IInv, ColumnInv
<1>4. TypeInv'
  BY <1>1, <1>2 DEF IInv, TypeInv
<1>5. ColumnInv'
  BY <1>1, <1>2 DEF IInv, ColumnInv
<1>6. OwnerInv' /\ SessionInv' /\ RefInv'
  BY <1>1, <1>2, OwnersKept, SessionsKept, RefsKept DEF IInv
<1>7. NumberInv'
  BY <1>1, <1>2, <1>3 DEF NumberInv
<1>8. CachedIsSumUnlessAstray'
  <2>1. \A k \in Opened : SumOf(k)' = SumOf(k)
    BY <1>1, <1>2, IdsKept, SumOfIsSumIn, SumNextIsSumIn
  <2> QED
    BY <1>1, <1>2, <1>3, <2>1 DEF CachedIsSumUnlessAstray
<1> QED
  BY <1>4, <1>5, <1>6, <1>7, <1>8 DEF IInv

LEMMA Down0004Is ==
  ASSUME IInv, Down0004
  PROVE  /\ rev = 4 /\ rev' = 3 /\ ledger' = {} /\ postings' = {} /\ seq' = 0
         /\ UNCHANGED <<cols, users, txs, sessions, astray, restarts>>
         /\ Opened' = Opened /\ accounts' = [k \in Opened |-> accounts'[k]]
         /\ \A k \in Opened :
              /\ accounts'[k] \in Account /\ accounts'[k].num = 0 /\ accounts'[k].cached = 0
              /\ accounts'[k].form = accounts[k].form /\ accounts'[k].owner = accounts[k].owner
              /\ accounts'[k].balance = accounts[k].balance
<1>1. /\ rev = 4 /\ rev' = 3 /\ ledger' = {} /\ postings' = {} /\ seq' = 0
      /\ UNCHANGED <<cols, users, txs, sessions, astray, restarts>>
  BY DEF Down0004, Down, To
<1>5. accounts' = [k \in Opened |-> [accounts[k] EXCEPT !.num = 0, !.cached = 0]]
  BY DEF Down0004, SetAccounts
<1>2. ASSUME NEW k \in Opened
      PROVE  /\ accounts'[k] \in Account /\ accounts'[k].num = 0 /\ accounts'[k].cached = 0
             /\ accounts'[k].form = accounts[k].form /\ accounts'[k].owner = accounts[k].owner
             /\ accounts'[k].balance = accounts[k].balance
  <2>1. accounts[k] \in Account
    BY DEF IInv, TypeInv
  <2>2. accounts'[k] = [accounts[k] EXCEPT !.num = 0, !.cached = 0]
    BY <1>5
  <2>3. accounts'[k] = [[accounts[k] EXCEPT !.num = 0] EXCEPT !.cached = 0]
    BY <2>1, <2>2 DEF Account
  <2> DEFINE r == [accounts[k] EXCEPT !.num = 0]
  <2>4. r \in Account /\ r.num = 0 /\ r.form = accounts[k].form /\ r.owner = accounts[k].owner
        /\ r.balance = accounts[k].balance
    BY <2>1 DEF Account
  <2>5. accounts'[k] = [r EXCEPT !.cached = 0]
    BY <2>3
  <2> HIDE DEF r
  <2> QED
    BY <2>4, <2>5 DEF Account
<1>3. Opened' = Opened /\ accounts' = [k \in Opened |-> accounts'[k]]
  BY <1>5 DEF Opened
<1> QED
  BY <1>1, <1>2, <1>3

LEMMA Down0004Step == ASSUME IInv, Down0004 PROVE IInv'
<1>1. /\ rev = 4 /\ rev' = 3 /\ ledger' = {} /\ postings' = {} /\ seq' = 0
      /\ UNCHANGED <<cols, users, txs, sessions, astray, restarts>>
  BY Down0004Is
<1>2. \A k \in Opened :
        /\ accounts'[k] \in Account /\ accounts'[k].num = 0 /\ accounts'[k].cached = 0
        /\ accounts'[k].form = accounts[k].form /\ accounts'[k].owner = accounts[k].owner
        /\ accounts'[k].balance = accounts[k].balance
  BY Down0004Is
<1>3. Opened' = Opened /\ accounts' = [k \in Opened |-> accounts'[k]]
  BY Down0004Is
<1>4. SameIds /\ SameOwners
  BY <1>2, <1>3 DEF SameIds, SameOwners, Opened
<1>5. TypeInv'
  <2>1. accounts' \in [Opened' -> Account] /\ Opened' \subseteq Keys
    BY <1>2, <1>3 DEF IInv, TypeInv
  <2> QED
    BY <1>1, <2>1 DEF IInv, TypeInv
<1>6. ColumnInv'
  BY <1>1, <1>2, <1>3 DEF IInv, ColumnInv
<1>7. OwnerInv' /\ SessionInv'
  BY <1>1, <1>4, OwnersKept, SessionsKept DEF IInv
<1>8. NumberInv'
  BY <1>1, <1>2, <1>3 DEF NumberInv
<1>9. RefInv'
  <2>1. Ids' = Ids
    BY <1>4, IdsKept
  <2> QED
    BY <1>1, <2>1 DEF IInv, RefInv, NoId
<1>10. CachedIsSumUnlessAstray'
  BY <1>1 DEF CachedIsSumUnlessAstray
<1> QED
  BY <1>5, <1>6, <1>7, <1>8, <1>9, <1>10 DEF IInv

(***************************************************************************)
(* 0005: ids are renamed one to one, so that every row stays with its      *)
(* account.                                                                *)
(***************************************************************************)
LEMMA Up0005Is ==
  ASSUME IInv, Up0005
  PROVE  /\ rev = 4 /\ rev' = 5 /\ Opened' = Opened
         /\ txs' = {RemapTx(t) : t \in txs} /\ ledger' = {NewId(i) : i \in ledger}
         /\ \A i \in postings : NewId(i) = i
         /\ accounts' = [k \in Opened |-> accounts'[k]]
         /\ UNCHANGED <<cols, users, postings, sessions, seq, astray, restarts>>
         /\ \A k \in Opened :
              /\ Id(k)' = NewId(Id(k)) /\ accounts'[k] \in Account
              /\ accounts'[k].owner = accounts[k].owner /\ accounts'[k].num = accounts[k].num
              /\ accounts'[k].balance = accounts[k].balance /\ accounts'[k].cached = accounts[k].cached
              /\ accounts'[k].status = accounts[k].status
<1>1. /\ rev = 4 /\ rev' = 5
      /\ txs' = {RemapTx(t) : t \in txs} /\ ledger' = {NewId(i) : i \in ledger}
      /\ \A i \in postings : NewId(i) = i
      /\ UNCHANGED <<cols, users, postings, sessions, seq, astray, restarts>>
  BY DEF Up0005, Up, To
<1>2. accounts' = [k \in Opened |->
        [accounts[k] EXCEPT !.form = IF accounts[k].form = "chk" THEN "uuid" ELSE accounts[k].form]]
  BY DEF Up0005, SetAccounts
<1>3. Opened' = Opened /\ accounts' = [k \in Opened |-> accounts'[k]]
  BY <1>2 DEF Opened
<1>4. ASSUME NEW k \in Opened
      PROVE  /\ Id(k)' = NewId(Id(k)) /\ accounts'[k] \in Account
             /\ accounts'[k].owner = accounts[k].owner /\ accounts'[k].num = accounts[k].num
             /\ accounts'[k].balance = accounts[k].balance /\ accounts'[k].cached = accounts[k].cached
             /\ accounts'[k].status = accounts[k].status
  <2> DEFINE fm == IF accounts[k].form = "chk" THEN "uuid" ELSE accounts[k].form
  <2>1. accounts[k] \in Account
    BY DEF IInv, TypeInv
  <2>2. fm \in Forms /\ NewId(Id(k)) = <<fm, k>>
    BY <2>1 DEF Account, Forms, NewId, Id
  <2>3. accounts'[k] = [accounts[k] EXCEPT !.form = fm]
    BY <1>2
  <2> HIDE DEF fm
  <2>4. /\ accounts'[k] \in Account /\ accounts'[k].form = fm
        /\ accounts'[k].owner = accounts[k].owner /\ accounts'[k].num = accounts[k].num
        /\ accounts'[k].balance = accounts[k].balance /\ accounts'[k].cached = accounts[k].cached
        /\ accounts'[k].status = accounts[k].status
    BY <2>1, <2>2, <2>3 DEF Account
  <2> QED
    BY <2>2, <2>4 DEF Id
<1> QED
  BY <1>1, <1>3, <1>4

LEMMA NewIdOneToOne ==
  ASSUME TypeInv, NEW i \in Ids, NEW j \in Ids, NewId(i) = NewId(j)
  PROVE  i = j
<1>1. PICK a \in Opened : i = <<accounts[a].form, a>>
  BY DEF Ids, Id
<1>2. PICK b \in Opened : j = <<accounts[b].form, b>>
  BY DEF Ids, Id
<1>3. NewId(i)[2] = a /\ NewId(j)[2] = b
  BY <1>1, <1>2 DEF NewId
<1> QED
  BY <1>1, <1>2, <1>3

LEMMA RemapTxIs ==
  ASSUME TypeInv, NEW t \in txs
  PROVE  /\ RemapTx(t) \in Tx /\ RemapTx(t).n = t.n /\ RemapTx(t).amt = t.amt
         /\ RemapTx(t).acct = NewId(t.acct) /\ RemapTx(t).cp = NewId(t.cp)
<1>1. t \in Tx /\ t.acct \in AnyId /\ t.cp \in AnyId
  BY DEF TypeInv, Tx
<1>2. \A i \in AnyId : NewId(i) \in AnyId
  BY DEF AnyId, NewId, Forms
<1>3. RemapTx(t) = [[t EXCEPT !.acct = NewId(t.acct)] EXCEPT !.cp = NewId(t.cp)]
  BY <1>1 DEF RemapTx, Tx
<1> DEFINE r == [t EXCEPT !.acct = NewId(t.acct)]
<1>4. r \in Tx /\ r.n = t.n /\ r.amt = t.amt /\ r.acct = NewId(t.acct)
  BY <1>1, <1>2 DEF Tx
<1>5. RemapTx(t) = [r EXCEPT !.cp = NewId(t.cp)]
  BY <1>3
<1> HIDE DEF r
<1> QED
  BY <1>1, <1>2, <1>4, <1>5 DEF Tx

LEMMA Up0005Money ==
  ASSUME IInv, Up0005, NEW k \in Opened
  PROVE  SumOf(k)' = SumOf(k)
<1>1. txs' = {RemapTx(t) : t \in txs} /\ Id(k)' = NewId(Id(k))
  BY Up0005Is
<1>2. TypeInv /\ IsFiniteSet(txs) /\ txs \subseteq Tx /\ (\A t, u \in txs : t.n = u.n => t = u)
      /\ \A t \in txs : t.acct \in Ids
  BY DEF IInv, TypeInv, RefInv
<1>3. Id(k) \in Ids
  BY DEF Ids
<1> DEFINE R == {t \in txs : t.acct = Id(k)}
           f == [t \in R |-> RemapTx(t)]
           Q == {t \in txs' : t.acct = NewId(Id(k))}
<1>4. \A t \in txs : /\ RemapTx(t).n = t.n /\ RemapTx(t).amt = t.amt
                     /\ RemapTx(t).acct = NewId(t.acct)
  BY <1>2, RemapTxIs
<1>5. \A t \in txs : RemapTx(t).acct = NewId(Id(k)) <=> t.acct = Id(k)
  BY <1>2, <1>3, <1>4, NewIdOneToOne
<1>6. Q = {f[t] : t \in R}
  BY <1>1, <1>5
<1>7. IsFiniteSet(R) /\ \A t \in R : t.amt \in Int
  BY <1>2, FS_Subset DEF Tx
<1>8. \A t \in R : f[t].amt = t.amt
  BY <1>4
<1>9. \A t, u \in R : f[t] = f[u] => t = u
  BY <1>2, <1>4
<1>10. SumOf(k) = AmtSum(R) /\ SumOf(k)' = AmtSum(Q)
  BY <1>1, SumOfIsSumIn, SumNextIsSumIn DEF SumIn
<1> HIDE DEF R, f, Q
<1>11. AmtSum({f[t] : t \in R}) = AmtSum(R)
  BY <1>7, <1>8, <1>9, AmtSumRenamed
<1> QED
  BY <1>6, <1>10, <1>11

LEMMA Up0005Step == ASSUME IInv, Up0005 PROVE IInv'
<1>1. /\ rev = 4 /\ rev' = 5 /\ Opened' = Opened
      /\ txs' = {RemapTx(t) : t \in txs} /\ ledger' = {NewId(i) : i \in ledger}
      /\ \A i \in postings : NewId(i) = i
      /\ accounts' = [k \in Opened |-> accounts'[k]]
      /\ UNCHANGED <<cols, users, postings, sessions, seq, astray, restarts>>
  BY Up0005Is
<1>2. \A k \in Opened :
        /\ Id(k)' = NewId(Id(k)) /\ accounts'[k] \in Account
        /\ accounts'[k].owner = accounts[k].owner /\ accounts'[k].num = accounts[k].num
        /\ accounts'[k].balance = accounts[k].balance /\ accounts'[k].cached = accounts[k].cached
  BY Up0005Is
<1>3. SameOwners /\ SameNumbers
  BY <1>1, <1>2 DEF SameOwners, SameNumbers, Opened
<1>4. \A t \in txs : /\ RemapTx(t) \in Tx /\ RemapTx(t).n = t.n
                     /\ RemapTx(t).acct = NewId(t.acct) /\ RemapTx(t).cp = NewId(t.cp)
  BY RemapTxIs DEF IInv
<1>5. TypeInv'
  <2>1. accounts' \in [Opened' -> Account] /\ Opened' \subseteq Keys
    BY <1>1, <1>2 DEF IInv, TypeInv
  <2>2. txs' \subseteq Tx
    BY <1>1, <1>4
  <2> QED
    BY <1>1, <2>1, <2>2 DEF IInv, TypeInv
<1>6. ColumnInv'
  BY <1>1, <1>2 DEF IInv, ColumnInv
<1>7. OwnerInv' /\ NumberInv'
  BY <1>1, <1>3, OwnersKept, NumbersKept DEF IInv
<1>8. SessionInv'
  BY <1>1 DEF IInv, SessionInv, NoId
<1>9. RefInv'
  <2>1. IsFiniteSet(txs')
    <3> DEFINE f == [t \in txs |-> RemapTx(t)]
    <3>1. txs' = {f[t] : t \in txs} /\ IsFiniteSet(txs)
      BY <1>1 DEF IInv, RefInv
    <3> HIDE DEF f
    <3> QED
      BY <3>1, FiniteImage
  <2>2. \A t, u \in txs' : t.n = u.n => t = u
    BY <1>1, <1>4 DEF IInv, RefInv
  <2>3. Ids' = {NewId(i) : i \in Ids}
    BY <1>1, <1>2 DEF Ids
  <2>4. NewId(NoId) = NoId
    BY DEF NewId, NoId
  <2>5. \A t \in txs' : t.acct \in Ids' /\ t.cp \in Ids' \cup {NoId}
    BY <1>1, <1>4, <2>3, <2>4 DEF IInv, RefInv
  <2>6. postings' \subseteq ledger' /\ ledger' \subseteq Ids'
    BY <1>1, <2>3 DEF IInv, RefInv
  <2> QED
    BY <2>1, <2>2, <2>5, <2>6 DEF RefInv, NoId
<1>10. CachedIsSumUnlessAstray'
  BY <1>1, <1>2, Up0005Money DEF IInv, CachedIsSumUnlessAstray
<1> QED
  BY <1>5, <1>6, <1>7, <1>8, <1>9, <1>10 DEF IInv

-----------------------------------------------------------------------------
(***************************************************************************)
(* The application's transactions.                                         *)
(***************************************************************************)
TxsHold(S) ==
  /\ IsFiniteSet(S) /\ S \subseteq Tx
  /\ \A t, u \in S : t.n = u.n => t = u
  /\ \A t \in S : t.acct \in Ids /\ t.cp \in Ids \cup {NoId}

LEMMA AddRow ==
  ASSUME NEW S, TxsHold(S), NEW x \in Tx, x.acct \in Ids, x.cp \in Ids \cup {NoId},
         \A t \in S : t.n # x.n
  PROVE  /\ TxsHold(S \cup {x})
         /\ \A i : SumIn(S \cup {x}, i) = SumIn(S, i) + IF x.acct = i THEN x.amt ELSE 0
<1>1. IsFiniteSet(S) /\ S \subseteq Tx /\ x \notin S
  BY DEF TxsHold
<1>2. IsFiniteSet(S \cup {x})
  BY <1>1, FS_AddElement
<1>3. TxsHold(S \cup {x})
  BY <1>1, <1>2 DEF TxsHold
<1> QED
  BY <1>1, <1>3, SumInAdd

LEMMA RowTyped ==
  ASSUME NEW n \in Nat, NEW i \in AnyId, NEW c \in AnyId, NEW amt \in Int, NEW type \in TxTypes
  PROVE  /\ Row(n, i, c, amt, type) \in Tx /\ Row(n, i, c, amt, type).n = n
         /\ Row(n, i, c, amt, type).acct = i /\ Row(n, i, c, amt, type).cp = c
         /\ Row(n, i, c, amt, type).amt = amt
BY DEF Row, Tx

(***************************************************************************)
(* What an account gains in balance_cached and in its transactions.        *)
(***************************************************************************)
Plus(j, k, amt) == IF j = k THEN amt ELSE 0

LEMMA OneRow ==
  ASSUME TypeInv, RefInv, NEW k \in Opened, NEW amt \in Int, NEW type \in TxTypes
  PROVE  LET S == txs \cup {Row(NextTx, Id(k), NoId, amt, type)} IN
         /\ TxsHold(S) /\ \A j \in Opened : SumIn(S, Id(j)) = SumIn(txs, Id(j)) + Plus(j, k, amt)
<1> DEFINE x == Row(NextTx, Id(k), NoId, amt, type)
<1>1. TxsHold(txs)
  BY DEF TxsHold, TypeInv, RefInv
<1>2. NextTx \in Nat /\ \A t \in txs : t.n \in Nat /\ t.n < NextTx
  BY NextTxFresh DEF TypeInv, Tx
<1>3. Id(k) \in AnyId /\ NoId \in AnyId /\ Id(k) \in Ids
  BY IdTyped, NoIdTyped DEF Ids
<1>4. x \in Tx /\ x.n = NextTx /\ x.acct = Id(k) /\ x.cp = NoId /\ x.amt = amt
  BY <1>2, <1>3, RowTyped
<1> HIDE DEF x
<1>5. \A t \in txs : t.n # x.n
  BY <1>2, <1>4
<1>6. /\ TxsHold(txs \cup {x})
      /\ \A i : SumIn(txs \cup {x}, i) = SumIn(txs, i) + IF x.acct = i THEN x.amt ELSE 0
  BY <1>1, <1>3, <1>4, <1>5, AddRow
<1>7. \A j \in Opened : (IF x.acct = Id(j) THEN x.amt ELSE 0) = Plus(j, k, amt)
  BY <1>4, IdsApart DEF Plus
<1> QED
  BY <1>6, <1>7 DEF x

LEMMA TwoRows ==
  ASSUME TypeInv, RefInv, NEW j \in Opened, NEW k \in Opened, j # k, NEW amt \in Int
  PROVE  LET S == txs \cup {Row(NextTx, Id(j), Id(k), 0 - amt, "transfer_out"),
                            Row(NextTx + 1, Id(k), Id(j), amt, "transfer_in")} IN
         /\ TxsHold(S)
         /\ \A i \in Opened : SumIn(S, Id(i)) = SumIn(txs, Id(i)) + (Plus(i, j, 0 - amt) + Plus(i, k, amt))
<1> DEFINE x == Row(NextTx, Id(j), Id(k), 0 - amt, "transfer_out")
           y == Row(NextTx + 1, Id(k), Id(j), amt, "transfer_in")
           T == txs \cup {x}
<1>1. TxsHold(txs)
  BY DEF TxsHold, TypeInv, RefInv
<1>2. NextTx \in Nat /\ \A t \in txs : t.n \in Nat /\ t.n < NextTx
  BY NextTxFresh DEF TypeInv, Tx
<1>3. Id(j) \in AnyId /\ Id(j) \in Ids /\ Id(k) \in AnyId /\ Id(k) \in Ids
  BY IdTyped DEF Ids
<1>4. x \in Tx /\ x.n = NextTx /\ x.acct = Id(j) /\ x.cp = Id(k) /\ x.amt = 0 - amt
  <2>1. "transfer_out" \in TxTypes /\ 0 - amt \in Int
    BY DEF TxTypes
  <2> QED
    BY <1>2, <1>3, <2>1, RowTyped
<1>5. y \in Tx /\ y.n = NextTx + 1 /\ y.acct = Id(k) /\ y.cp = Id(j) /\ y.amt = amt
  <2>1. "transfer_in" \in TxTypes /\ NextTx + 1 \in Nat
    BY <1>2 DEF TxTypes
  <2> QED
    BY <1>3, <2>1, RowTyped
<1> HIDE DEF x, y
<1>6. /\ TxsHold(T) /\ \A i : SumIn(T, i) = SumIn(txs, i) + IF x.acct = i THEN x.amt ELSE 0
  <2>1. \A t \in txs : t.n # x.n
    BY <1>2, <1>4
  <2> QED
    BY <1>1, <1>3, <1>4, <2>1, AddRow
<1>7. \A t \in T : t.n # y.n
  BY <1>2, <1>4, <1>5
<1>8. txs \cup {x, y} = T \cup {y}
  OBVIOUS
<1> HIDE DEF T
<1>9. /\ TxsHold(T \cup {y})
      /\ \A i : SumIn(T \cup {y}, i) = SumIn(T, i) + IF y.acct = i THEN y.amt ELSE 0
  BY <1>3, <1>5, <1>6, <1>7, AddRow
<1>10. ASSUME NEW i \in Opened
       PROVE  SumIn(T \cup {y}, Id(i)) = SumIn(txs, Id(i)) + (Plus(i, j, 0 - amt) + Plus(i, k, amt))
  <2>1. (IF x.acct = Id(i) THEN x.amt ELSE 0) = Plus(i, j, 0 - amt)
    BY <1>4, IdsApart DEF Plus
  <2>2. (IF y.acct = Id(i) THEN y.amt ELSE 0) = Plus(i, k, amt)
    BY <1>5, IdsApart DEF Plus
  <2>3. SumIn(T \cup {y}, Id(i)) = (SumIn(txs, Id(i)) + Plus(i, j, 0 - amt)) + Plus(i, k, amt)
    BY <1>6, <1>9, <2>1, <2>2
  <2>4. SumIn(txs, Id(i)) \in Int
    BY SumInType DEF TypeInv, RefInv
  <2>5. Plus(i, j, 0 - amt) \in Int /\ Plus(i, k, amt) \in Int
    BY DEF Plus
  <2> QED
    BY <2>3, <2>4, <2>5
<1> QED
  BY <1>8, <1>9, <1>10 DEF x, y

(***************************************************************************)
(* A step that books rows and credits balance_cached with them.            *)
(***************************************************************************)
LEMMA MoneyStep ==
  ASSUME IInv, rev >= 2, UNCHANGED <<rev, cols, users, restarts>>, astray \subseteq astray',
         DOMAIN accounts' = Opened, accounts' = [k \in Opened |-> accounts'[k]],
         \A k \in Opened :
           /\ accounts'[k] \in Account
           /\ accounts'[k].form = accounts[k].form /\ accounts'[k].owner = accounts[k].owner
           /\ accounts'[k].balance = accounts[k].balance
           /\ rev < 4 => accounts'[k].num = 0 /\ accounts'[k].cached = 0,
         TxsHold(txs'), postings' \subseteq ledger', ledger' \subseteq Ids,
         NEW plus, \A k \in Opened : plus[k] \in Int /\ SumIn(txs', Id(k)) = SumIn(txs, Id(k)) + plus[k],
         rev >= 4 => \A k \in Opened \ astray' : accounts'[k].cached = accounts[k].cached + plus[k],
         seq' \in Nat, rev < 4 => seq' = 0 /\ ledger' = {}, NumberInv', SessionInv'
  PROVE  IInv'
<1>1. SameIds /\ SameOwners
  BY DEF SameIds, SameOwners
<1>2. Opened' = Opened /\ Ids' = Ids /\ \A k \in Opened : Id(k)' = Id(k)
  BY <1>1, IdsKept
<1>3. TypeInv'
  <2>1. accounts' \in [Opened' -> Account] /\ Opened' \subseteq Keys
    BY <1>2 DEF IInv, TypeInv
  <2>2. txs' \subseteq Tx
    BY DEF TxsHold
  <2> QED
    BY <2>1, <2>2 DEF IInv, TypeInv
<1>4. ColumnInv'
  <2>1. rev \in 2..11
    BY DEF IInv, TypeInv
  <2> QED
    BY <1>2, <2>1 DEF IInv, ColumnInv
<1>5. OwnerInv'
  BY <1>1, OwnersKept DEF IInv
<1>6. RefInv'
  BY <1>2 DEF RefInv, TxsHold, NoId
<1>7. CachedIsSumUnlessAstray'
  <2>1. \A k \in Opened : SumOf(k)' = SumOf(k) + plus[k]
    BY <1>2, SumOfIsSumIn, SumNextIsSumIn
  <2>2. rev >= 4 => \A k \in Opened \ astray : accounts[k].cached = SumOf(k)
    BY DEF IInv, CachedIsSumUnlessAstray
  <2> QED
    BY <1>2, <2>1, <2>2 DEF CachedIsSumUnlessAstray
<1> QED
  BY <1>3, <1>4, <1>5, <1>6, <1>7 DEF IInv

(***************************************************************************)
(* The values a session may hold are integers.                             *)
(***************************************************************************)
LEMMA LoadedType == ASSUME IInv, NEW k \in Opened PROVE Loaded(k) \subseteq Int
<1>1. accounts[k].cached \in Int /\ IsFiniteSet(txs) /\ txs \subseteq Tx
  BY DEF IInv, TypeInv, RefInv, Account
<1>2. ASSUME NEW T \in SUBSET RowsOf(k) PROVE AmtSum(T) \in Int
  <2>1. T \subseteq txs /\ IsFiniteSet(T)
    BY <1>1, FS_Subset DEF RowsOf
  <2>2. \A t \in T : t.amt \in Int
    BY <1>1, <2>1 DEF Tx
  <2> QED
    BY <2>1, <2>2, AmtSumType
<1>3. Loaded(k) = {accounts[k].cached} \cup {AmtSum(T) : T \in SUBSET RowsOf(k)}
  BY DEF Loaded, AmtSum
<1> QED
  BY <1>1, <1>2, <1>3

LEMMA CachedIs ==
  ASSUME NEW a \in Account, NEW base \in Int, NEW amt \in Int, rev \in Nat
  PROVE  /\ Cached(a, base, amt) \in Account
         /\ Cached(a, base, amt).form = a.form /\ Cached(a, base, amt).owner = a.owner
         /\ Cached(a, base, amt).num = a.num /\ Cached(a, base, amt).balance = a.balance
         /\ Cached(a, base, amt).status = a.status
         /\ rev >= 4 => Cached(a, base, amt).cached = base + amt
         /\ rev < 4 => Cached(a, base, amt) = a
<1>1. CASE rev >= 4
  <2> DEFINE c == base + amt
  <2>1. Cached(a, base, amt) = [a EXCEPT !.cached = c] /\ c \in Int
    BY <1>1 DEF Cached
  <2> HIDE DEF c
  <2>2. /\ Cached(a, base, amt) \in Account /\ Cached(a, base, amt).cached = c
        /\ Cached(a, base, amt).form = a.form /\ Cached(a, base, amt).owner = a.owner
        /\ Cached(a, base, amt).num = a.num /\ Cached(a, base, amt).balance = a.balance
        /\ Cached(a, base, amt).status = a.status
    BY <2>1 DEF Account
  <2> QED
    BY <1>1, <2>2 DEF c
<1>2. CASE ~(rev >= 4)
  BY <1>2 DEF Cached
<1> QED
  BY <1>1, <1>2

(***************************************************************************)
(* An account that is written from a value other than the row's is astray. *)
(***************************************************************************)
LEMMA CreditedStep ==
  ASSUME IInv, rev >= 2, UNCHANGED <<rev, cols, users, sessions, seq, restarts>>,
         astray \subseteq astray', accounts' = [k \in Opened |-> accounts'[k]],
         NEW plus, \A k \in Opened : plus[k] \in Int /\ SumIn(txs', Id(k)) = SumIn(txs, Id(k)) + plus[k],
         NEW base, \A k \in Opened : base[k] \in Int,
         \A k \in Opened :
           \/ /\ accounts'[k] = Cached(accounts[k], base[k], plus[k])
              /\ Stale(k, base[k]) \subseteq astray'
           \/ accounts'[k] = accounts[k] /\ plus[k] = 0,
         TxsHold(txs'), postings' \subseteq ledger', ledger' \subseteq Ids, rev < 4 => ledger' = {}
  PROVE  IInv'
<1>1. DOMAIN accounts' = Opened
  OBVIOUS
<1>2. ASSUME NEW k \in Opened
      PROVE  /\ accounts'[k] \in Account
             /\ accounts'[k].form = accounts[k].form /\ accounts'[k].owner = accounts[k].owner
             /\ accounts'[k].balance = accounts[k].balance /\ accounts'[k].num = accounts[k].num
             /\ rev < 4 => accounts'[k].num = 0 /\ accounts'[k].cached = 0
             /\ rev >= 4 /\ k \notin astray' => accounts'[k].cached = accounts[k].cached + plus[k]
  <2>1. /\ accounts[k] \in Account /\ plus[k] \in Int /\ base[k] \in Int /\ rev \in Nat
        /\ accounts[k].cached \in Int
    BY DEF IInv, TypeInv, Account
  <2>2. rev < 4 => accounts[k].num = 0 /\ accounts[k].cached = 0
    BY DEF IInv, ColumnInv
  <2>3. CASE /\ accounts'[k] = Cached(accounts[k], base[k], plus[k])
             /\ Stale(k, base[k]) \subseteq astray'
    <3>1. rev >= 4 /\ k \notin astray' => base[k] = accounts[k].cached
      BY <2>3 DEF Stale
    <3>2. PICK a : a = accounts[k]
      OBVIOUS
    <3>3. PICK b : b = base[k]
      OBVIOUS
    <3>4. PICK p : p = plus[k]
      OBVIOUS
    <3>5. PICK c : c = Cached(a, b, p)
      OBVIOUS
    <3>6. /\ c \in Account /\ c.form = a.form /\ c.owner = a.owner /\ c.num = a.num
          /\ c.balance = a.balance /\ (rev >= 4 => c.cached = b + p) /\ (rev < 4 => c = a)
      <4>1. a \in Account /\ b \in Int /\ p \in Int /\ rev \in Nat
        BY <2>1, <3>2, <3>3, <3>4
      <4> QED
        BY <3>5, <4>1, CachedIs
    <3>7. accounts'[k] = c
      BY <2>3, <3>2, <3>3, <3>4, <3>5
    <3> QED
      BY <2>1, <2>2, <3>1, <3>2, <3>3, <3>4, <3>6, <3>7
  <2>4. CASE accounts'[k] = accounts[k] /\ plus[k] = 0
    BY <2>1, <2>2, <2>4
  <2> QED
    BY <2>3, <2>4
<1>3. SameIds /\ SameOwners /\ SameNumbers
  BY <1>1, <1>2 DEF SameIds, SameOwners, SameNumbers
<1>4. NumberInv' /\ SessionInv'
  BY <1>3, NumbersKept, SessionsKept DEF IInv, TypeInv
<1>5. seq' \in Nat /\ (rev < 4 => seq' = 0 /\ ledger' = {})
  BY DEF IInv, TypeInv, ColumnInv
<1>6. rev >= 4 => \A k \in Opened \ astray' : accounts'[k].cached = accounts[k].cached + plus[k]
  BY <1>2
<1>7. \A k \in Opened :
        /\ accounts'[k] \in Account
        /\ accounts'[k].form = accounts[k].form /\ accounts'[k].owner = accounts[k].owner
        /\ accounts'[k].balance = accounts[k].balance
        /\ rev < 4 => accounts'[k].num = 0 /\ accounts'[k].cached = 0
  BY <1>2
<1> QED
  BY <1>1, <1>4, <1>5, <1>6, <1>7, MoneyStep

LEMMA DepositStep == ASSUME IInv, Deposit PROVE IInv'
<1>1. PICK k \in Opened, amt \in Amounts :
        /\ rev >= 2 /\ txs' = txs \cup {Row(NextTx, Id(k), NoId, amt, "deposit")}
        /\ accounts' = [accounts EXCEPT ![k] = Cached(accounts[k], accounts[k].cached, amt)]
        /\ UNCHANGED <<schema, users, ledger, postings, sessions, seq>>
  BY DEF Deposit
<1>2. UNCHANGED <<rev, cols, users, ledger, postings, sessions, seq, astray, restarts>>
  BY <1>1 DEF schema, history
<1>3. amt \in Int /\ "deposit" \in TxTypes /\ TypeInv /\ RefInv
  BY MigrationConstants DEF TxTypes, IInv
<1>4. TxsHold(txs') /\ \A j \in Opened : SumIn(txs', Id(j)) = SumIn(txs, Id(j)) + Plus(j, k, amt)
  BY <1>1, <1>3, OneRow
<1> DEFINE plus == [j \in Opened |-> Plus(j, k, amt)]
           base == [j \in Opened |-> accounts[j].cached]
<1>5. \A j \in Opened : plus[j] \in Int /\ SumIn(txs', Id(j)) = SumIn(txs, Id(j)) + plus[j]
  BY <1>3, <1>4 DEF Plus
<1>6. accounts' = [j \in Opened |-> accounts'[j]]
  BY <1>1, <1>3 DEF TypeInv
<1>7. \A j \in Opened : \/ /\ accounts'[j] = Cached(accounts[j], base[j], plus[j])
                           /\ Stale(j, base[j]) \subseteq astray'
                        \/ accounts'[j] = accounts[j] /\ plus[j] = 0
  BY <1>1, <1>3 DEF TypeInv, Plus, Stale
<1>8. postings' \subseteq ledger' /\ ledger' \subseteq Ids /\ (rev < 4 => ledger' = {})
  BY <1>2, <1>3 DEF RefInv, IInv, ColumnInv
<1>9. \A j \in Opened : base[j] \in Int
  BY <1>3 DEF TypeInv, Account
<1> HIDE DEF plus, base
<1> QED
  BY <1>1, <1>2, <1>4, <1>5, <1>6, <1>7, <1>8, <1>9, CreditedStep

LEMMA TransferStep == ASSUME IInv, Transfer PROVE IInv'
<1>0. PICK j \in Opened, k \in Opened, amt \in Amounts :
        \E b \in Loaded(j), c \in Loaded(k) :
          /\ j # k /\ amt > 0
          /\ rev >= 2 /\ Cardinality(txs) + 1 < MaxTxs
          /\ txs' = txs \cup {Row(NextTx, Id(j), Id(k), 0 - amt, "transfer_out"),
                              Row(NextTx + 1, Id(k), Id(j), amt, "transfer_in")}
          /\ accounts' = [accounts EXCEPT ![j] = Cached(@, b, 0 - amt), ![k] = Cached(@, c, amt)]
          /\ astray' = astray \cup Stale(j, b) \cup Stale(k, c)
          /\ ledger' = ledger \cup Booked({Id(j), Id(k)})
          /\ postings' = postings \cup Booked({Id(j), Id(k)})
          /\ UNCHANGED <<rev, cols, downs, restarts, users, sessions, seq>>
  BY DEF Transfer
<1>1. PICK b \in Loaded(j), c \in Loaded(k) :
        /\ j # k /\ rev >= 2
        /\ txs' = txs \cup {Row(NextTx, Id(j), Id(k), 0 - amt, "transfer_out"),
                            Row(NextTx + 1, Id(k), Id(j), amt, "transfer_in")}
        /\ accounts' = [accounts EXCEPT ![j] = Cached(@, b, 0 - amt), ![k] = Cached(@, c, amt)]
        /\ astray' = astray \cup Stale(j, b) \cup Stale(k, c)
        /\ ledger' = ledger \cup Booked({Id(j), Id(k)})
        /\ postings' = postings \cup Booked({Id(j), Id(k)})
        /\ UNCHANGED <<rev, cols, downs, restarts, users, sessions, seq>>
  BY <1>0
<1>2. UNCHANGED <<rev, cols, users, sessions, seq, restarts>> /\ astray \subseteq astray'
  BY <1>1
<1>3. amt \in Int /\ TypeInv /\ RefInv
  BY MigrationConstants DEF IInv
<1>4. /\ TxsHold(txs')
      /\ \A i \in Opened :
           SumIn(txs', Id(i)) = SumIn(txs, Id(i)) + (Plus(i, j, 0 - amt) + Plus(i, k, amt))
  BY <1>1, <1>3, TwoRows
<1> DEFINE plus == [i \in Opened |-> Plus(i, j, 0 - amt) + Plus(i, k, amt)]
           base == [i \in Opened |-> IF i = j THEN b ELSE c]
<1>5. \A i \in Opened : plus[i] \in Int /\ SumIn(txs', Id(i)) = SumIn(txs, Id(i)) + plus[i]
  BY <1>3, <1>4 DEF Plus
<1>6. accounts \in [Opened -> Account]
  BY <1>3 DEF TypeInv
<1>7. accounts' = [accounts EXCEPT ![j] = Cached(accounts[j], b, 0 - amt),
                                    ![k] = Cached(accounts[k], c, amt)]
  BY <1>1, <1>6
<1>8. accounts' = [i \in Opened |-> accounts'[i]]
  BY <1>6, <1>7
<1>9. /\ accounts'[j] = Cached(accounts[j], b, 0 - amt) /\ accounts'[k] = Cached(accounts[k], c, amt)
      /\ \A i \in Opened : i # j /\ i # k => accounts'[i] = accounts[i]
  BY <1>1, <1>6, <1>7
<1>10. plus[j] = 0 - amt /\ plus[k] = amt /\ \A i \in Opened : i # j /\ i # k => plus[i] = 0
  BY <1>1, <1>3 DEF Plus
<1>11. postings' \subseteq ledger' /\ ledger' \subseteq Ids /\ (rev < 4 => ledger' = {})
  <2>1. postings' \subseteq ledger' /\ ledger' \subseteq Ids
    BY <1>1, <1>3 DEF RefInv, Booked, Ids
  <2>2. rev < 4 => ledger = {} /\ ~(rev >= 4)
    BY DEF IInv, TypeInv, ColumnInv
  <2>3. rev < 4 => ledger' = {}
    BY <1>1, <2>2 DEF Booked
  <2> QED
    BY <2>1, <2>3
<1>13. base[j] = b /\ base[k] = c /\ b \in Int /\ c \in Int /\ \A i \in Opened : base[i] \in Int
  BY <1>1, LoadedType
<1> HIDE DEF plus, base
<1>12. \A i \in Opened : \/ /\ accounts'[i] = Cached(accounts[i], base[i], plus[i])
                            /\ Stale(i, base[i]) \subseteq astray'
                         \/ accounts'[i] = accounts[i] /\ plus[i] = 0
  BY <1>1, <1>9, <1>10, <1>13
<1> QED
  BY <1>1, <1>2, <1>4, <1>5, <1>8, <1>11, <1>12, <1>13, CreditedStep

(***************************************************************************)
(* The welcome grant, given or already there.                              *)
(***************************************************************************)
Bonus(k) == IF Granted(k) THEN 0 ELSE 1

LEMMA WelcomeHolds ==
  ASSUME IInv, NEW k \in Opened, NEW base, Welcome(k, base)
  PROVE  /\ TxsHold(txs') /\ postings' \subseteq ledger' /\ ledger' \subseteq Ids
         /\ rev < 4 => ledger' = {}
         /\ astray \subseteq astray' /\ (~Granted(k) => Stale(k, base) \subseteq astray')
         /\ \A j \in Opened : SumIn(txs', Id(j)) = SumIn(txs, Id(j)) + Plus(j, k, Bonus(k))
<1>1. TypeInv /\ RefInv /\ TxsHold(txs)
  BY DEF IInv, TxsHold, TypeInv, RefInv
<1>2. CASE Granted(k)
  <2>1. UNCHANGED <<txs, ledger, postings, astray>>
    BY <1>2 DEF Welcome
  <2>2. \A j \in Opened : SumIn(txs, Id(j)) \in Int /\ Plus(j, k, Bonus(k)) = 0
    BY <1>1, <1>2, SumInType DEF TxsHold, Plus, Bonus
  <2>3. \A j \in Opened : SumIn(txs', Id(j)) = SumIn(txs, Id(j)) + Plus(j, k, Bonus(k))
    BY <2>1, <2>2
  <2> QED
    BY <1>1, <1>2, <2>1, <2>3 DEF RefInv, IInv, ColumnInv
<1>3. CASE ~Granted(k)
  <2>1. /\ txs' = txs \cup {Row(NextTx, Id(k), NoId, 1, "demo_grant")}
        /\ ledger' = ledger \cup Booked({Id(k)})
        /\ postings' = postings \cup Booked({Id(k)})
        /\ astray' = astray \cup Stale(k, base)
    BY <1>3 DEF Welcome
  <2>2. "demo_grant" \in TxTypes /\ 1 \in Int /\ Bonus(k) = 1
    BY <1>3 DEF TxTypes, Bonus
  <2>3. TxsHold(txs') /\ \A j \in Opened : SumIn(txs', Id(j)) = SumIn(txs, Id(j)) + Plus(j, k, 1)
    BY <1>1, <2>1, <2>2, OneRow
  <2>4. postings' \subseteq ledger' /\ ledger' \subseteq Ids
    BY <1>1, <2>1 DEF RefInv, Booked, Ids
  <2>5. rev < 4 => ledger' = {}
    <3>1. rev < 4 => ledger = {} /\ ~(rev >= 4)
      BY DEF IInv, TypeInv, ColumnInv
    <3> QED
      BY <2>1, <3>1 DEF Booked
  <2> QED
    BY <2>1, <2>2, <2>3, <2>4, <2>5
<1> QED
  BY <1>2, <1>3

LEMMA GrantBefore0008Step == ASSUME IInv, GrantBefore0008 PROVE IInv'
<1>0. PICK k \in Opened :
        \E held \in Loaded(k) :
          /\ rev \in 3..7 /\ Welcome(k, held) /\ accounts' = [accounts EXCEPT ![k] = Welcomed(k, held)]
          /\ UNCHANGED <<rev, cols, downs, restarts, users, sessions, seq>>
  BY DEF GrantBefore0008
<1>1. PICK held \in Loaded(k) :
        /\ rev \in 3..7 /\ Welcome(k, held) /\ accounts' = [accounts EXCEPT ![k] = Welcomed(k, held)]
        /\ UNCHANGED <<rev, cols, downs, restarts, users, sessions, seq>>
  BY <1>0
<1>2. UNCHANGED <<rev, cols, users, sessions, seq, restarts>> /\ held \in Int
  BY <1>1, LoadedType
<1>3. /\ TxsHold(txs') /\ postings' \subseteq ledger' /\ ledger' \subseteq Ids
      /\ rev < 4 => ledger' = {}
      /\ astray \subseteq astray' /\ (~Granted(k) => Stale(k, held) \subseteq astray')
      /\ \A j \in Opened : SumIn(txs', Id(j)) = SumIn(txs, Id(j)) + Plus(j, k, Bonus(k))
  BY <1>1, WelcomeHolds
<1> DEFINE plus == [j \in Opened |-> Plus(j, k, Bonus(k))]
           base == [j \in Opened |-> held]
<1>4. \A j \in Opened : plus[j] \in Int /\ SumIn(txs', Id(j)) = SumIn(txs, Id(j)) + plus[j]
  BY <1>3 DEF Plus, Bonus
<1>5. accounts \in [Opened -> Account]
  BY DEF IInv, TypeInv
<1>6. accounts' = [j \in Opened |-> accounts'[j]]
  BY <1>1, <1>5
<1>7. \A j \in Opened : \/ /\ accounts'[j] = Cached(accounts[j], base[j], plus[j])
                           /\ Stale(j, base[j]) \subseteq astray'
                        \/ accounts'[j] = accounts[j] /\ plus[j] = 0
  BY <1>1, <1>3, <1>5 DEF Plus, Bonus, Welcomed
<1>8. rev >= 2
  BY <1>1
<1>9. \A j \in Opened : base[j] \in Int
  BY <1>2
<1> HIDE DEF plus, base
<1> QED
  BY <1>2, <1>3, <1>4, <1>6, <1>7, <1>8, <1>9, CreditedStep

-----------------------------------------------------------------------------
(***************************************************************************)
(* An account, new or so far without one, is given the next number.        *)
(***************************************************************************)
LEMMA NumberDrawn ==
  ASSUME IInv, ~NumberTaken, Draw, UNCHANGED <<rev, restarts>>, NEW k,
         Opened' = Opened \cup {k}, k \in Opened => accounts[k].num = 0, accounts'[k].num = seq,
         \A j \in Opened : j # k => accounts'[j].num = accounts[j].num
  PROVE  NumberInv'
<1>1. /\ rev \in 0..11 /\ seq \in Nat /\ restarts \in Nat /\ \A j \in Opened : accounts[j].num \in Nat
      /\ High \in Nat /\ High > 1
  BY MigrationConstants DEF IInv, TypeInv, Account
<1>2. seq' = IF seq = 0 THEN 0 ELSE seq + 1
  BY DEF Draw
<1>3. seq = 0 \/ \A j \in Opened : accounts[j].num # seq
  BY DEF NumberTaken
<1>4. \A i, j \in Opened : accounts[i].num = accounts[j].num /\ accounts[j].num # 0 => i = j
  BY DEF IInv, NumberInv
<1>5. \A i, j \in Opened' : accounts'[i].num = accounts'[j].num /\ accounts'[j].num # 0 => i = j
  BY <1>3, <1>4
<1>6. ASSUME restarts = 0
      PROVE  /\ rev < 6 /\ (rev >= 4 => seq' >= High)
             /\ \A j \in Opened' : accounts'[j].num = 0 \/ accounts'[j].num >= High
  <2>1. /\ rev < 6 /\ (rev >= 4 => seq >= High)
        /\ \A j \in Opened : accounts[j].num = 0 \/ accounts[j].num >= High
    BY <1>6 DEF IInv, NumberInv
  <2>2. rev < 4 => seq = 0
    BY DEF IInv, ColumnInv
  <2>3. seq = 0 \/ seq >= High
    BY <1>1, <2>1, <2>2
  <2>4. rev >= 4 => seq' >= High
    BY <1>1, <1>2, <2>1
  <2> QED
    BY <2>1, <2>3, <2>4
<1>7. ASSUME rev >= 6, restarts = 1
      PROVE  /\ seq' >= 1
             /\ \A j \in Opened' : accounts'[j].num < High => accounts'[j].num < seq'
  <2>1. seq >= 1 /\ \A j \in Opened : accounts[j].num < High => accounts[j].num < seq
    BY <1>7 DEF IInv, NumberInv
  <2>2. seq' = seq + 1
    BY <1>1, <1>2, <2>1
  <2>3. ASSUME NEW j \in Opened', accounts'[j].num < High PROVE accounts'[j].num < seq'
    <3>1. CASE j = k
      BY <1>1, <2>2, <3>1
    <3>2. CASE j # k
      BY <1>1, <2>1, <2>2, <2>3, <3>2
    <3> QED
      BY <3>1, <3>2
  <2> QED
    BY <1>1, <2>1, <2>2, <2>3
<1> QED
  BY <1>5, <1>6, <1>7 DEF NumberInv

(***************************************************************************)
(* Finish keeps every session an account's and of its owner.               *)
(***************************************************************************)
LEMMA FinishStep == ASSUME IInv, Finish PROVE IInv'
<1>0. PICK k \in Opened, how \in READY_STATUSES :
        \E base \in Loaded(k) :
          LET open == EnsureSession(k)
              last == Max({s.n : s \in {s \in open : s.acct = Id(k)}})
              end == IF how = "completed" THEN "approved_demo" ELSE "skipped"
              unnumbered == accounts[k].num = 0 IN
          /\ rev = 11 /\ (unnumbered => ~NumberTaken) /\ Welcome(k, base)
          /\ accounts' = [accounts EXCEPT
               ![k] = [Welcomed(k, base) EXCEPT !.status = how, !.num = IF unnumbered THEN seq ELSE @]]
          /\ IF unnumbered THEN Draw ELSE UNCHANGED seq
          /\ sessions' = {IF s.n = last THEN [s EXCEPT !.status = end] ELSE s : s \in open}
          /\ UNCHANGED <<rev, cols, downs, restarts, users>>
  BY DEF Finish
<1>1. PICK base \in Loaded(k) :
        LET open == EnsureSession(k)
            last == Max({s.n : s \in {s \in open : s.acct = Id(k)}})
            end == IF how = "completed" THEN "approved_demo" ELSE "skipped"
            unnumbered == accounts[k].num = 0 IN
        /\ rev = 11 /\ (unnumbered => ~NumberTaken) /\ Welcome(k, base)
        /\ accounts' = [accounts EXCEPT
             ![k] = [Welcomed(k, base) EXCEPT !.status = how, !.num = IF unnumbered THEN seq ELSE @]]
        /\ IF unnumbered THEN Draw ELSE UNCHANGED seq
        /\ sessions' = {IF s.n = last THEN [s EXCEPT !.status = end] ELSE s : s \in open}
        /\ UNCHANGED <<rev, cols, downs, restarts, users>>
  BY <1>0
<1>2. UNCHANGED <<rev, cols, users, restarts>> /\ rev = 11 /\ base \in Int
  BY <1>1, LoadedType
<1>3. /\ TxsHold(txs') /\ postings' \subseteq ledger' /\ ledger' \subseteq Ids
      /\ astray \subseteq astray' /\ (~Granted(k) => Stale(k, base) \subseteq astray')
      /\ \A j \in Opened : SumIn(txs', Id(j)) = SumIn(txs, Id(j)) + Plus(j, k, Bonus(k))
  BY <1>1, WelcomeHolds
<1> DEFINE w == Welcomed(k, base)
           num == IF accounts[k].num = 0 THEN seq ELSE w.num
           plus == [j \in Opened |-> Plus(j, k, Bonus(k))]
<1>4. accounts \in [Opened -> Account] /\ seq \in Nat /\ accounts[k] \in Account /\ accounts[k].num \in Nat
  BY DEF IInv, TypeInv, Account
<1>5. /\ w \in Account /\ w.form = accounts[k].form /\ w.owner = accounts[k].owner
      /\ w.num = accounts[k].num /\ w.balance = accounts[k].balance
      /\ k \notin astray' => w.cached = accounts[k].cached + Bonus(k)
  <2>1. CASE Granted(k)
    BY <1>4, <2>1 DEF Welcomed, Bonus, Account
  <2>2. CASE ~Granted(k)
    <3>2. k \notin astray' => base = accounts[k].cached
      BY <1>2, <1>3, <2>2 DEF Stale
    <3>1. w = Cached(accounts[k], base, 1) /\ Bonus(k) = 1 /\ 1 \in Int /\ rev \in Nat /\ rev >= 4
      BY <1>2, <2>2 DEF Welcomed, Bonus
    <3> QED
      BY <1>2, <1>4, <3>1, <3>2, CachedIs
  <2> QED
    BY <2>1, <2>2
<1>6. num \in Nat /\ how \in Statuses
  BY <1>4, <1>5 DEF READY_STATUSES, Statuses
<1>7. accounts' = [accounts EXCEPT ![k] = [w EXCEPT !.status = how, !.num = num]]
  BY <1>1
<1> HIDE DEF w, num
<1>8. DOMAIN accounts' = Opened /\ accounts' = [j \in Opened |-> accounts'[j]]
      /\ accounts'[k] = [w EXCEPT !.status = how, !.num = num]
      /\ \A j \in Opened : j # k => accounts'[j] = accounts[j]
  BY <1>4, <1>7
<1>9. /\ accounts'[k] \in Account /\ accounts'[k].form = w.form /\ accounts'[k].owner = w.owner
      /\ accounts'[k].num = num /\ accounts'[k].balance = w.balance /\ accounts'[k].cached = w.cached
  <2> DEFINE r == [w EXCEPT !.status = how]
  <2>1. /\ r \in Account /\ r.form = w.form /\ r.owner = w.owner /\ r.balance = w.balance
        /\ r.cached = w.cached
    BY <1>5, <1>6 DEF Account
  <2>2. accounts'[k] = [r EXCEPT !.num = num]
    BY <1>5, <1>8 DEF Account
  <2> HIDE DEF r
  <2> QED
    BY <1>6, <2>1, <2>2 DEF Account
<1>10. \A j \in Opened :
         /\ accounts'[j] \in Account
         /\ accounts'[j].form = accounts[j].form /\ accounts'[j].owner = accounts[j].owner
         /\ accounts'[j].balance = accounts[j].balance
  BY <1>4, <1>5, <1>8, <1>9
<1>11. \A j \in Opened : plus[j] \in Int /\ SumIn(txs', Id(j)) = SumIn(txs, Id(j)) + plus[j]
  BY <1>3 DEF Plus, Bonus
<1>12. ASSUME NEW j \in Opened \ astray' PROVE accounts'[j].cached = accounts[j].cached + plus[j]
  <2>1. accounts[j].cached \in Int
    BY <1>4 DEF Account
  <2>2. CASE j = k
    BY <1>5, <1>9, <2>2 DEF Plus
  <2>3. CASE j # k
    BY <1>8, <2>1, <2>3 DEF Plus
  <2> QED
    BY <2>2, <2>3
<1>13. Opened' = Opened
  BY <1>8 DEF Opened
<1>14. seq' \in Nat /\ NumberInv'
  <2>1. CASE accounts[k].num = 0
    <3>1. ~NumberTaken /\ Draw /\ accounts'[k].num = seq /\ Opened' = Opened \cup {k}
      BY <1>1, <1>9, <1>13, <2>1 DEF num
    <3>2. \A j \in Opened : j # k => accounts'[j].num = accounts[j].num
      BY <1>8
    <3>3. NumberInv'
      BY <1>2, <2>1, <3>1, <3>2, NumberDrawn
    <3> QED
      BY <1>4, <3>1, <3>3 DEF Draw
  <2>2. CASE accounts[k].num # 0
    <3>1. seq' = seq
      BY <1>1, <2>2
    <3>2. SameNumbers
      BY <1>5, <1>8, <1>9, <2>2 DEF SameNumbers, num
    <3> QED
      BY <1>2, <1>4, <3>1, <3>2, NumbersKept DEF IInv
  <2> QED
    BY <2>1, <2>2
<1>15. SessionInv'
  <2> DEFINE open == EnsureSession(k)
             last == Max({s.n : s \in {s \in open : s.acct = Id(k)}})
             end == IF how = "completed" THEN "approved_demo" ELSE "skipped"
  <2>1. sessions' = {IF s.n = last THEN [s EXCEPT !.status = end] ELSE s : s \in open}
    BY <1>1
  <2>2. \A t \in open :
          /\ t = [n |-> t.n, subject |-> t.subject, acct |-> t.acct, status |-> t.status]
          /\ t.acct # NoId
          /\ \E j \in Opened : accounts[j].owner = t.subject /\ Id(j) = t.acct
    BY <1>2, EnsureSessionHolds
  <2> HIDE DEF open, last, end
  <2>3. ASSUME NEW t \in sessions'
        PROVE  /\ t = [n |-> t.n, subject |-> t.subject, acct |-> t.acct, status |-> t.status]
               /\ t.acct # NoId
               /\ \E j \in Opened : accounts[j].owner = t.subject /\ Id(j) = t.acct
    <3>1. PICK s \in open : t = IF s.n = last THEN [s EXCEPT !.status = end] ELSE s
      BY <2>1
    <3>2. s = [n |-> s.n, subject |-> s.subject, acct |-> s.acct, status |-> s.status]
      BY <2>2
    <3>3. CASE s.n = last
      <4>1. t = [n |-> s.n, subject |-> s.subject, acct |-> s.acct, status |-> end]
        BY <3>1, <3>2, <3>3
      <4> QED
        BY <2>2, <4>1
    <3>4. CASE s.n # last
      BY <2>2, <3>1, <3>4
    <3> QED
      BY <3>3, <3>4
  <2>4. SameIds
    BY <1>8, <1>10 DEF SameIds
  <2>5. \A j \in Opened : Id(j)' = Id(j)
    BY <2>4, IdsKept
  <2> QED
    BY <1>2, <1>10, <1>13, <2>3, <2>5 DEF SessionInv, NoId
<1> HIDE DEF plus
<1> QED
  BY <1>2, <1>3, <1>8, <1>10, <1>11, <1>12, <1>14, <1>15, MoneyStep

(***************************************************************************)
(* A new account: no row has its id, and its number is the next one.       *)
(***************************************************************************)
LEMMA OpenedOneMore ==
  ASSUME TypeInv, NEW s, NEW form, NEW status, OpenWith(s, form, status), NEW m, m = NextKey
  PROVE  /\ m \in Keys /\ m \notin Opened /\ Opened' = Opened \cup {m}
         /\ accounts'[m] = NewAccount(form, s, seq, status) /\ Id(m)' = <<form, m>>
         /\ accounts' = [k \in Opened \cup {m} |-> accounts'[k]]
         /\ \A k \in Opened : accounts'[k] = accounts[k] /\ Id(k)' = Id(k)
<1>1. Keys \ Opened # {} /\ Keys \ Opened \subseteq Nat
  BY MigrationConstants DEF OpenWith, TypeInv
<1>2. m \in Keys \ Opened
  BY <1>1, MinOf DEF NextKey
<1>3. accounts' = [k \in Opened \cup {m} |->
                     IF k = m THEN NewAccount(form, s, seq, status) ELSE accounts[k]]
  BY DEF OpenWith
<1>4. accounts'[m] = NewAccount(form, s, seq, status)
  BY <1>3
<1>5. \A k \in Opened : accounts'[k] = accounts[k] /\ Id(k)' = Id(k)
  BY <1>2, <1>3 DEF Id
<1>6. Opened' = Opened \cup {m} /\ accounts' = [k \in Opened \cup {m} |-> accounts'[k]]
  BY <1>3 DEF Opened
<1>7. Id(m)' = <<form, m>>
  BY <1>4 DEF Id, NewAccount
<1> QED
  BY <1>2, <1>4, <1>5, <1>6, <1>7

LEMMA OpenStep ==
  ASSUME IInv, rev \in 3..11, NEW s \in Subjects, NEW form \in Forms, NEW status \in Statuses,
         OpenWith(s, form, status), rev \in 3..6 => Owned(s) = {},
         UNCHANGED <<rev, cols, txs, ledger, postings, astray, restarts>>,
         DOMAIN users' \subseteq Subjects, users' \in [DOMAIN users' -> Statuses],
         DOMAIN users \subseteq DOMAIN users', s \in DOMAIN users', SessionInv'
  PROVE  IInv'
<1>0. TypeInv /\ ColumnInv /\ OwnerInv /\ RefInv
  BY DEF IInv
<1>1. PICK m : m = NextKey
  OBVIOUS
<1>2. /\ m \in Keys /\ m \notin Opened /\ Opened' = Opened \cup {m}
      /\ accounts'[m] = NewAccount(form, s, seq, status) /\ Id(m)' = <<form, m>>
      /\ accounts' = [k \in Opened \cup {m} |-> accounts'[k]]
      /\ \A k \in Opened : accounts'[k] = accounts[k] /\ Id(k)' = Id(k)
  BY <1>0, <1>1, OpenedOneMore
<1>3. seq \in Nat /\ ~NumberTaken /\ Draw /\ seq' \in Nat
  BY <1>0 DEF TypeInv, OpenWith, Draw
<1>4. /\ accounts'[m] \in Account /\ accounts'[m].form = form /\ accounts'[m].owner = s
      /\ accounts'[m].num = seq /\ accounts'[m].balance = 0 /\ accounts'[m].cached = 0
  BY <1>2, <1>3 DEF NewAccount, Account
<1>5. s # None
  BY MigrationConstants
<1>6. TypeInv'
  <2>1. Opened' \subseteq Keys /\ accounts' \in [Opened' -> Account]
    BY <1>0, <1>2, <1>4 DEF TypeInv
  <2> QED
    BY <1>0, <1>3, <2>1 DEF TypeInv
<1>7. ColumnInv'
  <2>1. rev < 4 => seq = 0 /\ seq' = 0 /\ ledger' = {}
    BY <1>0, <1>3 DEF ColumnInv, Draw
  <2>2. \A k \in Opened : /\ "balance" \notin cols => accounts'[k].balance = 0
                          /\ rev < 4 => accounts'[k].num = 0 /\ accounts'[k].cached = 0
    BY <1>0, <1>2 DEF ColumnInv
  <2>3. \A k \in Opened' : /\ "balance" \notin cols => accounts'[k].balance = 0
                           /\ rev < 4 => accounts'[k].num = 0 /\ accounts'[k].cached = 0
    BY <1>2, <1>4, <2>1, <2>2
  <2> QED
    BY <1>0, <2>1, <2>3 DEF ColumnInv
<1>8. OwnerInv'
  <2>1. \A k \in Opened' : accounts'[k].owner \in DOMAIN users' \cup {None}
    BY <1>0, <1>2, <1>4 DEF OwnerInv
  <2>2. ASSUME rev \in 3..6, NEW j \in Opened', NEW k \in Opened',
               accounts'[j].owner = accounts'[k].owner, accounts'[k].owner # None
        PROVE  j = k
    <3>1. \A i \in Opened : accounts'[i].owner # s
      BY <1>2, <2>2 DEF Owned
    <3>2. CASE j = m \/ k = m
      BY <1>2, <1>4, <2>2, <3>1, <3>2
    <3>3. CASE j # m /\ k # m
      BY <1>0, <1>2, <2>2, <3>3 DEF OwnerInv
    <3> QED
      BY <3>2, <3>3
  <2> QED
    BY <2>1, <2>2 DEF OwnerInv
<1>9. NumberInv'
  <2>1. \A k \in Opened : k # m => accounts'[k].num = accounts[k].num
    BY <1>2
  <2> QED
    BY <1>2, <1>3, <1>4, <2>1, NumberDrawn
<1>10. \A k \in Opened : Id(m)' # Id(k)
  BY <1>2 DEF Id
<1>11. RefInv'
  <2>1. Ids \subseteq Ids'
    BY <1>2 DEF Ids
  <2> QED
    BY <1>0, <2>1 DEF RefInv, NoId
<1>12. CachedIsSumUnlessAstray'
  <2>1. \A k \in Opened : SumOf(k)' = SumOf(k) /\ accounts'[k].cached = accounts[k].cached
    BY <1>2, SumOfIsSumIn, SumNextIsSumIn
  <2>2. \A t \in txs : t.acct # Id(m)'
    BY <1>0, <1>10 DEF RefInv, Ids
  <2>3. SumIn(txs, Id(m)') = 0
    BY <2>2, SumInNone
  <2>4. SumOf(m)' = 0
    BY <2>3, SumNextIsSumIn
  <2> QED
    BY <1>2, <1>4, <2>1, <2>4 DEF IInv, CachedIsSumUnlessAstray
<1> QED
  BY <1>6, <1>7, <1>8, <1>9, <1>11, <1>12 DEF IInv

LEMMA OpenBefore0008Step == ASSUME IInv, OpenBefore0008 PROVE IInv'
<1>1. PICK s \in DOMAIN users :
        /\ rev \in 3..7 /\ (rev < 7 => Owned(s) = {})
        /\ OpenWith(s, IF rev < 5 THEN "chk" ELSE "uuid", "not_started")
        /\ UNCHANGED <<schema, users, txs, ledger, postings, sessions>>
  BY DEF OpenBefore0008
<1>2. UNCHANGED <<rev, cols, users, txs, ledger, postings, sessions, astray, restarts>>
  BY <1>1 DEF schema, history
<1>3. PICK form : form = IF rev < 5 THEN "chk" ELSE "uuid"
  OBVIOUS
<1>4. form \in Forms /\ "not_started" \in Statuses /\ s \in Subjects /\ OpenWith(s, form, "not_started")
  BY <1>1, <1>3 DEF Forms, Statuses, IInv, TypeInv
<1>5. SessionInv'
  BY <1>1, <1>2 DEF IInv, SessionInv, NoId
<1>6. /\ rev \in 3..11 /\ (rev \in 3..6 => Owned(s) = {})
      /\ DOMAIN users' \subseteq Subjects /\ users' \in [DOMAIN users' -> Statuses]
      /\ DOMAIN users \subseteq DOMAIN users' /\ s \in DOMAIN users'
  BY <1>1, <1>2 DEF IInv, TypeInv
<1> QED
  BY <1>2, <1>4, <1>5, <1>6, OpenStep

LEMMA OpenDraftStep == ASSUME IInv, OpenDraft PROVE IInv'
<1>1. PICK s \in Subjects :
        /\ rev = 11 /\ OpenWith(s, "uuid", "in_progress")
        /\ users' = [t \in DOMAIN users \cup {s} |-> IF t \in DOMAIN users THEN users[t] ELSE "not_started"]
        /\ sessions' = sessions \cup {[n |-> NextSession, subject |-> s,
                                       acct |-> <<"uuid", NextKey>>, status |-> "draft"]}
        /\ UNCHANGED <<schema, txs, ledger, postings>>
  BY DEF OpenDraft
<1>2. UNCHANGED <<rev, cols, txs, ledger, postings, astray, restarts>>
  BY <1>1 DEF schema, history
<1>3. "uuid" \in Forms /\ "in_progress" \in Statuses
  BY DEF Forms, Statuses
<1>4. PICK m : m = NextKey
  OBVIOUS
<1>5. /\ m \notin Opened /\ Opened' = Opened \cup {m}
      /\ accounts'[m] = NewAccount("uuid", s, seq, "in_progress") /\ Id(m)' = <<"uuid", m>>
      /\ \A k \in Opened : accounts'[k] = accounts[k] /\ Id(k)' = Id(k)
  <2>1. TypeInv /\ OpenWith(s, "uuid", "in_progress")
    BY <1>1 DEF IInv
  <2>2. /\ m \in Keys /\ m \notin Opened /\ Opened' = Opened \cup {m}
        /\ accounts'[m] = NewAccount("uuid", s, seq, "in_progress") /\ Id(m)' = <<"uuid", m>>
        /\ accounts' = [k \in Opened \cup {m} |-> accounts'[k]]
        /\ \A k \in Opened : accounts'[k] = accounts[k] /\ Id(k)' = Id(k)
    BY <1>4, <2>1, OpenedOneMore
  <2> QED
    BY <2>2
<1>6. SessionInv'
  <2> DEFINE new == [n |-> NextSession, subject |-> s, acct |-> <<"uuid", m>>, status |-> "draft"]
  <2>1. sessions' = sessions \cup {new}
    BY <1>1, <1>4
  <2>2. ASSUME NEW t \in sessions
        PROVE  /\ t = [n |-> t.n, subject |-> t.subject, acct |-> t.acct, status |-> t.status]
               /\ t.acct # NoId
               /\ \E k \in Opened' : accounts'[k].owner = t.subject /\ Id(k)' = t.acct
    <3>1. /\ t = [n |-> t.n, subject |-> t.subject, acct |-> t.acct, status |-> t.status]
          /\ t.acct # NoId
          /\ \E k \in Opened : accounts[k].owner = t.subject /\ Id(k) = t.acct
      BY <1>1 DEF IInv, SessionInv
    <3> QED
      BY <1>5, <3>1
  <2>3. /\ new = [n |-> new.n, subject |-> new.subject, acct |-> new.acct, status |-> new.status]
        /\ new.acct # NoId /\ new.acct = Id(m)' /\ new.subject = s
    BY <1>5 DEF NoId
  <2>4. accounts'[m].owner = s /\ m \in Opened'
    BY <1>5 DEF NewAccount
  <2> HIDE DEF new
  <2>5. rev' = 11
    BY <1>1, <1>2
  <2>6. \A t \in sessions' :
          /\ t = [n |-> t.n, subject |-> t.subject, acct |-> t.acct, status |-> t.status]
          /\ t.acct # NoId
          /\ \E k \in Opened' : accounts'[k].owner = t.subject /\ Id(k)' = t.acct
    BY <2>1, <2>2, <2>3, <2>4
  <2>7. NoId' = NoId
    BY DEF NoId
  <2> QED
    BY <2>5, <2>6, <2>7 DEF SessionInv
<1>7. /\ DOMAIN users' \subseteq Subjects /\ users' \in [DOMAIN users' -> Statuses]
      /\ DOMAIN users \subseteq DOMAIN users' /\ s \in DOMAIN users'
  BY <1>1 DEF IInv, TypeInv, Statuses
<1>8. rev \in 3..11 /\ (rev \in 3..6 => Owned(s) = {})
  BY <1>1
<1> QED
  BY <1>1, <1>2, <1>3, <1>6, <1>7, <1>8, OpenStep

-----------------------------------------------------------------------------
LEMMA InitHolds == ASSUME Init PROVE IInv
<1>1. /\ rev = 1 /\ cols \in {{}, {"balance"}} /\ users = <<>> /\ txs = {} /\ ledger = {}
      /\ postings = {} /\ sessions = {} /\ seq = 0 /\ astray = {} /\ restarts = 0
  BY DEF Init
<1>2. PICK K \in SUBSET {Min(Keys)} : \E b \in [K -> Amounts \cup {0}] :
        /\ cols = {} => \A k \in K : b[k] = 0
        /\ accounts = [k \in K |-> [NewAccount("legacy", None, 0, "not_started") EXCEPT !.balance = b[k]]]
  BY DEF Init
<1>3. PICK b \in [K -> Amounts \cup {0}] :
        /\ cols = {} => \A k \in K : b[k] = 0
        /\ accounts = [k \in K |-> [NewAccount("legacy", None, 0, "not_started") EXCEPT !.balance = b[k]]]
  BY <1>2
<1>4. Min(Keys) \in Keys
  BY MigrationConstants, MinOf
<1>5. Opened = K /\ K \subseteq Keys
  BY <1>2, <1>3, <1>4 DEF Opened
<1>6. ASSUME NEW k \in K
      PROVE  /\ accounts[k] \in Account /\ accounts[k].balance = b[k] /\ accounts[k].owner = None
             /\ accounts[k].num = 0 /\ accounts[k].cached = 0
  <2> DEFINE a == NewAccount("legacy", None, 0, "not_started")
  <2>1. a \in Account /\ a.owner = None /\ a.num = 0 /\ a.cached = 0
    BY DEF NewAccount, Account, Forms, Statuses
  <2>2. accounts[k] = [a EXCEPT !.balance = b[k]]
    BY <1>3
  <2>3. b[k] \in Int
    <3>1. CASE b[k] \in Amounts
      BY <3>1, MigrationConstants
    <3>2. CASE b[k] = 0
      BY <3>2
    <3>3. b[k] \in Amounts \cup {0}
      BY <1>3
    <3> QED
      BY <3>1, <3>2, <3>3
  <2> HIDE DEF a
  <2> QED
    BY <2>1, <2>2, <2>3 DEF Account
<1>7. TypeInv
  <2>1. accounts \in [Opened -> Account]
    BY <1>3, <1>5, <1>6
  <2>2. DOMAIN users = {} /\ users \in [DOMAIN users -> Statuses]
    BY <1>1
  <2> QED
    BY <1>1, <1>5, <2>1, <2>2 DEF TypeInv
<1>8. ColumnInv
  BY <1>1, <1>3, <1>5, <1>6 DEF ColumnInv
<1>9. OwnerInv /\ NumberInv /\ SessionInv /\ CachedIsSumUnlessAstray
  BY <1>1, <1>5, <1>6 DEF OwnerInv, NumberInv, SessionInv, CachedIsSumUnlessAstray
<1>10. RefInv
  BY <1>1, FS_EmptySet DEF RefInv
<1> QED
  BY <1>7, <1>8, <1>9, <1>10 DEF IInv

(***************************************************************************)
(* A step that leaves the data alone, 0001 or a stutter.                   *)
(***************************************************************************)
LEMMA DataKept ==
  ASSUME IInv, rev' = rev \/ (rev = 0 /\ rev' = 1),
         UNCHANGED <<cols, accounts, users, txs, ledger, postings, sessions, seq, astray, restarts>>
  PROVE  IInv'
<1>1. Opened' = Opened /\ rev' \in 0..11
  BY DEF Opened, IInv, TypeInv
<1>2. SameIds /\ SameOwners /\ SameNumbers /\ SameCached
  BY DEF SameIds, SameOwners, SameNumbers, SameCached, Opened
<1>3. TypeInv' /\ ColumnInv'
  BY <1>1 DEF IInv, TypeInv, ColumnInv
<1>4. OwnerInv' /\ NumberInv' /\ RefInv' /\ SessionInv' /\ CachedIsSumUnlessAstray'
  BY <1>1, <1>2, OwnersKept, NumbersKept, RefsKept, SessionsKept, CacheKept DEF IInv
<1> QED
  BY <1>3, <1>4 DEF IInv

LEMMA Up0001Step == ASSUME IInv, Up0001 PROVE IInv'
<1>1. /\ rev = 0 /\ rev' = 1
      /\ UNCHANGED <<cols, accounts, users, txs, ledger, postings, sessions, seq, astray, restarts>>
  BY DEF Up0001, Up, To
<1> QED
  BY <1>1, DataKept

LEMMA StutterHolds == ASSUME IInv, UNCHANGED vars PROVE IInv'
<1>1. /\ rev' = rev
      /\ UNCHANGED <<cols, accounts, users, txs, ledger, postings, sessions, seq, astray, restarts>>
  BY DEF vars
<1> QED
  BY <1>1, DataKept

(***************************************************************************)
(* 0001 back: there is nothing left, and the ledger has long been dropped. *)
(***************************************************************************)
LEMMA Down0001Step == ASSUME IInv, Down0001 PROVE IInv'
<1>1. /\ rev = 1 /\ rev' = 0 /\ cols' = {} /\ accounts' = <<>> /\ txs' = {}
      /\ UNCHANGED <<users, ledger, postings, sessions, seq, astray, restarts>>
  BY DEF Down0001, Down, To
<1>2. Opened' = {} /\ accounts' \in [Opened' -> Account]
  BY <1>1 DEF Opened
<1>3. seq = 0 /\ ledger = {} /\ postings = {} /\ restarts \in Nat
  BY <1>1 DEF IInv, TypeInv, ColumnInv, RefInv
<1>4. TypeInv' /\ ColumnInv'
  BY <1>1, <1>2, <1>3 DEF IInv, TypeInv, ColumnInv
<1>5. OwnerInv' /\ NumberInv' /\ CachedIsSumUnlessAstray'
  BY <1>1, <1>2 DEF OwnerInv, NumberInv, CachedIsSumUnlessAstray
<1>6. RefInv'
  BY <1>1, <1>3, FS_EmptySet DEF RefInv
<1>7. SessionInv'
  BY <1>1 DEF IInv, SessionInv, NoId
<1> QED
  BY <1>4, <1>5, <1>6, <1>7 DEF IInv

LEMMA NextHolds == ASSUME IInv, [Next]_vars PROVE IInv'
<1>1. CASE Upgrade
  BY <1>1, Up0001Step, Up0002Step, Up0003Step, Up0004Step, Up0005Step, Up0006Step, Up0007Step, Up0008Step,
     Up0009Step, Up0010Step, Up0011Step DEF Upgrade
<1>2. CASE Downgrade
  BY <1>2, Down0001Step, Down0002Step, Down0003Step, Down0004Step, Down0005Step, Down0006Step, Down0007Step,
     Down0008Step, Down0009Step, Down0010Step, Down0011Step DEF Downgrade
<1>3. CASE Drift \/ Deposit \/ Transfer \/ SignUp \/ OpenBefore0008 \/ OpenDraft \/ OpenFails
           \/ GrantBefore0008 \/ Finish \/ Restart
  BY <1>3, DriftStep, DepositStep, TransferStep, SignUpStep, OpenBefore0008Step, OpenDraftStep,
     OpenFailsStep, GrantBefore0008Step, FinishStep, RestartStep
<1>4. CASE UNCHANGED vars
  BY <1>4, StutterHolds
<1> QED
  BY <1>1, <1>2, <1>3, <1>4 DEF Next

(***************************************************************************)
(* IInv holds in every state, whatever revisions are applied and undone,   *)
(* and whatever the application does between them.                         *)
(***************************************************************************)
THEOREM Inductive == Spec => []IInv
<1>1. Init => IInv
  BY InitHolds
<1>2. IInv /\ [Next]_vars => IInv'
  BY NextHolds
<1> QED
  BY <1>1, <1>2, PTL DEF Spec

LEMMA SchemaFollows == ASSUME IInv PROVE SchemaHolds
<1>1. /\ rev \in 0..11 /\ cols \subseteq {"balance", "onboarding_status"}
      /\ ("balance" \in cols => rev = 1) /\ Opened \subseteq Keys /\ DOMAIN users \subseteq Subjects
  BY DEF IInv, TypeInv, ColumnInv
<1>2. \A k \in Opened :
        /\ accounts[k].form \in {"legacy", "chk", "uuid"}
        /\ accounts[k].owner \in DOMAIN users \cup {None}
        /\ accounts[k].status \in Statuses
        /\ rev < 4 => accounts[k].num = 0
  BY DEF IInv, TypeInv, ColumnInv, OwnerInv, Account, Forms
<1>3. \A j, k \in Opened : j # k /\ accounts[j].num # 0 => accounts[j].num # accounts[k].num
  BY DEF IInv, NumberInv
<1>4. ASSUME rev \in 3..6 PROVE OnePerOwner
  <2>1. ASSUME NEW s \in Subjects PROVE Cardinality(Owned(s)) <= 1
    <3>1. \A j, k \in Owned(s) : j = k
      BY <1>4, MigrationConstants DEF IInv, OwnerInv, Owned
    <3> QED
      BY <3>1, AtMostOne
  <2> QED
    BY <2>1 DEF OnePerOwner
<1>5. rev >= 9 => \A s \in sessions : s.acct # NoId
  BY DEF IInv, SessionInv
<1>6. /\ \A t \in txs : t.acct \in Ids /\ t.cp \in Ids \cup {NoId}
      /\ postings \subseteq ledger /\ ledger \subseteq Ids
  BY DEF IInv, RefInv
<1>7. \A s \in sessions : s.acct = NoId \/ \E k \in Owned(s.subject) : Id(k) = s.acct
  BY DEF IInv, SessionInv, Owned
<1> QED
  BY <1>1, <1>2, <1>3, <1>4, <1>5, <1>6, <1>7 DEF SchemaHolds, Ids

(***************************************************************************)
(* At every revision the data obeys the constraints of its schema, and     *)
(* every reference, the unprotected counterparties of transfers included,  *)
(* leads to an account.                                                    *)
(***************************************************************************)
THEOREM SchemaAlwaysHolds == Spec => []SchemaHolds
<1>1. IInv => SchemaHolds
  BY SchemaFollows
<1> QED
  BY <1>1, Inductive, PTL

(***************************************************************************)
(* From 0004 on balance_cached is the sum of the transactions of every     *)
(* account, except those that had money when 0004 added the column at 0    *)
(* and those the application wrote from a value loaded earlier.            *)
(***************************************************************************)
THEOREM CachedIsSum == Spec => []CachedIsSumUnlessAstray
<1>1. IInv => CachedIsSumUnlessAstray
  BY DEF IInv
<1> QED
  BY <1>1, Inductive, PTL

(***************************************************************************)
(* While 0006 was applied once, the next number of the sequence is free    *)
(* until it is one of the old ones, which are High or more.                *)
(***************************************************************************)
THEOREM NumberFree == Spec => []NumberFreeBelowHigh
<1>1. ASSUME IInv, rev >= 6, restarts = 1, seq < High, NEW k \in Opened
      PROVE  accounts[k].num # seq
  <2>1. accounts[k].num < High => accounts[k].num < seq
    BY <1>1 DEF IInv, NumberInv
  <2>2. accounts[k].num \in Nat /\ seq \in Nat
    BY <1>1 DEF IInv, TypeInv, Account
  <2> QED
    BY <1>1, <2>1, <2>2
<1>2. IInv => NumberFreeBelowHigh
  BY <1>1 DEF NumberFreeBelowHigh
<1> QED
  BY <1>2, Inductive, PTL

-----------------------------------------------------------------------------
(***************************************************************************)
(* What revisions preserve.                                                *)
(***************************************************************************)
MoneyKept == DOMAIN accounts' = DOMAIN accounts /\ \A k \in Opened : Money(k)' = Money(k)

LEMMA KeptByFrame ==
  ASSUME SameIds, txs' = txs, \A k \in Opened : accounts'[k].balance = accounts[k].balance
  PROVE  MoneyKept
<1>1. DOMAIN accounts' = DOMAIN accounts /\ \A k \in Opened : Id(k)' = Id(k)
  BY IdsKept DEF SameIds, Opened
<1>2. \A k \in Opened : SumOf(k)' = SumOf(k)
  BY <1>1, SumOfIsSumIn, SumNextIsSumIn
<1> QED
  BY <1>1, <1>2 DEF MoneyKept, Money

LEMMA KeptBySteady == ASSUME Steady PROVE MoneyKept
BY SteadyFrame, KeptByFrame DEF Steady

LEMMA KeptBySame == ASSUME accounts' = accounts, txs' = txs PROVE MoneyKept
<1>1. SameIds /\ \A k \in Opened : accounts'[k].balance = accounts[k].balance
  BY DEF SameIds, Opened
<1> QED
  BY <1>1, KeptByFrame

LEMMA UpgradeKeepsMoney == ASSUME IInv, Upgrade PROVE MoneyKept
<1>1. CASE Up0002
  <2>1. Opened' = Opened /\ \A k \in Opened : accounts'[k].balance = 0
    BY <1>1, Up0002Is
  <2>2. \A k \in Opened : SumOf(k)' = accounts[k].balance /\ SumOf(k) = 0 /\ accounts[k].balance \in Int
    BY <1>1, Up0002Money DEF IInv, TypeInv, Account
  <2>3. ASSUME NEW k \in Opened PROVE Money(k)' = Money(k)
    <3>1. Money(k)' = accounts'[k].balance + SumOf(k)'
      BY DEF Money
    <3> QED
      BY <2>1, <2>2, <3>1 DEF Money
  <2> QED
    BY <2>1, <2>3 DEF MoneyKept, Opened
<1>2. CASE Up0001 \/ Up0003 \/ Up0004 \/ Up0006 \/ Up0007 \/ Up0009
  <2>1. accounts' = accounts /\ txs' = txs
    BY <1>2 DEF Up0001, Up0003, Up0004, Up0006, Up0007, Up0009
  <2> QED
    BY <2>1, KeptBySame
<1>3. CASE Up0005
  <2>1. Opened' = Opened /\ \A k \in Opened : accounts'[k].balance = accounts[k].balance
    BY <1>3, Up0005Is
  <2>2. \A k \in Opened : SumOf(k)' = SumOf(k)
    BY <1>3, Up0005Money
  <2> QED
    BY <2>1, <2>2 DEF MoneyKept, Money, Opened
<1>4. CASE Up0008
  <2>1. SetAccounts(CopyStatus) /\ UNCHANGED <<txs, ledger, postings, astray>>
    BY <1>4 DEF Up0008
  <2> QED
    BY <2>1, CopyStatusSteady, KeptBySteady DEF IInv
<1>5. CASE Up0010 \/ Up0011
  BY <1>5, Up0010Steady, Up0011Is, KeptBySteady
<1> QED
  BY <1>1, <1>2, <1>3, <1>4, <1>5 DEF Upgrade

LEMMA DowngradeKeepsMoney == ASSUME IInv, Downgrade, rev' # 0 PROVE MoneyKept
<1>1. CASE Down0002
  <2>1. /\ rev = 2 /\ txs' = {} /\ Opened' = Opened
        /\ \A k \in Opened : accounts'[k].balance = SumOf(k)
    BY <1>1, Down0002Is
  <2>2. ASSUME NEW k \in Opened PROVE Money(k)' = Money(k)
    <3>1. SumOf(k)' = 0
      <4>1. SumOf(k)' = SumIn(txs', Id(k)')
        BY SumNextIsSumIn
      <4>2. SumIn({}, Id(k)') = 0
        BY SumInNone
      <4> QED
        BY <2>1, <4>1, <4>2
    <3>2. accounts[k].balance = 0
      BY <2>1 DEF IInv, ColumnInv
    <3>3. SumOf(k) \in Int
      BY SumOfType
    <3>4. Money(k)' = accounts'[k].balance + SumOf(k)'
      BY DEF Money
    <3> QED
      BY <2>1, <3>1, <3>2, <3>3, <3>4 DEF Money
  <2> QED
    BY <2>1, <2>2 DEF MoneyKept, Opened
<1>2. CASE Down0003 \/ Down0004
  <2>1. txs' = txs /\ Opened' = Opened
        /\ \A k \in Opened : /\ accounts'[k].form = accounts[k].form
                             /\ accounts'[k].balance = accounts[k].balance
    BY <1>2, Down0003Is, Down0004Is
  <2> QED
    BY <2>1, KeptByFrame DEF SameIds, Opened
<1>3. CASE Down0005 \/ Down0006 \/ Down0007 \/ Down0009 \/ Down0011
  <2>1. accounts' = accounts /\ txs' = txs
    BY <1>3 DEF Down0005, Down0006, Down0007, Down0009, Down0011
  <2> QED
    BY <2>1, KeptBySame
<1>4. CASE Down0008 \/ Down0010
  <2>1. DropStatus /\ UNCHANGED <<txs, ledger, postings, astray>>
    BY <1>4 DEF Down0008, Down0010
  <2> QED
    BY <2>1, DropStatusSteady, KeptBySteady DEF IInv
<1>5. ~Down0001
  BY DEF Down0001, Down, To
<1> QED
  BY <1>1, <1>2, <1>3, <1>4, <1>5 DEF Downgrade

LEMMA OnlyRevisionsRevise ==
  ASSUME [Next]_vars, rev' # rev
  PROVE  Upgrade \/ Downgrade
<1>1. CASE Drift \/ Deposit \/ Transfer \/ SignUp \/ OpenBefore0008 \/ OpenDraft \/ OpenFails
           \/ GrantBefore0008 \/ Finish \/ Restart
  BY <1>1 DEF Drift, Deposit, Transfer, SignUp, OpenBefore0008, OpenDraft, OpenFails,
     GrantBefore0008, Finish, Restart, schema
<1>2. CASE UNCHANGED vars
  BY <1>2 DEF vars
<1> QED
  BY <1>1, <1>2 DEF Next

(***************************************************************************)
(* No revision, up or down, changes what an account is worth, as long as   *)
(* there are accounts: 0002 turns a balance into one deposit of the same   *)
(* amount, its downgrade the sum into a balance, and 0005 renames an       *)
(* account and its rows alike.                                             *)
(***************************************************************************)
THEOREM MoneyIsPreserved == Spec => MoneyPreserved
<1>1. IInv /\ [Next]_vars =>
        [rev' # rev /\ rev' # 0 =>
           /\ DOMAIN accounts' = DOMAIN accounts
           /\ \A k \in Opened : Money(k)' = Money(k)]_vars
  BY OnlyRevisionsRevise, UpgradeKeepsMoney, DowngradeKeepsMoney DEF MoneyKept
<1> QED
  BY <1>1, Inductive, PTL DEF Spec, MoneyPreserved

LEMMA RestoredByEvidence ==
  ASSUME IInv, Up0011, NEW k \in Opened
  PROVE  /\ accounts[k].status \in READY_STATUSES => accounts'[k].status = accounts[k].status
         /\ accounts'[k].status \in READY_STATUSES =>
              \/ accounts[k].status \in READY_STATUSES
              \/ Granted(k) \/ Finished(k, "approved_demo") \/ Finished(k, "skipped")
         /\ Granted(k) => accounts'[k].status \in READY_STATUSES
<1>1. accounts'[k].status = Restored(k) /\ accounts[k].status \in Statuses
  BY Up0011Is DEF IInv, TypeInv, Account
<1>2. Frozen(k) <=> accounts[k].status \notin READY_STATUSES
  BY <1>1 DEF Frozen, Statuses, READY_STATUSES
<1> QED
  BY <1>1, <1>2, RestoredIs DEF READY_STATUSES

LEMMA UpgradeKeepsStatus ==
  ASSUME IInv, Upgrade, ~Up0011, HasStatus, NEW k \in Opened
  PROVE  accounts'[k].status = accounts[k].status
<1>1. CASE Up0002
  BY <1>1, Up0002Is
<1>2. CASE Up0001 \/ Up0003 \/ Up0004 \/ Up0006 \/ Up0007 \/ Up0009
  BY <1>2 DEF Up0001, Up0003, Up0004, Up0006, Up0007, Up0009
<1>3. CASE Up0005
  BY <1>3, Up0005Is
<1>4. CASE Up0008 \/ Up0010
  BY <1>4 DEF Up0008, Up0010
<1> QED
  BY <1>1, <1>2, <1>3, <1>4 DEF Upgrade

LEMMA RevisionOf ==
  /\ Upgrade /\ rev = 10 => Up0011
  /\ Downgrade => rev \in 1..11 /\ rev' = rev - 1
<1>1. Upgrade /\ rev = 10 => Up0011
  BY DEF Upgrade, Up0001, Up0002, Up0003, Up0004, Up0005, Up0006, Up0007, Up0008, Up0009, Up0010, Up
<1>2. Downgrade => rev \in 1..11 /\ rev' = rev - 1
  BY DEF Downgrade, Down0001, Down0002, Down0003, Down0004, Down0005, Down0006, Down0007, Down0008, Down0009,
     Down0010, Down0011, Down, To
<1> QED
  BY <1>1, <1>2

(***************************************************************************)
(* Where the status column exists an upgrade leaves ready accounts ready   *)
(* and makes others so only on evidence; after 0011 every granted account  *)
(* is ready.                                                               *)
(***************************************************************************)
THEOREM EvidenceDecides == Spec => ReadyByEvidence
<1> DEFINE Kept ==
      rev' > rev /\ HasStatus =>
        \A k \in Opened :
          /\ accounts[k].status \in READY_STATUSES => accounts'[k].status = accounts[k].status
          /\ accounts'[k].status \in READY_STATUSES =>
               \/ accounts[k].status \in READY_STATUSES
               \/ Granted(k) \/ Finished(k, "approved_demo") \/ Finished(k, "skipped")
           Restores ==
      rev = 10 /\ rev' = 11 =>
        \A k \in Opened : Granted(k) => accounts'[k].status \in READY_STATUSES
<1>1. ASSUME IInv, [Next]_vars PROVE Kept /\ Restores
  <2>1. CASE rev' = rev
    <3>1. rev \in 0..11
      BY <1>1 DEF IInv, TypeInv
    <3> QED
      BY <2>1, <3>1
  <2>2. CASE Up0011
    BY <1>1, <2>2, RestoredByEvidence
  <2>3. CASE Upgrade /\ ~Up0011
    <3>1. Restores
      BY <2>3, RevisionOf
    <3>2. Kept
      BY <1>1, <2>3, UpgradeKeepsStatus
    <3> QED
      BY <3>1, <3>2
  <2>4. CASE Downgrade
    <3>1. ~(rev' > rev) /\ ~(rev = 10 /\ rev' = 11)
      BY <2>4, RevisionOf
    <3> QED
      BY <3>1
  <2> QED
    BY <1>1, <2>1, <2>2, <2>3, <2>4, OnlyRevisionsRevise
<1>2. IInv /\ [Next]_vars => [Kept /\ Restores]_vars
  BY <1>1
<1> QED
  BY <1>2, Inductive, PTL DEF Spec, ReadyByEvidence
=============================================================================
