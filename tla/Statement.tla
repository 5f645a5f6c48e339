------------------------------ MODULE Statement ------------------------------
(***************************************************************************)
(* Statements and receipts: GET /me/transactions (page by page), the       *)
(* statement exports and the receipt PDFs, read while postings commit.     *)
(*                                                                         *)
(* A posting inserts its transactions rows after it has locked the account *)
(* rows (LedgerService.post flushes the UPDATE of the accounts before the  *)
(* INSERT): ids are drawn under the lock, created_at is the start of the   *)
(* database transaction.  One action of a reader stands for one SELECT or  *)
(* one S3 call; every SELECT sees what is committed by then.               *)
(*                                                                         *)
(* min_amount and max_amount bound the signed amount as direction does and *)
(* are left out; so are wording, layout and formats.                       *)
(***************************************************************************)
EXTENDS Integers, Sequences, FiniteSets, FiniteSetsExt, SequencesExt

CONSTANTS
  Accounts,  \* account ids; sorted() orders them
  Mine,      \* those of the subject who reads; the others are another's
  Writers,   \* postings
  Readers,   \* requests of the subject
  Loads,     \* which endpoint each of the requests calls, if any
  Moves,     \* source and destination of the postings in use
  Granted,   \* accounts that have received their welcome grant at the start
  Welcome,   \* amount of a grant
  Amount,    \* amount of each posting
  PageSize,  \* min(limit, 100)
  EXPORT_MAX_ROWS,
  Filters,   \* the filters in use; 0 and "any" stand for one that is not given
  MaxClock,    \* bound on the time
  MaxVersion   \* bound on the changes of a holder

NoAccount == 0

ASSUME StatementConstants ==
  /\ Accounts \subseteq Nat /\ NoAccount \notin Accounts /\ IsFiniteSet(Accounts)
  /\ Mine \cup Granted \subseteq Accounts /\ Mine # {} /\ Granted # {}
  /\ Loads \subseteq [Readers -> {"none", "list", "export", "receipt"}]
  /\ Moves \subseteq {m \in (Accounts \cup {NoAccount}) \X (Accounts \cup {NoAccount}) : m[1] # m[2]}
  /\ {Welcome, Amount, PageSize, EXPORT_MAX_ROWS, MaxClock} \subseteq Nat \ {0}
  /\ \A f \in Filters : /\ f.dir \in {"any", "in", "out"} /\ {f.from, f.to} \subseteq Nat
                        /\ f.kind \in {"any", "transfer", "grant", "withdraw"}
  /\ MaxVersion \in Nat

VARIABLES
  rows,     \* committed transactions
  seq,      \* the sequence of their ids
  clock,    \* now()
  wr,       \* state of each posting
  holder,   \* version of each subject's holders row
  store,    \* receipts in the S3 bucket, by their key
  enabled,  \* a bucket is configured
  rd        \* state of each reading request

vars == <<rows, seq, clock, wr, holder, store, enabled, rd>>

Owner(a) == IF a \in Mine THEN "me" ELSE "other"

Types == {"demo_grant", "withdraw", "transfer_in", "transfer_out"}
Row == [id : Nat, acct : Accounts, cp : Accounts \cup {NoAccount}, amt : Int, at : Nat,
        type : Types]

Of(a) == {r \in rows : r.acct = a}
Total(S) == MapThenSumSet(LAMBDA r : r.amt, S)

(***************************************************************************)
(* ORDER BY id and ORDER BY id DESC: the i-th row has i - 1 before it.     *)
(***************************************************************************)
OldestFirst(S) ==
  [i \in 1..Cardinality(S) |-> CHOOSE r \in S : Cardinality({s \in S : s.id < r.id}) = i - 1]
NewestFirst(S) ==
  [i \in 1..Cardinality(S) |-> CHOOSE r \in S : Cardinality({s \in S : s.id > r.id}) = i - 1]
Take(s, n) == IF Len(s) <= n THEN s ELSE SubSeq(s, 1, n)

NoFilter == [dir |-> "any", from |-> 0, to |-> 0, kind |-> "any"]
IdleWriter == [pc |-> "idle", src |-> NoAccount, dst |-> NoAccount, at |-> 0, rows |-> {}]
IdleReader ==
  [pc |-> "idle", op |-> "none", acct |-> NoAccount,
   filter |-> NoFilter,
   shown |-> <<>>,      \* rows the client has been given, or is about to
   opening |-> 0,       \* opening balance of the export
   tx |-> 0,            \* the transaction a receipt is asked for
   doc |-> <<>>,        \* the receipt: what it prints of the row and its parties,
   issued |-> 0]        \* and when it says it was issued

(***************************************************************************)
(* The granted accounts have one row each, of time 1.                      *)
(***************************************************************************)
Init ==
  /\ rows = {[id |-> a, acct |-> a, cp |-> NoAccount, amt |-> Welcome, at |-> 1,
              type |-> "demo_grant"] : a \in Granted}
  /\ seq = Max(Accounts) + 1
  /\ clock = 1
  /\ wr = [w \in Writers |-> IdleWriter]
  /\ holder = [o \in {"me", "other"} |-> 0]
  /\ store = {}
  /\ enabled \in BOOLEAN
  /\ \E load \in Loads : rd = [q \in Readers |-> [IdleReader EXCEPT !.op = load[q]]]

readers == <<holder, store, enabled, rd>>

-----------------------------------------------------------------------------
\* Time passes, for now() and for datetime.now().
Tick ==
  /\ clock < MaxClock
  /\ clock' = clock + 1
  /\ UNCHANGED <<rows, seq, wr, readers>>

(***************************************************************************)
(* A posting of a grant (no source), a withdrawal (no destination) or a    *)
(* transfer: begin, which fixes now(); lock the accounts; insert a row for *)
(* each line on a customer's account; commit.                              *)
(***************************************************************************)
BeginPosting(w) ==
  \E m \in Moves :
    /\ wr[w].pc = "idle"
    /\ wr' = [wr EXCEPT ![w].pc = "lock", ![w].src = m[1], ![w].dst = m[2], ![w].at = clock]
    /\ UNCHANGED <<rows, seq, clock, readers>>

Touched(w) == {wr[w].src, wr[w].dst} \ {NoAccount}
IsGranted(a) == \E r \in Of(a) : r.type = "demo_grant"
IsGrant(w) == wr[w].src = NoAccount

\* Fault: the row is inserted, and its id drawn, before the account is locked.
LockAccountsLate(w) ==
  /\ wr[w].pc = "lock"
  /\ \A a \in Touched(w) : IsGranted(a) <=> ~IsGrant(w)
  /\ wr' = [wr EXCEPT ![w].pc = "insert"]
  /\ UNCHANGED <<rows, seq, clock, readers>>

(***************************************************************************)
(* Transfers lock both rows, a grant its account; a withdrawal takes the   *)
(* row with its UPDATE, which post flushes before the INSERT.  Only ready  *)
(* accounts (which are granted) move money; an account is granted once.    *)
(***************************************************************************)
LockAccounts(w) ==
  /\ wr[w].pc = "lock"
  /\ \A v \in Writers : wr[v].pc \in {"insert", "commit"} => Touched(v) \cap Touched(w) = {}
  /\ \A a \in Touched(w) : IsGranted(a) <=> ~IsGrant(w)
  /\ wr' = [wr EXCEPT ![w].pc = "insert"]
  /\ UNCHANGED <<rows, seq, clock, readers>>

Line(w, i, a, c, m, y) ==
  [id |-> seq + i, acct |-> a, cp |-> c, amt |-> m, at |-> wr[w].at, type |-> y]

\* Fault: both mirrored rows of a transfer carry the debit's type.
TransferLinesOneType(w) ==
  {Line(w, 0, wr[w].src, wr[w].dst, 0 - Amount, "transfer_out"),
   Line(w, 1, wr[w].dst, wr[w].src, Amount, "transfer_out")}

(***************************************************************************)
(* The transactions post mirrors: a transfer has one on each account, each *)
(* with the other as its counterparty; sys_cash has none.                  *)
(***************************************************************************)
TransferLines(w) ==
  {Line(w, 0, wr[w].src, wr[w].dst, 0 - Amount, "transfer_out"),
   Line(w, 1, wr[w].dst, wr[w].src, Amount, "transfer_in")}

CashLines(w) ==
  {IF IsGrant(w) THEN Line(w, 0, wr[w].dst, NoAccount, Welcome, "demo_grant")
                 ELSE Line(w, 0, wr[w].src, NoAccount, 0 - Amount, "withdraw")}

Lines(w) == IF NoAccount \in {wr[w].src, wr[w].dst} THEN CashLines(w) ELSE TransferLines(w)

InsertRows(w) ==
  /\ wr[w].pc = "insert"
  /\ wr' = [wr EXCEPT ![w].pc = "commit", ![w].rows = Lines(w)]
  /\ seq' = seq + Cardinality(Lines(w))
  /\ UNCHANGED <<rows, clock, readers>>

CommitPosting(w) ==
  /\ wr[w].pc = "commit"
  /\ rows' = rows \cup wr[w].rows
  /\ wr' = [wr EXCEPT ![w] = [IdleWriter EXCEPT !.pc = "done"]]
  /\ UNCHANGED <<seq, clock, readers>>

(***************************************************************************)
(* A refusal or rollback takes the rows back and leaves a gap in the ids.  *)
(***************************************************************************)
AbortPosting(w) ==
  /\ wr[w].pc \in {"lock", "insert", "commit"}
  /\ wr' = [wr EXCEPT ![w] = [IdleWriter EXCEPT !.pc = "done"]]
  /\ UNCHANGED <<rows, seq, clock, readers>>

(***************************************************************************)
(* onboarding/complete overwrites the subject's name and document.         *)
(***************************************************************************)
ChangeHolder(o) ==
  /\ holder[o] < MaxVersion
  /\ holder' = [holder EXCEPT ![o] = @ + 1]
  /\ UNCHANGED <<rows, seq, clock, wr, store, enabled, rd>>

-----------------------------------------------------------------------------
ledger == <<rows, seq, clock, wr, holder, enabled>>

Read(q, v) == rd' = [rd EXCEPT ![q] = v] /\ UNCHANGED <<ledger, store>>

(***************************************************************************)
(* _resolve_owned_checking: the account asked for, or the subject's first  *)
(* one.  An account of somebody else is refused.                           *)
(***************************************************************************)
Resolved(a) == IF a = NoAccount THEN Min(Mine) ELSE a

BeginReading(q) ==
  \E a \in Accounts \cup {NoAccount}, f \in Filters :
    /\ rd[q].op \in {"list", "export"} /\ rd[q].pc = "idle"
    /\ Read(q, [rd[q] EXCEPT !.acct = Resolved(a), !.filter = f,
                !.pc = IF Resolved(a) \in Mine THEN rd[q].op ELSE "refused"])

(***************************************************************************)
(* _types_for_filter, on the types the ledger emits.                       *)
(***************************************************************************)
TypesForFilter(kind) ==
  CASE kind = "transfer" -> {"transfer_in", "transfer_out"}
    [] kind = "grant"    -> {"demo_grant"}
    [] kind = "withdraw" -> {"withdraw"}
    [] OTHER             -> Types

Matches(r, f) ==
  /\ f.from # 0 => r.at >= f.from
  /\ f.to # 0 => r.at < f.to
  /\ r.type \in TypesForFilter(f.kind)
  /\ f.dir = "in" => r.amt >= 0
  /\ f.dir = "out" => r.amt < 0

Selected(q) == {r \in Of(rd[q].acct) : Matches(r, rd[q].filter)}

(***************************************************************************)
(* list_transactions: the newest rows below the cursor.  The client walks  *)
(* from next_cursor to next_cursor until a page is empty.                  *)
(***************************************************************************)
Page(q) ==
  LET seen == rd[q].shown
      after == {r \in Selected(q) : seen # <<>> => r.id < Last(seen).id}
  IN  Take(NewestFirst(after), PageSize)

ListPage(q) ==
  /\ rd[q].pc = "list"
  /\ Read(q, [rd[q] EXCEPT !.shown = @ \o Page(q),
                           !.pc = IF Page(q) = <<>> THEN "done" ELSE @])

(***************************************************************************)
(* export_statement: the rows, oldest first and at most EXPORT_MAX_ROWS;   *)
(* then, in a statement of its own, the opening balance.                   *)
(***************************************************************************)
ExportRows(q) ==
  /\ rd[q].pc = "export"
  /\ Read(q, [rd[q] EXCEPT !.shown = Take(OldestFirst(Selected(q)), EXPORT_MAX_ROWS),
                           !.pc = "opening"])

OpeningTime(q) ==
  IF rd[q].filter.from # 0 THEN rd[q].filter.from
  ELSE IF rd[q].shown # <<>> THEN rd[q].shown[1].at ELSE 0

\* Fault: the bound is inclusive.
SumAmountThrough(a, before) == Total({r \in Of(a) : r.at <= before})

SumAmountBefore(a, before) == Total({r \in Of(a) : r.at < before})

ExportOpening(q) ==
  /\ rd[q].pc = "opening"
  /\ Read(q, [rd[q] EXCEPT !.opening = SumAmountBefore(rd[q].acct, OpeningTime(q)), !.pc = "done"])

(***************************************************************************)
(* present_transaction: the direction shown with a row.                    *)
(***************************************************************************)
Direction(r) ==
  IF r.type \in {"demo_grant", "transfer_in"} /\ r.amt >= 0 THEN "in" ELSE "out"

(***************************************************************************)
(* The documents: each line with the running balance after it; the PDF     *)
(* also states the opening and the closing balance.                        *)
(***************************************************************************)
Running(q, i) == rd[q].opening + FoldLeft(LAMBDA x, r : x + r.amt, 0, SubSeq(rd[q].shown, 1, i))

StatementCsv(q) ==
  [i \in 1..Len(rd[q].shown) |->
     [tx |-> rd[q].shown[i].id, amount |-> rd[q].shown[i].amt,
      direction |-> Direction(rd[q].shown[i]), balance_after |-> Running(q, i)]]

StatementPdf(q) ==
  [opening |-> rd[q].opening, closing |-> Running(q, Len(rd[q].shown)), lines |-> StatementCsv(q)]

-----------------------------------------------------------------------------
(***************************************************************************)
(* get_transaction: the row, which must be the subject's; the counterparty *)
(* with its holder; then, in another SELECT, the subject's own holder.     *)
(***************************************************************************)
Party(a) ==
  IF a = NoAccount THEN [acct |-> a, holder |-> 0]
  ELSE [acct |-> a, holder |-> holder[Owner(a)]]

LoadTransaction(q) ==
  \E r \in rows :
    /\ rd[q].op = "receipt" /\ rd[q].pc = "idle"
    /\ Read(q, [rd[q] EXCEPT
                !.acct = r.acct, !.tx = r.id, !.doc = <<Party(r.cp)>>,
                !.pc = IF r.acct \in Mine THEN "parties" ELSE "refused"])

(***************************************************************************)
(* _parties_for: origin and destination, by the sign of the amount.        *)
(***************************************************************************)
Parties(r, own, other) == IF r.amt >= 0 THEN <<other, own>> ELSE <<own, other>>

\* Fault: the receipt prints the account's balance for the row's amount.
ReceiptOfBalance(r, own, other) ==
  LET p == Parties(r, own, other)
  IN  [tx |-> r.id, amt |-> Total(Of(r.acct)), origin |-> p[1], destination |-> p[2]]

(***************************************************************************)
(* What build_receipt_pdf prints of the row and its parties; it adds the   *)
(* time at which it is called (Now).                                       *)
(***************************************************************************)
Receipt(r, own, other) ==
  LET p == Parties(r, own, other)
  IN  [tx |-> r.id, amt |-> r.amt, origin |-> p[1], destination |-> p[2]]

Now == clock

(***************************************************************************)
(* Without a bucket the document is built at once.                         *)
(***************************************************************************)
LoadParties(q) ==
  \E r \in rows :
    /\ rd[q].pc = "parties"
    /\ r.id = rd[q].tx
    /\ Read(q, [rd[q] EXCEPT !.doc = <<Receipt(r, Party(r.acct), rd[q].doc[1])>>,
                             !.issued = IF enabled THEN @ ELSE Now,
                             !.pc = IF enabled THEN "get" ELSE "done"])

\* Fault: the object's name lacks the transaction.
receipt_key_per_account(a, tx) == <<a, 0>>

receipt_key(a, tx) == <<a, tx>>

KeyOf(q) == receipt_key(rd[q].acct, rd[q].tx)

(***************************************************************************)
(* BankPDFStore.get and put; either call may raise.  A document found is   *)
(* served as it is; otherwise one is built and stored over any other.      *)
(***************************************************************************)
S3Get(q) ==
  /\ rd[q].pc = "get"
  /\ \/ \E e \in store :
          /\ e.key = KeyOf(q)
          /\ Read(q, [rd[q] EXCEPT !.doc = <<e.doc>>, !.issued = e.issued, !.pc = "done"])
     \/ /\ \A e \in store : e.key # KeyOf(q)
        /\ Read(q, [rd[q] EXCEPT !.issued = Now, !.pc = "put"])
     \/ Read(q, [rd[q] EXCEPT !.pc = "failed"])

S3Put(q) ==
  /\ rd[q].pc = "put"
  /\ \/ /\ store' = {e \in store : e.key # KeyOf(q)}
                     \cup {[key |-> KeyOf(q), doc |-> rd[q].doc[1], issued |-> rd[q].issued]}
        /\ rd' = [rd EXCEPT ![q].pc = "done"]
        /\ UNCHANGED ledger
     \/ Read(q, [rd[q] EXCEPT !.pc = "failed"])

-----------------------------------------------------------------------------
Next ==
  \/ \E w \in Writers :
       BeginPosting(w) \/ LockAccounts(w) \/ InsertRows(w) \/ CommitPosting(w) \/ AbortPosting(w)
  \/ Tick
  \/ \E o \in {"me", "other"} : ChangeHolder(o)
  \/ \E q \in Readers :
       \/ BeginReading(q) \/ ListPage(q) \/ ExportRows(q) \/ ExportOpening(q)
       \/ LoadTransaction(q) \/ LoadParties(q) \/ S3Get(q) \/ S3Put(q)

Spec == Init /\ [][Next]_vars

-----------------------------------------------------------------------------
(***************************************************************************)
(* Every row, committed or pending, is of a customer's account and of a    *)
(* type post emits, and requests are at one of their statements.           *)
(***************************************************************************)
TypeOK ==
  /\ rows \subseteq Row
  /\ seq \in Nat /\ clock \in 1..MaxClock
  /\ \A w \in Writers :
       /\ wr[w].pc \in {"idle", "lock", "insert", "commit", "done"}
       /\ {wr[w].src, wr[w].dst} \subseteq Accounts \cup {NoAccount}
       /\ wr[w].rows \subseteq Row
  /\ \A q \in Readers :
       /\ rd[q].pc \in {"idle", "list", "export", "opening", "parties", "get", "put",
                        "done", "refused", "failed"}
       /\ Range(rd[q].shown) \subseteq Row
  /\ holder \in [{"me", "other"} -> 0..MaxVersion]
  /\ enabled \in BOOLEAN

Done(q, op) == rd[q].op = op /\ rd[q].pc = "done"

(***************************************************************************)
(* However postings commit between the pages of GET /me/transactions, the  *)
(* walk shows, newest first and once each, every matching row committed so *)
(* far that is not newer than its first: no row appears above a cursor     *)
(* that has passed it, since ids are drawn under the account's lock.       *)
(***************************************************************************)
WalkGapless ==
  \A q \in Readers :
    rd[q].op = "list" /\ rd[q].shown # <<>> =>
      LET s == rd[q].shown IN
      /\ \A i \in 1..Len(s) - 1 : s[i].id > s[i + 1].id
      /\ Range(s) = {r \in Selected(q) : /\ r.id <= s[1].id
                                         /\ Done(q, "list") \/ r.id >= Last(s).id}

(***************************************************************************)
(* A walk or an export filtered by direction shows rows that the client is *)
(* told have that direction: the filter uses the sign, the presentation    *)
(* the type that post gave the mirrored row.                               *)
(***************************************************************************)
DirectionAgrees ==
  \A q \in Readers : \A r \in Range(rd[q].shown) :
    rd[q].filter.dir # "any" => Direction(r) = rd[q].filter.dir

InOrder(S) == \A r, s \in S : r.id < s.id => r.at <= s.at

(***************************************************************************)
(* When the account's rows bear times in the order of their ids, every     *)
(* balance_after of an export by dates, capped or not, and the closing     *)
(* balance, is the sum of the rows up to that line, although rows and      *)
(* opening balance are read by two statements between which postings       *)
(* commit.                                                                 *)
(***************************************************************************)
ExportExact ==
  \A q \in Readers :
    /\ Done(q, "export")
    /\ rd[q].filter.dir = "any" /\ rd[q].filter.kind = "any"
    /\ InOrder(Of(rd[q].acct))
    /\ rd[q].shown # <<>>
    => LET pdf == StatementPdf(q)
           Upto(i) == Total({r \in Of(rd[q].acct) : r.id <= rd[q].shown[i].id})
       IN  /\ \A i \in 1..Len(pdf.lines) : pdf.lines[i].balance_after = Upto(i)
           /\ pdf.closing = Upto(Len(pdf.lines))

(***************************************************************************)
(* sum_amount_before is "strictly before (opening balance helper)": no row *)
(* an export lists is already counted in its opening balance.  It is when  *)
(* a posting that began before the account's first one is inserted after.  *)
(***************************************************************************)
OpeningExcludesRows ==
  \A q \in Readers : \A i \in 1..Len(rd[q].shown) :
    Done(q, "export") => rd[q].shown[i].at >= OpeningTime(q)

Receipts == {q \in Readers : Done(q, "receipt")}
DocOf(q) == rd[q].doc[1]

(***************************************************************************)
(* A receipt, from the bucket or not, is of the transaction asked for, on  *)
(* an account of the subject, with its amount and the account of its row   *)
(* among its parties; and the receipts of the two sides of one transfer    *)
(* name the same origin and the same destination.                          *)
(***************************************************************************)
ReceiptsMatchRows ==
  /\ \A q \in Receipts : \E r \in rows :
       /\ r.id = rd[q].tx /\ r.acct \in Mine
       /\ DocOf(q).tx = r.id /\ DocOf(q).amt = r.amt
       /\ r.acct \in {DocOf(q).origin.acct, DocOf(q).destination.acct}
  /\ \A p, q \in Receipts : \A r, s \in rows :
       r.id = rd[p].tx /\ s.id = rd[q].tx /\ r.cp = s.acct /\ s.cp = r.acct /\ s.id = r.id + 1
         => /\ DocOf(p).origin.acct = DocOf(q).origin.acct
            /\ DocOf(p).destination.acct = DocOf(q).destination.acct

(***************************************************************************)
(* Two receipts of one transaction differ in nothing but the time of their *)
(* issue, whichever calls of the bucket failed and whichever requests      *)
(* stored it, unless the holder of one of its parties was overwritten.     *)
(* "receipts are immutable per tx" (export_statement) is true of no more:  *)
(* each one built says when.                                               *)
(***************************************************************************)
ReceiptsAgreeUnlessRenamed ==
  \A p, q \in Receipts :
    rd[p].tx = rd[q].tx =>
      \/ DocOf(p) = DocOf(q)
      \/ \E a \in {DocOf(p).origin.acct, DocOf(p).destination.acct} \ {NoAccount} :
           holder[Owner(a)] > 0
=============================================================================
