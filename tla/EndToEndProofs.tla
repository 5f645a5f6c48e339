--------------------------- MODULE EndToEndProofs ---------------------------
(***************************************************************************)
(* Proofs about Idempotency, for any sets of keys and requests, for either *)
(* order of commit and reply, and for any TTLs that elapse; and about the *)
(* system composed of it and Ledger, for any calls, subjects, accounts and *)
(* requests.                                                               *)
(***************************************************************************)
EXTENDS EndToEnd, TLAPS

(***************************************************************************)
(* Idempotency.                                                            *)
(*                                                                         *)
(* SingleRunUnlessLapsed is not inductive: what excludes a second request  *)
(* is that the first still owns the record, which the code never checks.   *)
(* Hold states it.  AnswersAgree rests on Cached (what a completed record  *)
(* says of its request) and Current (a successful answer is still the one  *)
(* in the record).                                                         *)
(***************************************************************************)

(***************************************************************************)
(* Where a request is determines what it can have done so far.             *)
(***************************************************************************)
Control ==
  \A r \in Requests :
    /\ pc[r] = "idle" => key[r] = None
    /\ pc[r] \in {"idle", "check", "acquire", "handler"} => tx[r] = "none"
    /\ pc[r] = "save" => tx[r] \in Replied
    /\ pc[r] # "done" => answer[r] = "none"

(***************************************************************************)
(* An engaged request whose key has not lapsed owns the record.            *)
(***************************************************************************)
Hold ==
  \A r \in Requests :
    Engaged(r) /\ key[r] \in Keys \ lapsed
      => record[key[r]] # None /\ record[key[r]].by = r

(***************************************************************************)
(* A completed record is the response of a finished request with its key.  *)
(***************************************************************************)
Cached ==
  \A k \in Keys :
    record[k] # None /\ record[k].status = "completed" =>
      /\ pc[record[k].by] \in {"done", "dead"}
      /\ key[record[k].by] = k
      /\ tx[record[k].by] \in Replied

(***************************************************************************)
(* A successful answer is the response in the record of its key.           *)
(***************************************************************************)
Current ==
  \A r \in Requests :
    answer[r] = "ok" /\ key[r] \in Keys \ lapsed =>
      /\ record[key[r]] # None
      /\ record[key[r]].status = "completed"
      /\ record[key[r]].by = body[r]

IInv == TypeOK /\ Control /\ Hold /\ Cached /\ OkIsEffective /\ Current

(***************************************************************************)
(* The initial state satisfies the inductive invariant.                    *)
(***************************************************************************)
LEMMA InitIInv == Init => IInv
BY IdempotencyConstants
DEF Init, IInv, TypeOK, Control, Hold, Cached, Current, OkIsEffective, Engaged,
    PCs, Answers

(***************************************************************************)
(* Every step preserves the types.                                         *)
(***************************************************************************)
LEMMA TypeStep == TypeOK /\ Control /\ [Next]_vars => TypeOK'
<1> SUFFICES ASSUME TypeOK, Control, [Next]_vars PROVE TypeOK'
  OBVIOUS
<1> USE IdempotencyConstants DEF TypeOK, PCs, Answers, Record, RecordStates, Goto, Answer, SetRecord
<1>1. CASE UNCHANGED vars
  BY <1>1 DEF vars
<1>2. ASSUME NEW r \in Requests, Arrive(r) \/ Skip(r) \/ Settle(r) \/ Crash(r) PROVE TypeOK'
  <2>1. CASE Arrive(r)  BY <2>1 DEF Arrive
  <2>2. CASE Skip(r)  BY <2>2 DEF Skip
  <2>3. CASE Settle(r)  BY <2>3 DEF Settle
  <2>4. CASE Crash(r)  BY <2>4 DEF Crash
  <2> QED  BY <1>2, <2>1, <2>2, <2>3, <2>4
<1>3. ASSUME NEW r \in Requests, Check(r) \/ Acquire(r) \/ AcquireUnanswered(r) \/ StorageError(r)
      PROVE TypeOK'
  <2>1. CASE Check(r)  BY <2>1 DEF Check
  <2>2. CASE Acquire(r)  BY <2>2 DEF Acquire
  <2>3. CASE AcquireUnanswered(r)  BY <2>3 DEF AcquireUnanswered
  <2>4. CASE StorageError(r)  BY <2>4 DEF StorageError
  <2> QED  BY <1>3, <2>1, <2>2, <2>3, <2>4
<1>4. ASSUME NEW r \in Requests, Reply(r) \/ Raise(r) \/ Save(r) \/ Clear(r) PROVE TypeOK'
  <2>1. CASE Reply(r)  BY <2>1 DEF Reply
  <2>2. CASE Raise(r)  BY <2>2 DEF Raise
  <2>3. CASE Save(r)  BY <2>3 DEF Save
  <2>4. CASE Clear(r)  BY <2>4 DEF Clear
  <2> QED  BY <1>4, <2>1, <2>2, <2>3, <2>4
<1>5. ASSUME NEW k \in Keys, Expire(k) PROVE TypeOK'
  BY <1>5 DEF Expire, Expirable
<1> QED  BY <1>1, <1>2, <1>3, <1>4, <1>5 DEF Next, Step

(***************************************************************************)
(* Every step preserves the control of the requests.                       *)
(***************************************************************************)
LEMMA ControlStep == TypeOK /\ Control /\ [Next]_vars => Control'
<1> SUFFICES ASSUME TypeOK, Control, [Next]_vars PROVE Control'
  OBVIOUS
<1> USE DEF TypeOK, Control, Replied, Goto, Answer
<1>1. CASE UNCHANGED vars
  BY <1>1 DEF vars
<1>2. ASSUME NEW r \in Requests, Arrive(r) \/ Skip(r) \/ Settle(r) \/ Crash(r) PROVE Control'
  <2>1. CASE Arrive(r)  BY <2>1 DEF Arrive
  <2>2. CASE Skip(r)  BY <2>2 DEF Skip
  <2>3. CASE Settle(r)  BY <2>3 DEF Settle
  <2>4. CASE Crash(r)  BY <2>4 DEF Crash, Running
  <2> QED  BY <1>2, <2>1, <2>2, <2>3, <2>4
<1>3. ASSUME NEW r \in Requests, Check(r) \/ Acquire(r) \/ AcquireUnanswered(r) \/ StorageError(r)
      PROVE Control'
  <2>1. CASE Check(r)  BY <2>1 DEF Check
  <2>2. CASE Acquire(r)  BY <2>2 DEF Acquire
  <2>3. CASE AcquireUnanswered(r)  BY <2>3 DEF AcquireUnanswered
  <2>4. CASE StorageError(r)  BY <2>4 DEF StorageError
  <2> QED  BY <1>3, <2>1, <2>2, <2>3, <2>4
<1>4. ASSUME NEW r \in Requests, Reply(r) \/ Raise(r) \/ Save(r) \/ Clear(r) PROVE Control'
  <2>1. CASE Reply(r)
    <3>1. PICK o \in CommitOrders :
            tx' = [tx EXCEPT ![r] = IF o = "before" THEN "committed" ELSE "open"]
      BY <2>1 DEF Reply
    <3>2. tx'[r] \in Replied /\ \A s \in Requests \ {r} : tx'[s] = tx[s]
      BY <3>1, IdempotencyConstants
    <3>3. key' = key /\ pc[r] = "handler" /\ tx[r] = "none"
      BY <2>1 DEF Reply
    <3>4. \/ pc' = [pc EXCEPT ![r] = "save"] /\ answer' = answer
          \/ pc' = [pc EXCEPT ![r] = "done"] /\ answer' = [answer EXCEPT ![r] = "ok"]
      BY <2>1 DEF Reply
    <3> HIDE DEF Replied
    <3> QED
      BY <3>2, <3>3, <3>4
  <2>2. CASE Raise(r)  BY <2>2 DEF Raise
  <2>3. CASE Save(r)  BY <2>3 DEF Save
  <2>4. CASE Clear(r)  BY <2>4 DEF Clear
  <2> QED  BY <1>4, <2>1, <2>2, <2>3, <2>4
<1>5. ASSUME NEW k \in Keys, Expire(k) PROVE Control'
  BY <1>5 DEF Expire
<1> QED  BY <1>1, <1>2, <1>3, <1>4, <1>5 DEF Next, Step

(***************************************************************************)
(* Every step preserves the ownership of records: SET NX takes a record    *)
(* only where there is none, and a record is deleted only by its owner or  *)
(* with its key lapsing.                                                   *)
(***************************************************************************)
LEMMA HoldStep == TypeOK /\ Control /\ Hold /\ [Next]_vars => Hold'
<1> SUFFICES ASSUME TypeOK, Control, Hold, [Next]_vars PROVE Hold'
  OBVIOUS
<1> USE IdempotencyConstants
    DEF TypeOK, Control, Hold, Engaged, Record, RecordStates, Goto, Answer, SetRecord
<1>1. CASE UNCHANGED vars
  BY <1>1 DEF vars
<1>2. ASSUME NEW r \in Requests, Arrive(r) \/ Skip(r) \/ Settle(r) \/ Crash(r) PROVE Hold'
  <2>1. CASE Arrive(r)  BY <2>1 DEF Arrive
  <2>2. CASE Skip(r)  BY <2>2 DEF Skip
  <2>3. CASE Settle(r)  BY <2>3 DEF Settle
  <2>4. CASE Crash(r)  BY <2>4 DEF Crash, Running
  <2> QED  BY <1>2, <2>1, <2>2, <2>3, <2>4
<1>3. ASSUME NEW r \in Requests, Check(r) \/ Acquire(r) \/ AcquireUnanswered(r) \/ StorageError(r)
      PROVE Hold'
  <2>1. CASE Check(r)  BY <2>1 DEF Check
  <2>2. CASE Acquire(r)  BY <2>2 DEF Acquire
  <2>3. CASE AcquireUnanswered(r)  BY <2>3 DEF AcquireUnanswered
  <2>4. CASE StorageError(r)  BY <2>4 DEF StorageError
  <2> QED  BY <1>3, <2>1, <2>2, <2>3, <2>4
<1>4. ASSUME NEW r \in Requests, Reply(r) \/ Raise(r) \/ Save(r) \/ Clear(r) PROVE Hold'
  <2>1. CASE Reply(r)  BY <2>1 DEF Reply
  <2>2. CASE Raise(r)  BY <2>2 DEF Raise
  <2>3. CASE Save(r)  BY <2>3 DEF Save
  <2>4. CASE Clear(r)  BY <2>4 DEF Clear
  <2> QED  BY <1>4, <2>1, <2>2, <2>3, <2>4
<1>5. ASSUME NEW k \in Keys, Expire(k) PROVE Hold'
  BY <1>5 DEF Expire
<1> QED  BY <1>1, <1>2, <1>3, <1>4, <1>5 DEF Next, Step

(***************************************************************************)
(* Every step preserves what completed records say of their requests.      *)
(***************************************************************************)
LEMMA CachedStep == TypeOK /\ Control /\ Cached /\ [Next]_vars => Cached'
<1> SUFFICES ASSUME TypeOK, Control, Cached, [Next]_vars PROVE Cached'
  OBVIOUS
<1> USE IdempotencyConstants
    DEF TypeOK, Control, Cached, Replied, Record, RecordStates, Goto, Answer, SetRecord
<1>1. CASE UNCHANGED vars
  BY <1>1 DEF vars
<1>2. ASSUME NEW r \in Requests, Arrive(r) \/ Skip(r) \/ Settle(r) \/ Crash(r) PROVE Cached'
  <2>1. CASE Arrive(r)  BY <2>1 DEF Arrive
  <2>2. CASE Skip(r)  BY <2>2 DEF Skip
  <2>3. CASE Settle(r)  BY <2>3 DEF Settle
  <2>4. CASE Crash(r)  BY <2>4 DEF Crash, Running
  <2> QED  BY <1>2, <2>1, <2>2, <2>3, <2>4
<1>3. ASSUME NEW r \in Requests, Check(r) \/ Acquire(r) \/ AcquireUnanswered(r) \/ StorageError(r)
      PROVE Cached'
  <2>1. CASE Check(r)  BY <2>1 DEF Check
  <2>2. CASE Acquire(r)  BY <2>2 DEF Acquire
  <2>3. CASE AcquireUnanswered(r)  BY <2>3 DEF AcquireUnanswered
  <2>4. CASE StorageError(r)  BY <2>4 DEF StorageError
  <2> QED  BY <1>3, <2>1, <2>2, <2>3, <2>4
<1>4. ASSUME NEW r \in Requests, Reply(r) \/ Raise(r) \/ Save(r) \/ Clear(r) PROVE Cached'
  <2>1. CASE Reply(r)  BY <2>1 DEF Reply
  <2>2. CASE Raise(r)  BY <2>2 DEF Raise
  <2>3. CASE Save(r)  BY <2>3 DEF Save
  <2>4. CASE Clear(r)  BY <2>4 DEF Clear
  <2> QED  BY <1>4, <2>1, <2>2, <2>3, <2>4
<1>5. ASSUME NEW k \in Keys, Expire(k) PROVE Cached'
  BY <1>5 DEF Expire
<1> QED  BY <1>1, <1>2, <1>3, <1>4, <1>5 DEF Next, Step

(***************************************************************************)
(* Every step preserves that a successful answer is the response of a      *)
(* request that took effect.                                               *)
(***************************************************************************)
LEMMA OkStep == TypeOK /\ Control /\ Cached /\ OkIsEffective /\ [Next]_vars => OkIsEffective'
<1> SUFFICES ASSUME TypeOK, Control, Cached, OkIsEffective, [Next]_vars PROVE OkIsEffective'
  OBVIOUS
<1> USE IdempotencyConstants
    DEF TypeOK, Control, Cached, OkIsEffective, Replied, Record, RecordStates, Goto, Answer, SetRecord
<1>1. CASE UNCHANGED vars
  BY <1>1 DEF vars
<1>2. ASSUME NEW r \in Requests, Arrive(r) \/ Skip(r) \/ Settle(r) \/ Crash(r)
      PROVE OkIsEffective'
  <2>1. CASE Arrive(r)  BY <2>1 DEF Arrive
  <2>2. CASE Skip(r)  BY <2>2 DEF Skip
  <2>3. CASE Settle(r)  BY <2>3 DEF Settle
  <2>4. CASE Crash(r)  BY <2>4 DEF Crash, Running
  <2> QED  BY <1>2, <2>1, <2>2, <2>3, <2>4
<1>3. ASSUME NEW r \in Requests, Check(r) \/ Acquire(r) \/ AcquireUnanswered(r) \/ StorageError(r)
      PROVE OkIsEffective'
  <2>1. CASE Check(r)  BY <2>1 DEF Check
  <2>2. CASE Acquire(r)  BY <2>2 DEF Acquire
  <2>3. CASE AcquireUnanswered(r)  BY <2>3 DEF AcquireUnanswered
  <2>4. CASE StorageError(r)  BY <2>4 DEF StorageError
  <2> QED  BY <1>3, <2>1, <2>2, <2>3, <2>4
<1>4. ASSUME NEW r \in Requests, Reply(r) \/ Raise(r) \/ Save(r) \/ Clear(r)
      PROVE OkIsEffective'
  <2>1. CASE Reply(r)  BY <2>1 DEF Reply
  <2>2. CASE Raise(r)  BY <2>2 DEF Raise
  <2>3. CASE Save(r)  BY <2>3 DEF Save
  <2>4. CASE Clear(r)  BY <2>4 DEF Clear
  <2> QED  BY <1>4, <2>1, <2>2, <2>3, <2>4
<1>5. ASSUME NEW k \in Keys, Expire(k) PROVE OkIsEffective'
  BY <1>5 DEF Expire
<1> QED  BY <1>1, <1>2, <1>3, <1>4, <1>5 DEF Next, Step

(***************************************************************************)
(* Every step preserves that a successful answer is the one in the record: *)
(* who would overwrite or delete it owns it, and has then finished.        *)
(***************************************************************************)
LEMMA CurrentStep == TypeOK /\ Control /\ Hold /\ Cached /\ Current /\ [Next]_vars => Current'
<1> SUFFICES ASSUME TypeOK, Control, Hold, Cached, Current, [Next]_vars PROVE Current'
  OBVIOUS
<1> USE IdempotencyConstants
    DEF TypeOK, Control, Hold, Engaged, Cached, Current, Record, RecordStates, Goto, Answer, SetRecord
<1>1. CASE UNCHANGED vars
  BY <1>1 DEF vars
<1>2. ASSUME NEW r \in Requests, Arrive(r) \/ Skip(r) \/ Settle(r) \/ Crash(r)
      PROVE Current'
  <2>1. CASE Arrive(r)  BY <2>1 DEF Arrive
  <2>2. CASE Skip(r)  BY <2>2 DEF Skip
  <2>3. CASE Settle(r)  BY <2>3 DEF Settle
  <2>4. CASE Crash(r)  BY <2>4 DEF Crash, Running
  <2> QED  BY <1>2, <2>1, <2>2, <2>3, <2>4
<1>3. ASSUME NEW r \in Requests, Check(r) \/ Acquire(r) \/ AcquireUnanswered(r) \/ StorageError(r)
      PROVE Current'
  <2>1. CASE Check(r)  BY <2>1 DEF Check
  <2>2. CASE Acquire(r)  BY <2>2 DEF Acquire
  <2>3. CASE AcquireUnanswered(r)  BY <2>3 DEF AcquireUnanswered
  <2>4. CASE StorageError(r)  BY <2>4 DEF StorageError
  <2> QED  BY <1>3, <2>1, <2>2, <2>3, <2>4
<1>4. ASSUME NEW r \in Requests, Reply(r) \/ Raise(r) \/ Save(r) \/ Clear(r)
      PROVE Current'
  <2>1. CASE Reply(r)  BY <2>1 DEF Reply
  <2>2. CASE Raise(r)  BY <2>2 DEF Raise
  <2>3. CASE Save(r)  BY <2>3 DEF Save
  <2>4. CASE Clear(r)  BY <2>4 DEF Clear
  <2> QED  BY <1>4, <2>1, <2>2, <2>3, <2>4
<1>5. ASSUME NEW k \in Keys, Expire(k) PROVE Current'
  BY <1>5 DEF Expire
<1> QED  BY <1>1, <1>2, <1>3, <1>4, <1>5 DEF Next, Step

(***************************************************************************)
(* The inductive invariant is preserved by every step.                     *)
(***************************************************************************)
LEMMA StepIInv == IInv /\ [Next]_vars => IInv'
BY TypeStep, ControlStep, HoldStep, CachedStep, OkStep, CurrentStep DEF IInv

(***************************************************************************)
(* The inductive invariant holds in every reachable state of the           *)
(* middleware.                                                             *)
(***************************************************************************)
THEOREM Inductive == Spec => []IInv
BY InitIInv, StepIInv, PTL DEF Spec

(***************************************************************************)
(* The middleware's state always has its type.                             *)
(***************************************************************************)
THEOREM TypeCorrect == Spec => []TypeOK
<1>1. IInv => TypeOK  BY DEF IInv
<1> QED  BY <1>1, Inductive, PTL

(***************************************************************************)
(* Two requests with one key are never both run by dispatch while the key  *)
(* has not lapsed.                                                         *)
(***************************************************************************)
THEOREM SingleRun == Spec => []SingleRunUnlessLapsed
<1>1. IInv => SingleRunUnlessLapsed
  BY DEF IInv, Hold, SingleRunUnlessLapsed
<1> QED  BY <1>1, Inductive, PTL

(***************************************************************************)
(* dispatch answers with success only for a request that took effect.      *)
(***************************************************************************)
THEOREM OkEffective == Spec => []OkIsEffective
<1>1. IInv => OkIsEffective  BY DEF IInv
<1> QED  BY <1>1, Inductive, PTL

(***************************************************************************)
(* _cached_response replays the response the first request was given.      *)
(***************************************************************************)
THEOREM RepliesAgree == Spec => []AnswersAgree
<1>1. IInv => AnswersAgree
  BY DEF IInv, Current, AnswersAgree
<1> QED  BY <1>1, Inductive, PTL

(***************************************************************************)
(* A record is of a request with its key; a refused request has none.      *)
(***************************************************************************)
Owned ==
  /\ \A k \in Keys : record[k] # None => key[record[k].by] = k
  /\ RefusedHoldsNoKey

(***************************************************************************)
(* A record is written by a running request under its own key, and a       *)
(* refusal is answered with the deletion of that key's record.             *)
(***************************************************************************)
LEMMA OwnedStep == TypeOK /\ Control /\ Owned /\ [Next]_vars => Owned'
<1> SUFFICES ASSUME TypeOK, Control, Owned, [Next]_vars PROVE Owned'
  OBVIOUS
<1> USE IdempotencyConstants
    DEF TypeOK, Control, Owned, RefusedHoldsNoKey, Record, RecordStates, Goto, Answer, SetRecord
<1>1. CASE UNCHANGED vars
  BY <1>1 DEF vars
<1>2. ASSUME NEW r \in Requests, Arrive(r) \/ Skip(r) \/ Settle(r) \/ Crash(r) PROVE Owned'
  <2>1. CASE Arrive(r)  BY <2>1 DEF Arrive
  <2>2. CASE Skip(r)  BY <2>2 DEF Skip
  <2>3. CASE Settle(r)  BY <2>3 DEF Settle
  <2>4. CASE Crash(r)  BY <2>4 DEF Crash, Running
  <2> QED  BY <1>2, <2>1, <2>2, <2>3, <2>4
<1>3. ASSUME NEW r \in Requests, Check(r) \/ Acquire(r) \/ AcquireUnanswered(r) \/ StorageError(r)
      PROVE Owned'
  <2>1. CASE Check(r)  BY <2>1 DEF Check
  <2>2. CASE Acquire(r)  BY <2>2 DEF Acquire
  <2>3. CASE AcquireUnanswered(r)  BY <2>3 DEF AcquireUnanswered
  <2>4. CASE StorageError(r)  BY <2>4 DEF StorageError
  <2> QED  BY <1>3, <2>1, <2>2, <2>3, <2>4
<1>4. ASSUME NEW r \in Requests, Reply(r) \/ Raise(r) \/ Save(r) \/ Clear(r) PROVE Owned'
  <2>1. CASE Reply(r)  BY <2>1 DEF Reply
  <2>2. CASE Raise(r)  BY <2>2 DEF Raise
  <2>3. CASE Save(r)  BY <2>3 DEF Save
  <2>4. CASE Clear(r)  BY <2>4 DEF Clear
  <2> QED  BY <1>4, <2>1, <2>2, <2>3, <2>4
<1>5. ASSUME NEW k \in Keys, Expire(k) PROVE Owned'
  BY <1>5 DEF Expire
<1> QED  BY <1>1, <1>2, <1>3, <1>4, <1>5 DEF Next, Step

(***************************************************************************)
(* No record of a refused request outlives _clear_on_handler_failure.      *)
(***************************************************************************)
LEMMA RefusedFrees == Spec => []RefusedHoldsNoKey
<1>1. Init => Owned
  BY IdempotencyConstants DEF Init, Owned, RefusedHoldsNoKey
<1>2. IInv /\ Owned /\ [Next]_vars => Owned'
  BY OwnedStep DEF IInv
<1>3. Owned => RefusedHoldsNoKey
  BY DEF Owned
<1> QED
  BY <1>1, <1>2, <1>3, Inductive, PTL DEF Spec

-----------------------------------------------------------------------------
(***************************************************************************)
(* The composed system.                                                    *)
(*                                                                         *)
(* Every step of the system is a step of Idempotency and a step of Ledger  *)
(* (or leaves it alone), so the invariants of both hold; Linked says how   *)
(* the positions of the two agree, and the properties of the whole follow  *)
(* from what is proved of the parts.                                       *)
(***************************************************************************)
Ledgers == INSTANCE LedgerProofs
             WITH pc <- stmt, Keys <- JournalKeys, Amounts <- {Money(c.amount) : c \in Calls},
                  Ops <- {"transfer", "withdraw", "skip", "start"}

-----------------------------------------------------------------------------
(***************************************************************************)
(* Rounding gives whole cents.                                             *)
(***************************************************************************)
LEMMA MoneyTyped == \A c \in Calls : Money(c.amount) \in Int
BY CallConstants DEF Money, Quantize

(***************************************************************************)
(* The journal's keys are headers or made up for withdrawals; none is the  *)
(* key of a welcome grant.                                                 *)
(***************************************************************************)
LEMMA WelcomeKeysApart == \A a \in Accounts : Ledgers!WelcomeKey(a) \notin JournalKeys
<1> SUFFICES ASSUME NEW a \in Accounts PROVE <<"welcome", a>> \notin JournalKeys
  BY DEF Ledgers!WelcomeKey
<1>1. \A x, y : <<"welcome", a>> # <<"withdraw", x, y>>
  OBVIOUS
<1>2. <<"welcome", a>> \notin {c.header : c \in Calls}
  BY CallConstants
<1>3. <<"welcome", a>> \notin {"withdraw"} \X Subjects \X ({c.rid : c \in Calls} \cup Requests)
  BY <1>1
<1> QED
  BY <1>2, <1>3 DEF JournalKeys

(***************************************************************************)
(* The constants the system gives Ledger are as Ledger assumes.            *)
(***************************************************************************)
LEMMA BankConstants == Ledgers!LedgerConstants
<1>1. {Money(c.amount) : c \in Calls} \subseteq Int
  BY MoneyTyped
<1>2. {"transfer", "withdraw", "skip", "start"} \subseteq Ledgers!AllOps
  BY DEF Ledgers!AllOps
<1>3. Ledgers!IsFiniteSet(Accounts)
  BY EndToEndConstants DEF IsFiniteSet, Ledgers!IsFiniteSet
<1> QED
  BY <1>1, <1>2, <1>3, WelcomeKeysApart, EndToEndConstants DEF Ledgers!LedgerConstants

(***************************************************************************)
(* Whoever gets past the route's dependencies is a user of the bank.       *)
(***************************************************************************)
LEMMA AdmissibleIsUser ==
  ASSUME NEW c \in Calls, Admissible(c)
  PROVE  Subject(c) \in Subjects
<1>1. Principal(c) # None /\ ~Principal(c).m2m /\ Subject(c) = Principal(c).subject
  BY DEF Admissible, Authenticated, Subject
<1>2. CASE ~oidc
  BY <1>1, <1>2, EndToEndConstants DEF Principal
<1>3. CASE oidc
  <2>1. Principal(c) = EffectivePrincipal(c)
    BY <1>3 DEF Principal
  <2> DEFINE p == Authenticate(c.token)
  <2>2. p # None
    BY <1>1, <2>1 DEF EffectivePrincipal
  <2>3. c.token # None /\ p.subject = c.token.sub /\ p.m2m = IsM2MClaims(c.token)
    BY <2>2 DEF Authenticate
  <2>4. CASE ~p.m2m \/ ~c.forward.trusted
    <3>1. EffectivePrincipal(c) = p
      BY <2>2, <2>4 DEF EffectivePrincipal
    <3> QED
      BY <1>1, <2>1, <2>3, <3>1, CallConstants
  <2>5. CASE ~(~p.m2m \/ ~c.forward.trusted)
    <3>1. c.forward.sub # None /\ EffectivePrincipal(c).subject = c.forward.sub
      BY <1>1, <2>1, <2>2, <2>5 DEF EffectivePrincipal
    <3> QED
      BY <1>1, <2>1, <3>1, CallConstants
  <2> QED
    BY <2>4, <2>5
<1> QED
  BY <1>2, <1>3

(***************************************************************************)
(* Every user has an account.                                              *)
(***************************************************************************)
LEMMA OriginTyped == \A s \in Subjects : Origin(s) \in Accounts
BY EndToEndConstants DEF Origin

(***************************************************************************)
(* A recipient that is found is an account.                                *)
(***************************************************************************)
LEMMA RecipientsTyped ==
  \A c \in Calls : c.op = "transfer" => Recipients(c.dest) \subseteq Accounts
BY CallConstants, EndToEndConstants DEF Recipients

(***************************************************************************)
(* What an admitted call asks of the ledger.                               *)
(***************************************************************************)
LEMMA BankRequestTyped ==
  ASSUME NEW r \in Requests, call[r] \in Calls, Admissible(call[r])
  PROVE  /\ BankRequest(r).op = call[r].op
         /\ BankRequest(r).src = Origin(Subject(call[r]))
         /\ BankRequest(r).src \in Accounts /\ BankRequest(r).dst \in Accounts
         /\ call[r].op \in MoneyOps =>
              /\ BankRequest(r).key = JournalKey(r) /\ JournalKey(r) \in JournalKeys
              /\ BankRequest(r).amt \in {Money(c.amount) : c \in Calls}
         /\ call[r].op = "withdraw" => BankRequest(r).dst = BankRequest(r).src
         /\ BankRequest(r) = [op |-> BankRequest(r).op, src |-> BankRequest(r).src,
                              dst |-> BankRequest(r).dst, amt |-> BankRequest(r).amt,
                              key |-> BankRequest(r).key]
         /\ call[r].op \notin MoneyOps =>
              BankRequest(r) = [op |-> call[r].op, src |-> BankRequest(r).src,
                                dst |-> BankRequest(r).src, amt |-> Welcome,
                                key |-> Ledgers!WelcomeKey(BankRequest(r).src)]
<1> DEFINE c == call[r]  a == Origin(Subject(c))
           d == IF c.op = "transfer" /\ Recipients(c.dest) # {}
                THEN CHOOSE b \in Recipients(c.dest) : TRUE ELSE a
<1>1. a \in Accounts
  BY AdmissibleIsUser, OriginTyped
<1>2. d \in Accounts
  BY <1>1, RecipientsTyped
<1>3. c.op \in MoneyOps => JournalKey(r) \in JournalKeys
  <2>1. RequestId(r) \in {x.rid : x \in Calls} \cup Requests
    BY DEF RequestId
  <2>2. Subject(c) \in Subjects
    BY AdmissibleIsUser
  <2> QED
    BY <2>1, <2>2 DEF JournalKey, JournalKeys
<1>4. c.op \in MoneyOps =>
        BankRequest(r) = [op |-> c.op, src |-> a, amt |-> Money(c.amount), key |-> JournalKey(r),
                          dst |-> d]
  BY DEF BankRequest
<1>5. c.op \notin MoneyOps =>
        BankRequest(r) = [op |-> c.op, src |-> a, amt |-> Welcome, key |-> Ledgers!WelcomeKey(a),
                          dst |-> a]
  BY DEF BankRequest, Bank!WelcomeKey, Ledgers!WelcomeKey
<1>6. c.op = "withdraw" => d = a
  OBVIOUS
<1> HIDE DEF a, d
<1>7. CASE c.op \in MoneyOps
  BY <1>1, <1>2, <1>3, <1>4, <1>6, <1>7 DEF a
<1>8. CASE c.op \notin MoneyOps
  BY <1>1, <1>5, <1>8 DEF a
<1> QED
  BY <1>7, <1>8

-----------------------------------------------------------------------------
(***************************************************************************)
(* The middleware's part of a step of the system.                          *)
(***************************************************************************)
LEMMA MiddlewareStep == [SystemNext]_all => [Next]_vars
<1> SUFFICES ASSUME [SystemNext]_all PROVE [Next]_vars
  OBVIOUS
<1>1. CASE UNCHANGED all
  BY <1>1 DEF all
<1>2. ASSUME NEW r \in Requests, Receive(r) PROVE [Next]_vars
  BY <1>2 DEF Receive, Next
<1>3. ASSUME NEW r \in Requests, Middleware(r) PROVE [Next]_vars
  BY <1>3 DEF Middleware, Next, Step
<1>4. ASSUME NEW r \in Requests, Raise(r) PROVE [Next]_vars
  BY <1>4 DEF Next, Step
<1>5. ASSUME NEW r \in Requests, Refuse(r) \/ DatabaseError(r) \/ DeadlockError(r) \/ CommitUnanswered(r)
      PROVE  Raise(r)
  BY <1>5 DEF Refuse, DatabaseError, DeadlockError, CommitUnanswered, Fail
<1>6. ASSUME NEW r \in Requests, BeginHandler(r) \/ Statement(r) PROVE [Next]_vars
  BY <1>4, <1>6 DEF BeginHandler, Statement, Resume, Fail
<1>7. ASSUME NEW r \in Requests, Finish(r) PROVE [Next]_vars
  BY <1>7 DEF Finish, Next, Step
<1>8. ASSUME NEW r \in Requests, SettleTransaction(r) \/ WorkerDies(r) PROVE [Next]_vars
  BY <1>8 DEF SettleTransaction, WorkerDies, Next
<1>9. ASSUME NEW k \in Keys, Lapse(k) PROVE [Next]_vars
  BY <1>9 DEF Lapse, Next
<1> QED
  BY <1>1, <1>2, <1>3, <1>4, <1>5, <1>6, <1>7, <1>8, <1>9 DEF SystemNext, SystemStep

(***************************************************************************)
(* Ledger's actions are those of the bank the system runs on.              *)
(***************************************************************************)
LEMMA BankActions ==
  ASSUME NEW r \in Requests
  PROVE  /\ Bank!LoadDest(r) <=> Ledgers!LoadDest(r)
         /\ Bank!LockRow(r) <=> Ledgers!LockRow(r)
         /\ Bank!FindKey(r) <=> Ledgers!FindKey(r)
         /\ Bank!RejectRequest(r) <=> Ledgers!RejectRequest(r)
         /\ Bank!InsertJournal(r) <=> Ledgers!InsertJournal(r)
         /\ Bank!DuplicateKey(r) <=> Ledgers!DuplicateKey(r)
         /\ Bank!UpdateAccounts(r) <=> Ledgers!UpdateAccounts(r)
         /\ Bank!KeepSession(r) <=> Ledgers!KeepSession(r)
         /\ Bank!CreateSession(r) <=> Ledgers!CreateSession(r)
         /\ Bank!KeepSubjectRow(r) <=> Ledgers!KeepSubjectRow(r)
         /\ Bank!WriteSubjectRow(r) <=> Ledgers!WriteSubjectRow(r)
         /\ Bank!EnsureWelcome(r) <=> Ledgers!EnsureWelcome(r)
         /\ Bank!WriteStatus(r) <=> Ledgers!WriteStatus(r)
         /\ Bank!Commit(r) <=> Ledgers!Commit(r)
         /\ Bank!Crash(r) <=> Ledgers!Crash(r)
         /\ Bank!DeadlockVictim(r) <=> Ledgers!DeadlockVictim(r)
<1> USE DEF Bank!table, Ledgers!table, Bank!Goto, Ledgers!Goto
<1>1. Bank!LoadDest(r) <=> Ledgers!LoadDest(r)
  BY DEF Bank!LoadDest, Ledgers!LoadDest, Bank!READY_STATUSES, Ledgers!READY_STATUSES
<1>2. Bank!LockRow(r) <=> Ledgers!LockRow(r)
  BY DEF Bank!LockRow, Ledgers!LockRow, Bank!CanLock, Ledgers!CanLock, Bank!Conflict,
         Ledgers!Conflict, Bank!RowToLock, Ledgers!RowToLock, Bank!Lesser, Ledgers!Lesser,
         Bank!Greater, Ledgers!Greater, Bank!ForUpdate, Ledgers!ForUpdate
<1>3. Bank!Rollback(r) <=> Ledgers!Rollback(r)
  BY DEF Bank!Rollback, Ledgers!Rollback, Bank!Unlocked, Ledgers!Unlocked
<1>4. Bank!KeyUsed(req[r].key) <=> Ledgers!KeyUsed(req[r].key)
  BY DEF Bank!KeyUsed, Ledgers!KeyUsed
<1>5. Bank!SufficientFunds(r) <=> Ledgers!SufficientFunds(r)
  BY DEF Bank!SufficientFunds, Ledgers!SufficientFunds, Bank!MoneyOps, Ledgers!MoneyOps
<1>6. Bank!FindKey(r) <=> Ledgers!FindKey(r)
  BY <1>4, <1>5 DEF Bank!FindKey, Ledgers!FindKey
<1>7. Bank!RejectRequest(r) <=> Ledgers!RejectRequest(r)
  BY <1>3, <1>4, <1>5 DEF Bank!RejectRequest, Ledgers!RejectRequest
<1>8. Bank!KeyPending(r) = Ledgers!KeyPending(r)
  BY DEF Bank!KeyPending, Ledgers!KeyPending
<1>9. Bank!InsertJournal(r) <=> Ledgers!InsertJournal(r)
  BY <1>4, <1>8 DEF Bank!InsertJournal, Ledgers!InsertJournal
<1>10. Bank!DuplicateKey(r) <=> Ledgers!DuplicateKey(r)
  BY <1>3, <1>4, <1>8 DEF Bank!DuplicateKey, Ledgers!DuplicateKey
<1>11. Bank!EntryOf(r) = Ledgers!EntryOf(r) /\ Bank!Lines(r) = Ledgers!Lines(r)
  BY DEF Bank!EntryOf, Ledgers!EntryOf, Bank!OpenOps, Ledgers!OpenOps, Bank!Lines, Ledgers!Lines
<1>12. Bank!UpdateAccounts(r) <=> Ledgers!UpdateAccounts(r)
  BY <1>11 DEF Bank!UpdateAccounts, Ledgers!UpdateAccounts, Bank!CanLock, Ledgers!CanLock,
               Bank!Conflict, Ledgers!Conflict, Bank!Strongest, Ledgers!Strongest,
               Bank!NoKeyUpdate, Ledgers!NoKeyUpdate
<1>13. Bank!AfterSession(r) = Ledgers!AfterSession(r)
  BY DEF Bank!AfterSession, Ledgers!AfterSession
<1>14. Bank!KeepSession(r) <=> Ledgers!KeepSession(r)
  BY <1>13 DEF Bank!KeepSession, Ledgers!KeepSession
<1>15. \A a, m : Bank!CanLock(r, a, m) <=> Ledgers!CanLock(r, a, m)
  BY DEF Bank!CanLock, Ledgers!CanLock, Bank!Conflict, Ledgers!Conflict
<1>16. Bank!CreateSession(r) <=> Ledgers!CreateSession(r)
  BY <1>13, <1>15 DEF Bank!CreateSession, Ledgers!CreateSession, Bank!KeyShare, Ledgers!KeyShare
<1>17. Bank!EnsureWelcome(r) <=> Ledgers!EnsureWelcome(r)
  BY <1>15 DEF Bank!EnsureWelcome, Ledgers!EnsureWelcome, Bank!Granted, Ledgers!Granted,
               Bank!ForUpdate, Ledgers!ForUpdate
<1>18. Bank!WriteStatus(r) <=> Ledgers!WriteStatus(r)
  BY <1>15 DEF Bank!WriteStatus, Ledgers!WriteStatus, Bank!NoKeyUpdate, Ledgers!NoKeyUpdate
<1>19. Bank!WritesStatus(r) <=> Ledgers!WritesStatus(r)
  BY DEF Bank!WritesStatus, Ledgers!WritesStatus, Bank!NewStatus, Ledgers!NewStatus,
         Bank!MoneyOps, Ledgers!MoneyOps
<1>20. Bank!Commit(r) <=> Ledgers!Commit(r)
  BY <1>11, <1>19 DEF Bank!Commit, Ledgers!Commit, Bank!Delta, Ledgers!Delta, Bank!NewStatus,
         Ledgers!NewStatus, Bank!Unlocked, Ledgers!Unlocked, Bank!LedgerAccounts,
         Ledgers!LedgerAccounts
<1>21. Bank!Running(r) <=> Ledgers!Running(r)
  BY DEF Bank!Running, Ledgers!Running
<1>22. Bank!Crash(r) <=> Ledgers!Crash(r)
  BY <1>3, <1>21 DEF Bank!Crash, Ledgers!Crash
<1>23. Bank!DeadlockVictim(r) <=> Ledgers!DeadlockVictim(r)
  BY <1>3, <1>21 DEF Bank!DeadlockVictim, Ledgers!DeadlockVictim, Bank!Deadlocked, Ledgers!Deadlocked,
         Bank!WaitsFor, Ledgers!WaitsFor, Bank!Wanted, Ledgers!Wanted, Bank!KeyPending,
         Ledgers!KeyPending, Bank!Conflict, Ledgers!Conflict, Bank!RowToLock, Ledgers!RowToLock,
         Bank!Lesser, Ledgers!Lesser, Bank!Greater, Ledgers!Greater, Bank!ForUpdate,
         Ledgers!ForUpdate, Bank!NoKeyUpdate, Ledgers!NoKeyUpdate, Bank!Lines, Ledgers!Lines,
         Bank!EntryOf, Ledgers!EntryOf, Bank!OpenOps, Ledgers!OpenOps, Bank!RowWriters,
         Ledgers!RowWriters, Bank!SubjectRows, Ledgers!SubjectRows
<1>24. /\ Bank!AfterSubjectRow(r) = Ledgers!AfterSubjectRow(r)
       /\ Bank!RowWriters(r) = Ledgers!RowWriters(r)
       /\ Bank!LoadAfterConsent(r) <=> Ledgers!LoadAfterConsent(r)
  BY DEF Bank!AfterSubjectRow, Ledgers!AfterSubjectRow, Bank!RowWriters, Ledgers!RowWriters,
         Bank!LoadAfterConsent, Ledgers!LoadAfterConsent
<1>25. Bank!KeepSubjectRow(r) <=> Ledgers!KeepSubjectRow(r)
  BY <1>24 DEF Bank!KeepSubjectRow, Ledgers!KeepSubjectRow, Bank!SubjectRows, Ledgers!SubjectRows
<1>26. Bank!WriteSubjectRow(r) <=> Ledgers!WriteSubjectRow(r)
  BY <1>24 DEF Bank!WriteSubjectRow, Ledgers!WriteSubjectRow, Bank!SubjectRows, Ledgers!SubjectRows
<1> QED
  BY <1>1, <1>2, <1>6, <1>7, <1>9, <1>10, <1>12, <1>14, <1>16, <1>17, <1>18, <1>20, <1>22, <1>23,
     <1>25, <1>26

(***************************************************************************)
(* A request that has arrived has a call.                                  *)
(***************************************************************************)
CallInv ==
  /\ call \in [Requests -> Calls \cup {None}]
  /\ \A r \in Requests : call[r] = None <=> pc[r] = "idle"

(***************************************************************************)
(* A handler begins as one of Ledger's requests.                           *)
(***************************************************************************)
LEMMA BeginStep ==
  ASSUME CallInv, NEW r \in Requests, BeginHandler(r)
  PROVE  Ledgers!BeginTransfer(r) \/ Ledgers!BeginWithdraw(r) \/ Ledgers!BeginOnboarding(r)
<1> DEFINE q == BankRequest(r)
           ready == Bank!ValidAmount(q.amt) /\ status[q.src] \in Bank!READY_STATUSES
<1>1. call[r] \in Calls /\ Admissible(call[r])
  BY DEF BeginHandler, CallInv
<1>2. CASE q.op = "transfer"
  <2>1. Bank!Begin(r, q, ready, "dest")
    BY <1>2 DEF BeginHandler
  <2>2. q.src \in Accounts /\ q.dst \in Accounts /\ q.amt \in {Money(c.amount) : c \in Calls}
        /\ q.key \in JournalKeys
        /\ q = [op |-> "transfer", src |-> q.src, dst |-> q.dst, amt |-> q.amt, key |-> q.key]
    BY <1>1, <1>2, BankRequestTyped DEF MoneyOps
  <2>3. Ledgers!Begin(r, q, Ledgers!ValidAmount(q.amt) /\ status[q.src] \in Ledgers!READY_STATUSES,
                      "dest")
    BY <2>1 DEF Bank!Begin, Ledgers!Begin, Bank!ValidAmount, Ledgers!ValidAmount, Bank!Goto,
                Ledgers!Goto, Bank!table, Ledgers!table, Bank!READY_STATUSES, Ledgers!READY_STATUSES
  <2> HIDE DEF q
  <2> QED
    BY <2>2, <2>3 DEF Ledgers!BeginTransfer
<1>3. CASE q.op = "withdraw"
  <2>1. Bank!Begin(r, q, ready, "key")
    BY <1>3 DEF BeginHandler
  <2>2. q.src \in Accounts /\ q.amt \in {Money(c.amount) : c \in Calls} /\ q.key \in JournalKeys
        /\ q = [op |-> "withdraw", src |-> q.src, dst |-> q.src, amt |-> q.amt, key |-> q.key]
    BY <1>1, <1>3, BankRequestTyped DEF MoneyOps
  <2>3. Ledgers!Begin(r, q, Ledgers!ValidAmount(q.amt) /\ status[q.src] \in Ledgers!READY_STATUSES,
                      "key")
    BY <2>1 DEF Bank!Begin, Ledgers!Begin, Bank!ValidAmount, Ledgers!ValidAmount, Bank!Goto,
                Ledgers!Goto, Bank!table, Ledgers!table, Bank!READY_STATUSES, Ledgers!READY_STATUSES
  <2> HIDE DEF q
  <2> QED
    BY <2>2, <2>3 DEF Ledgers!BeginWithdraw
<1>4. CASE q.op \notin MoneyOps
  <2>1. Bank!Begin(r, q, TRUE, Bank!FirstStatement(q.op))
    BY <1>4 DEF BeginHandler, MoneyOps
  <2>2. q.op \in {"skip", "start"} /\ q.op = call[r].op
    BY <1>1, <1>4, BankRequestTyped, CallConstants DEF MoneyOps
  <2>3. q.src \in Accounts
        /\ q = [op |-> q.op, src |-> q.src, dst |-> q.src, amt |-> Welcome,
                key |-> Ledgers!WelcomeKey(q.src)]
    BY <1>1, <1>4, <2>2, BankRequestTyped
  <2>4. Ledgers!Begin(r, q, TRUE, Ledgers!FirstStatement(q.op))
    BY <2>1 DEF Bank!Begin, Ledgers!Begin, Bank!Goto, Ledgers!Goto, Bank!table, Ledgers!table,
                Bank!FirstStatement, Ledgers!FirstStatement
  <2> HIDE DEF q
  <2> QED
    BY <2>2, <2>3, <2>4 DEF Ledgers!BeginOnboarding, Ledgers!OpenOps
<1> QED
  BY <1>2, <1>3, <1>4 DEF MoneyOps

(***************************************************************************)
(* The database's part of a step of the system.                            *)
(***************************************************************************)
LEMMA BankStep == CallInv /\ [SystemNext]_all => [Ledgers!Next]_(Ledgers!vars)
<1> SUFFICES ASSUME CallInv, [SystemNext]_all PROVE [Ledgers!Next]_(Ledgers!vars)
  OBVIOUS
<1>1. ASSUME UNCHANGED bank PROVE [Ledgers!Next]_(Ledgers!vars)
  BY <1>1 DEF bank, Ledgers!vars, Ledgers!table
<1>2. CASE UNCHANGED all
  BY <1>1, <1>2 DEF all
<1>3. ASSUME NEW r \in Requests,
             Receive(r) \/ Middleware(r) \/ Refuse(r) \/ CommitUnanswered(r) \/ WorkerDies(r)
      PROVE  UNCHANGED bank
  BY <1>3 DEF Receive, Middleware, Refuse, CommitUnanswered, WorkerDies
<1>4. ASSUME NEW r \in Requests, BeginHandler(r) PROVE Ledgers!Next
  BY <1>4, BeginStep DEF Ledgers!Next
<1>5. ASSUME NEW r \in Requests, Statement(r) PROVE Ledgers!Next
  BY <1>5, BankActions DEF Statement, Ledgers!Next, Ledgers!Step
<1>6. ASSUME NEW r \in Requests, DatabaseError(r) \/ DeadlockError(r) PROVE Ledgers!Next
  BY <1>6, BankActions DEF DatabaseError, DeadlockError, Ledgers!Next
<1>7. ASSUME NEW r \in Requests, Finish(r) \/ SettleTransaction(r)
      PROVE  UNCHANGED bank \/ Ledgers!Next
  BY <1>7, BankActions DEF Finish, SettleTransaction, Ledgers!Next, Ledgers!Step
<1>8. ASSUME NEW k \in Keys, Lapse(k) PROVE UNCHANGED bank
  BY <1>8 DEF Lapse
<1> QED
  BY <1>1, <1>2, <1>3, <1>4, <1>5, <1>6, <1>7, <1>8 DEF SystemNext, SystemStep

(***************************************************************************)
(* Middleware, handler and database agree on a request: the handler's      *)
(* statements begin in the handler and end with it or with the database's  *)
(* settlement, and ask for what the call asks for.                         *)
(***************************************************************************)
Linked(r) ==
  /\ pc[r] \in {"idle", "check", "acquire"} => stmt[r] = "idle"
  /\ tx[r] = "committed" <=> stmt[r] = "done"
  /\ Bank!Running(r) => pc[r] = "handler" \/ tx[r] = "open"
  /\ stmt[r] # "idle" => req[r] = BankRequest(r) /\ Admissible(call[r])
  /\ pc[r] # "idle" => key[r] = (IF Keyed(call[r]) THEN GenerateKey(call[r]) ELSE None)
  /\ answer[r] = "ok" /\ key[r] = None => body[r] = r

(***************************************************************************)
(* What a call means depends on nothing that changes.                      *)
(***************************************************************************)
LEMMA CallStays ==
  ASSUME NEW r \in Requests, call'[r] = call[r], oidc' = oidc
  PROVE  /\ BankRequest(r)' = BankRequest(r)
         /\ Admissible(call[r])' <=> Admissible(call[r])
         /\ Keyed(call[r])' <=> Keyed(call[r])
         /\ GenerateKey(call[r])' = GenerateKey(call[r])
         /\ Intent(r)' = Intent(r)
         /\ JournalKey(r)' = JournalKey(r)
<1>1. Principal(call[r])' = Principal(call[r])
  BY DEF Principal
<1>2. Subject(call[r])' = Subject(call[r])
  BY <1>1 DEF Subject
<1>3. JournalKey(r)' = JournalKey(r)
  BY <1>2 DEF JournalKey, RequestId
<1>4. BankRequest(r)' = BankRequest(r)
  BY <1>2, <1>3 DEF BankRequest
<1>5. Admissible(call[r])' <=> Admissible(call[r])
  BY <1>1 DEF Admissible, Authenticated
<1>6. GenerateKey(call[r])' = GenerateKey(call[r])
  BY DEF GenerateKey
<1>7. Keyed(call[r])' <=> Keyed(call[r])
  BY DEF Keyed
<1>8. Intent(r)' = Intent(r)
  BY <1>2 DEF Intent
<1> QED
  BY <1>3, <1>4, <1>5, <1>6, <1>7, <1>8

(***************************************************************************)
(* All parts are typed and agree.                                          *)
(***************************************************************************)
Parts == IInv /\ Ledgers!IInv /\ CallInv

(***************************************************************************)
(* The step leaves request s alone.                                        *)
(***************************************************************************)
Same(s) ==
  /\ pc'[s] = pc[s] /\ key'[s] = key[s] /\ answer'[s] = answer[s] /\ body'[s] = body[s]
  /\ tx'[s] = tx[s] /\ call'[s] = call[s] /\ stmt'[s] = stmt[s]
  /\ stmt[s] # "idle" => req'[s] = req[s]

(***************************************************************************)
(* A request that is left alone stays linked.                              *)
(***************************************************************************)
LEMMA SameLinked ==
  ASSUME NEW s \in Requests, Linked(s), Same(s), oidc' = oidc
  PROVE  Linked(s)'
BY CallStays DEF Linked, Same, Bank!Running

(***************************************************************************)
(* What a step of the middleware does to other requests, and to its own.   *)
(***************************************************************************)
LEMMA MiddlewareLocal ==
  ASSUME TypeOK, NEW r \in Requests,
         Arrive(r) \/ Skip(r) \/ Step(r) \/ Settle(r) \/ Crash(r) \/ UNCHANGED vars
  PROVE  \A s \in Requests \ {r} :
           /\ pc'[s] = pc[s] /\ key'[s] = key[s] /\ answer'[s] = answer[s]
           /\ body'[s] = body[s] /\ tx'[s] = tx[s]
<1> USE DEF TypeOK, Goto, Answer
<1>1. CASE Arrive(r) \/ Skip(r) \/ Settle(r) \/ Crash(r) \/ UNCHANGED vars
  BY <1>1 DEF Arrive, Skip, Settle, Crash, vars
<1>2. CASE Check(r) \/ Acquire(r) \/ AcquireUnanswered(r) \/ StorageError(r)
  BY <1>2 DEF Check, Acquire, AcquireUnanswered, StorageError
<1>3. CASE Reply(r) \/ Raise(r) \/ Save(r) \/ Clear(r)
  BY <1>3 DEF Reply, Raise, Save, Clear
<1> QED
  BY <1>1, <1>2, <1>3 DEF Step

(***************************************************************************)
(* What the handler's statements do to other requests, and to its own.     *)
(***************************************************************************)
LEMMA StatementLocal ==
  ASSUME Ledgers!TypeInv, NEW r \in Requests, Statement(r)
  PROVE  /\ \A s \in Requests \ {r} : stmt'[s] = stmt[s] /\ req'[s] = req[s]
         /\ stmt[r] # "idle" /\ stmt'[r] \notin {"idle", "done"} /\ req'[r] = req[r]
<1> USE DEF Ledgers!TypeInv, Ledgers!TypeOK, Ledgers!Goto
<1>1. \/ Ledgers!LoadDest(r) \/ Ledgers!LockRow(r) \/ Ledgers!FindKey(r) \/ Ledgers!RejectRequest(r)
      \/ Ledgers!InsertJournal(r) \/ Ledgers!DuplicateKey(r) \/ Ledgers!UpdateAccounts(r)
      \/ Ledgers!KeepSession(r) \/ Ledgers!CreateSession(r) \/ Ledgers!KeepSubjectRow(r)
      \/ Ledgers!WriteSubjectRow(r) \/ Ledgers!EnsureWelcome(r) \/ Ledgers!WriteStatus(r)
  BY BankActions DEF Statement
<1>2. CASE Ledgers!RejectRequest(r) \/ Ledgers!DuplicateKey(r)
  BY <1>2 DEF Ledgers!RejectRequest, Ledgers!DuplicateKey, Ledgers!Rollback
<1>3. CASE Ledgers!LoadDest(r) \/ Ledgers!LockRow(r) \/ Ledgers!FindKey(r) \/ Ledgers!InsertJournal(r)
  BY <1>3 DEF Ledgers!LoadDest, Ledgers!LockRow, Ledgers!FindKey, Ledgers!InsertJournal
<1>4. CASE Ledgers!UpdateAccounts(r) \/ Ledgers!KeepSession(r) \/ Ledgers!CreateSession(r)
           \/ Ledgers!EnsureWelcome(r) \/ Ledgers!WriteStatus(r)
  BY <1>4 DEF Ledgers!UpdateAccounts, Ledgers!KeepSession, Ledgers!CreateSession,
              Ledgers!EnsureWelcome, Ledgers!WriteStatus, Ledgers!AfterSession
<1>5. CASE Ledgers!KeepSubjectRow(r) \/ Ledgers!WriteSubjectRow(r)
  BY <1>5 DEF Ledgers!KeepSubjectRow, Ledgers!WriteSubjectRow, Ledgers!SubjectRows,
              Ledgers!AfterSubjectRow
<1> QED
  BY <1>1, <1>2, <1>3, <1>4, <1>5

(***************************************************************************)
(* How a transaction begins, and how it ends.                              *)
(***************************************************************************)
LEMMA BeginLocal ==
  ASSUME Ledgers!TypeInv, NEW r \in Requests, BeginHandler(r)
  PROVE  /\ \A s \in Requests \ {r} : stmt'[s] = stmt[s] /\ req'[s] = req[s]
         /\ stmt[r] = "idle" /\ stmt'[r] \notin {"idle", "done"} /\ req'[r] = BankRequest(r)
<1>1. ASSUME NEW ok, NEW l \in {"dest", "key", "session", "consent"}, Bank!Begin(r, BankRequest(r), ok, l)
      PROVE  /\ \A s \in Requests \ {r} : stmt'[s] = stmt[s] /\ req'[s] = req[s]
             /\ stmt[r] = "idle" /\ stmt'[r] \in {l, "failed"} /\ req'[r] = BankRequest(r)
  BY <1>1 DEF Bank!Begin, Bank!Goto, Ledgers!TypeInv, Ledgers!TypeOK
<1>2. CASE BankRequest(r).op = "transfer"
  BY <1>1, <1>2 DEF BeginHandler
<1>3. CASE BankRequest(r).op = "withdraw"
  BY <1>1, <1>3 DEF BeginHandler
<1>4. CASE BankRequest(r).op \notin {"transfer", "withdraw"}
  <2>1. Bank!Begin(r, BankRequest(r), TRUE, Bank!FirstStatement(BankRequest(r).op))
    BY <1>4 DEF BeginHandler
  <2>2. Bank!FirstStatement(BankRequest(r).op) \in {"session", "consent"}
    BY DEF Bank!FirstStatement
  <2> QED
    BY <1>1, <2>1, <2>2
<1> QED
  BY <1>2, <1>3, <1>4

(***************************************************************************)
(* A rollback and a commit end the transaction of their own request.       *)
(***************************************************************************)
LEMMA EndLocal ==
  ASSUME Ledgers!TypeInv, NEW r \in Requests
  PROVE  /\ Bank!Crash(r) \/ Bank!DeadlockVictim(r) =>
              /\ Bank!Running(r) /\ stmt'[r] = "failed" /\ req' = req
              /\ \A s \in Requests \ {r} : stmt'[s] = stmt[s]
         /\ Bank!Commit(r) =>
              /\ stmt[r] = "commit" /\ stmt'[r] = "done" /\ req' = req
              /\ \A s \in Requests \ {r} : stmt'[s] = stmt[s]
BY DEF Bank!Crash, Bank!DeadlockVictim, Bank!Rollback, Bank!Commit, Bank!Goto,
       Ledgers!TypeInv, Ledgers!TypeOK

(***************************************************************************)
(* A failing handler: its transaction is over, and the middleware clears   *)
(* the record or answers.                                                  *)
(***************************************************************************)
LEMMA FailLocal ==
  ASSUME TypeOK, Control, NEW r \in Requests, Raise(r)
  PROVE  /\ pc[r] = "handler" /\ pc'[r] \in {"clear", "done"} /\ key' = key
         /\ tx[r] = "none" /\ answer'[r] # "ok" /\ tx'[r] \in {"aborted", "open"}
BY DEF Raise, Answer, Goto, TypeOK, Control

(***************************************************************************)
(* A request that has begun and not been given up stays linked.            *)
(***************************************************************************)
LEMMA LinkedStep ==
  ASSUME Parts, \A r \in Requests : Linked(r), [SystemNext]_all
  PROVE  CallInv' /\ \A r \in Requests : Linked(r)'
<1> DEFINE Goal == CallInv' /\ \A r \in Requests : Linked(r)'
<1>1. TypeOK /\ Control /\ CallInv /\ Ledgers!TypeInv
  BY DEF Parts, IInv, Ledgers!IInv
<1>2. ASSUME NEW r \in Requests, oidc' = oidc, \A s \in Requests \ {r} : Same(s),
             call'[r] = call[r], call' \in [Requests -> Calls \cup {None}],
             pc[r] # "idle", pc'[r] # "idle", Linked(r)'
      PROVE  Goal
  <2>1. \A s \in Requests : Linked(s)'
    BY <1>2, SameLinked
  <2>2. CallInv'
    BY <1>1, <1>2 DEF CallInv, Same
  <2> QED
    BY <2>1, <2>2
<1>3. ASSUME NEW r \in Requests, call' = call, oidc' = oidc, UNCHANGED bank,
             Step(r) \/ Settle(r) \/ Crash(r) \/ UNCHANGED vars
      PROVE  /\ call'[r] = call[r] /\ call' \in [Requests -> Calls \cup {None}]
             /\ \A s \in Requests \ {r} : Same(s)
  BY <1>1, <1>3, MiddlewareLocal DEF Same, bank, CallInv
<1>4. CASE UNCHANGED all
  <2>1. \A s \in Requests : Same(s)
    BY <1>4 DEF all, vars, bank, Same
  <2>2. CallInv'
    BY <1>1, <1>4 DEF all, vars, CallInv
  <2> QED
    BY <1>4, <2>1, <2>2, SameLinked DEF all
<1>5. ASSUME NEW r \in Requests, Receive(r) PROVE Goal
  <2>1. PICK c \in Calls : /\ call' = [call EXCEPT ![r] = c]
                           /\ \/ Keyed(c) /\ Arrive(r) /\ key'[r] = GenerateKey(c)
                              \/ ~Keyed(c) /\ Skip(r)
    BY <1>5 DEF Receive
  <2>2. UNCHANGED <<bank, oidc>>
    BY <1>5 DEF Receive
  <2>3. pc[r] = "idle" /\ pc'[r] \in {"check", "handler"} /\ tx' = tx /\ answer' = answer
    BY <1>1, <2>1 DEF Arrive, Skip, Goto, TypeOK
  <2>4. key[r] = None /\ tx[r] = "none" /\ answer[r] = "none" /\ stmt[r] = "idle"
    BY <1>1, <2>3 DEF Control, Linked
  <2>5. \A s \in Requests \ {r} : Same(s)
    BY <1>1, <2>1, <2>2, MiddlewareLocal DEF Same, bank, CallInv
  <2>6. call'[r] = c
    BY <1>1, <2>1 DEF CallInv
  <2>7. key'[r] = (IF Keyed(c) THEN GenerateKey(c) ELSE None)
    BY <2>1, <2>4 DEF Skip
  <2>8. Keyed(call[r])' <=> Keyed(c)
    BY <2>2, <2>6 DEF Keyed
  <2>9. GenerateKey(call[r])' = GenerateKey(c)
    BY <2>6 DEF GenerateKey
  <2>10. Linked(r)'
    BY <2>2, <2>3, <2>4, <2>7, <2>8, <2>9 DEF Linked, bank, Bank!Running
  <2>11. CallInv'
    BY <1>1, <2>1, <2>3, <2>5, <2>6, CallConstants DEF CallInv, Same
  <2> QED
    BY <2>2, <2>5, <2>10, <2>11, SameLinked
<1>6. ASSUME NEW r \in Requests, Middleware(r) PROVE Goal
  <2>1. UNCHANGED <<bank, oidc, call>> /\ Step(r)
    BY <1>6 DEF Middleware, Step
  <2>2. /\ pc[r] \in {"check", "acquire", "save", "clear"}
        /\ pc'[r] \in {"acquire", "handler", "done"} /\ (pc'[r] = "acquire" => pc[r] = "check")
        /\ tx' = tx /\ key' = key
    BY <1>1, <1>6 DEF Middleware, Check, Acquire, AcquireUnanswered, StorageError, Save, Clear,
                      Answer, Goto, TypeOK
  <2>3. key[r] # None
    BY <1>1, <2>2 DEF TypeOK
  <2>4. Linked(r)'
    BY <2>1, <2>2, <2>3, CallStays DEF Linked, bank, Bank!Running
  <2> QED
    BY <1>2, <1>3, <2>1, <2>2, <2>4
<1>7. ASSUME NEW r \in Requests, Refuse(r) \/ CommitUnanswered(r) PROVE Goal
  <2>1. Raise(r) /\ UNCHANGED <<bank, oidc, call>>
    BY <1>7 DEF Refuse, CommitUnanswered, Fail
  <2>2. \/ stmt[r] = "idle" /\ tx'[r] = "aborted"
        \/ stmt[r] = "commit" /\ tx'[r] = "open"
    BY <1>7 DEF Refuse, CommitUnanswered, Fail
  <2>3. Linked(r)'
    BY <1>1, <2>1, <2>2, FailLocal, CallStays DEF Linked, bank, Bank!Running
  <2> QED
    BY <1>1, <1>2, <1>3, <2>1, <2>3, FailLocal DEF Step
<1>8. ASSUME NEW r \in Requests, BeginHandler(r) PROVE Goal
  <2>1. UNCHANGED <<oidc, call>> /\ pc[r] = "handler" /\ Resume(r) /\ Admissible(call[r])
    BY <1>8 DEF BeginHandler
  <2>2. /\ \A s \in Requests \ {r} : stmt'[s] = stmt[s] /\ req'[s] = req[s]
        /\ stmt'[r] \notin {"idle", "done"} /\ req'[r] = BankRequest(r)
    BY <1>1, <1>8, BeginLocal
  <2>3. \A s \in Requests \ {r} : Same(s)
    BY <1>1, <2>1, <2>2, MiddlewareLocal DEF Resume, Fail, Step, Same
  <2>4. CASE UNCHANGED vars
    <3>1. Linked(r)'
      BY <1>1, <2>1, <2>2, <2>4, CallStays DEF Linked, vars, Bank!Running, Control
    <3> QED
      BY <1>1, <1>2, <2>1, <2>3, <2>4, <3>1 DEF vars, CallInv
  <2>5. CASE stmt'[r] = "failed" /\ Raise(r) /\ tx'[r] = "aborted"
    <3>1. Linked(r)'
      BY <1>1, <2>1, <2>2, <2>5, CallStays, FailLocal DEF Linked, Bank!Running
    <3> QED
      BY <1>1, <1>2, <2>1, <2>3, <2>5, <3>1, FailLocal DEF CallInv
  <2> QED
    BY <2>1, <2>4, <2>5 DEF Resume, Fail
<1>9. ASSUME NEW r \in Requests, Statement(r) PROVE Goal
  <2>1. UNCHANGED <<oidc, call>> /\ pc[r] = "handler" /\ Resume(r)
    BY <1>9 DEF Statement
  <2>2. /\ \A s \in Requests \ {r} : stmt'[s] = stmt[s] /\ req'[s] = req[s]
        /\ stmt[r] # "idle" /\ stmt'[r] \notin {"idle", "done"} /\ req'[r] = req[r]
    BY <1>1, <1>9, StatementLocal
  <2>3. \A s \in Requests \ {r} : Same(s)
    BY <1>1, <2>1, <2>2, MiddlewareLocal DEF Resume, Fail, Step, Same
  <2>4. CASE UNCHANGED vars
    <3>1. Linked(r)'
      BY <1>1, <2>1, <2>2, <2>4, CallStays DEF Linked, vars, Bank!Running, Control
    <3> QED
      BY <1>1, <1>2, <2>1, <2>3, <2>4, <3>1 DEF vars, CallInv
  <2>5. CASE stmt'[r] = "failed" /\ Raise(r) /\ tx'[r] = "aborted"
    <3>1. Linked(r)'
      BY <1>1, <2>1, <2>2, <2>5, CallStays, FailLocal DEF Linked, Bank!Running
    <3> QED
      BY <1>1, <1>2, <2>1, <2>3, <2>5, <3>1, FailLocal DEF CallInv
  <2> QED
    BY <2>1, <2>4, <2>5 DEF Resume, Fail
<1>10. ASSUME NEW r \in Requests, DatabaseError(r) \/ DeadlockError(r) PROVE Goal
  <2>1. UNCHANGED <<oidc, call>> /\ Raise(r) /\ tx'[r] = "aborted"
        /\ (Bank!Crash(r) \/ Bank!DeadlockVictim(r))
    BY <1>10 DEF DatabaseError, DeadlockError, Fail
  <2>2. Bank!Running(r) /\ stmt'[r] = "failed" /\ req' = req
        /\ \A s \in Requests \ {r} : stmt'[s] = stmt[s]
    BY <1>1, <2>1, EndLocal
  <2>3. \A s \in Requests \ {r} : Same(s)
    BY <1>1, <2>1, <2>2, MiddlewareLocal DEF Step, Same
  <2>4. Linked(r)'
    BY <1>1, <2>1, <2>2, CallStays, FailLocal DEF Linked, Bank!Running
  <2> QED
    BY <1>1, <1>2, <2>1, <2>3, <2>4, FailLocal DEF CallInv
<1>11. ASSUME NEW r \in Requests, Finish(r) PROVE Goal
  <2>1. UNCHANGED <<oidc, call>> /\ stmt[r] = "commit" /\ Reply(r)
        /\ (IF tx'[r] = "committed" THEN Bank!Commit(r) ELSE UNCHANGED bank)
    BY <1>11 DEF Finish
  <2>2. /\ pc[r] = "handler" /\ pc'[r] \in {"save", "done"} /\ key' = key
        /\ tx'[r] \in {"committed", "open"}
        /\ key[r] = None => body'[r] = r
        /\ key[r] # None => answer'[r] = "none"
    BY <1>1, <2>1 DEF Reply, Answer, Goto, TypeOK, Control
  <2>3. /\ req' = req /\ stmt'[r] = (IF tx'[r] = "committed" THEN "done" ELSE "commit")
        /\ \A s \in Requests \ {r} : stmt'[s] = stmt[s]
    BY <1>1, <2>1, EndLocal DEF bank
  <2>4. \A s \in Requests \ {r} : Same(s)
    BY <1>1, <2>1, <2>3, MiddlewareLocal DEF Step, Same
  <2>5. Linked(r)'
    BY <1>1, <2>1, <2>2, <2>3, CallStays DEF Linked, Bank!Running
  <2> QED
    BY <1>1, <1>2, <2>1, <2>2, <2>4, <2>5 DEF CallInv
<1>12. ASSUME NEW r \in Requests, SettleTransaction(r) PROVE Goal
  <2>1. UNCHANGED <<oidc, call>> /\ Settle(r)
    BY <1>12 DEF SettleTransaction
  <2>2. tx[r] = "open" /\ UNCHANGED <<pc, key, answer, body>>
    BY <2>1 DEF Settle
  <2>3. /\ \/ tx'[r] = "committed" /\ stmt[r] = "commit" /\ stmt'[r] = "done"
           \/ tx'[r] = "aborted" /\ Bank!Running(r) /\ stmt'[r] = "failed"
           \/ tx'[r] = "aborted" /\ ~Bank!Running(r) /\ stmt'[r] = stmt[r]
        /\ req' = req /\ \A s \in Requests \ {r} : stmt'[s] = stmt[s]
    BY <1>1, <1>12, EndLocal DEF SettleTransaction, bank
  <2>4. \A s \in Requests \ {r} : Same(s)
    BY <1>1, <2>1, <2>3, MiddlewareLocal DEF Same
  <2>5. pc[r] \notin {"idle", "check", "acquire", "handler"}
    BY <1>1, <2>2 DEF Control
  <2>6. Linked(r)'
    BY <2>1, <2>2, <2>3, <2>5, CallStays DEF Linked, Bank!Running
  <2> QED
    BY <1>1, <1>2, <2>1, <2>2, <2>4, <2>5, <2>6 DEF CallInv
<1>13. ASSUME NEW r \in Requests, WorkerDies(r) PROVE Goal
  <2>1. UNCHANGED <<bank, oidc, call>> /\ Crash(r)
    BY <1>13 DEF WorkerDies
  <2>2. /\ pc[r] # "idle" /\ pc'[r] = "dead" /\ UNCHANGED <<key, answer, body>>
        /\ tx'[r] = (IF pc[r] = "handler" THEN "open" ELSE tx[r])
    BY <1>1, <2>1 DEF Crash, Running, Goto, TypeOK
  <2>3. Linked(r)'
    BY <1>1, <2>1, <2>2, CallStays DEF Linked, bank, Bank!Running, Control
  <2> QED
    BY <1>2, <1>3, <2>1, <2>2, <2>3
<1>14. ASSUME NEW k \in Keys, Lapse(k) PROVE Goal
  <2>1. UNCHANGED <<pc, key, answer, body, tx, bank, oidc, call>>
    BY <1>14 DEF Lapse, Expire
  <2>2. \A s \in Requests : Same(s)
    BY <2>1 DEF bank, Same
  <2> QED
    BY <1>1, <2>1, <2>2, SameLinked DEF CallInv
<1> QED
  BY <1>4, <1>5, <1>6, <1>7, <1>8, <1>9, <1>10, <1>11, <1>12, <1>13, <1>14
  DEF SystemNext, SystemStep

-----------------------------------------------------------------------------
(***************************************************************************)
(* The inductive invariant of the system: those of its parts, and that     *)
(* they agree on every request.                                            *)
(***************************************************************************)
SInv == Parts /\ \A r \in Requests : Linked(r)

(***************************************************************************)
(* The bank starts as Ledger does.                                         *)
(***************************************************************************)
LEMMA BankInit == Bank!Init => Ledgers!Init
BY DEF Bank!Init, Ledgers!Init, Bank!LedgerAccounts, Ledgers!LedgerAccounts, Bank!SeedEntry,
       Ledgers!SeedEntry, Bank!WelcomeKey, Ledgers!WelcomeKey, Bank!Unlocked, Ledgers!Unlocked,
       Bank!Cardinality, Ledgers!Cardinality

(***************************************************************************)
(* The parts agree before any request has arrived.                         *)
(***************************************************************************)
LEMMA InitSInv == SystemInit => SInv
<1> SUFFICES ASSUME SystemInit PROVE SInv
  OBVIOUS
<1>1. IInv
  BY InitIInv DEF SystemInit
<1>2. Ledgers!IInv
  BY BankConstants, BankInit, Ledgers!InitIInv DEF SystemInit
<1>3. \A r \in Requests : /\ pc[r] = "idle" /\ key[r] = None /\ answer[r] = "none" /\ tx[r] = "none"
                         /\ stmt[r] = "idle" /\ call[r] = None
  BY DEF SystemInit, Init, Bank!Init
<1>4. CallInv
  BY <1>3 DEF CallInv, SystemInit
<1>5. \A r \in Requests : Linked(r)
  BY <1>3 DEF Linked, Bank!Running
<1> QED
  BY <1>1, <1>2, <1>4, <1>5 DEF SInv, Parts

(***************************************************************************)
(* The parts keep agreeing.                                                *)
(***************************************************************************)
LEMMA StepSInv == SInv /\ [SystemNext]_all => SInv'
<1> SUFFICES ASSUME SInv, [SystemNext]_all PROVE SInv'
  OBVIOUS
<1>1. IInv'
  BY MiddlewareStep, StepIInv DEF SInv, Parts
<1>2. Ledgers!IInv'
  BY BankConstants, BankStep, Ledgers!StepIInv DEF SInv, Parts
<1>3. CallInv' /\ \A r \in Requests : Linked(r)'
  BY LinkedStep DEF SInv
<1> QED
  BY <1>1, <1>2, <1>3 DEF SInv, Parts

(***************************************************************************)
(* The inductive invariant holds in every reachable state of the system.   *)
(***************************************************************************)
THEOREM SystemInductive == SystemSpec => []SInv
BY InitSInv, StepSInv, PTL DEF SystemSpec

(***************************************************************************)
(* The state of the composition has its type, and middleware, handler and  *)
(* database agree on where each request's transaction stands.              *)
(***************************************************************************)
THEOREM SystemTypeCorrect == SystemSpec => []SystemTypeOK
<1>1. SInv => SystemTypeOK
  BY DEF SInv, Parts, IInv, CallInv, Linked, SystemTypeOK
<1> QED
  BY <1>1, SystemInductive, PTL

(***************************************************************************)
(* The middleware's part of every step being one Idempotency allows, what  *)
(* is proved of Idempotency holds of the system.                           *)
(***************************************************************************)
LEMMA MiddlewareImplemented == SystemSpec => Spec
<1>1. SystemInit => Init
  BY DEF SystemInit
<1> QED
  BY <1>1, MiddlewareStep, PTL DEF SystemSpec, Spec

(***************************************************************************)
(* No refusal, wherever in the system it comes from, leaves a record of    *)
(* its request behind: only _clear_on_handler_failure answers one.         *)
(***************************************************************************)
THEOREM RefusedFreesKey == SystemSpec => []RefusedHoldsNoKey
BY MiddlewareImplemented, RefusedFrees, PTL

-----------------------------------------------------------------------------
(***************************************************************************)
(* With OIDC on, extract_user_id finds the subject the routes see.         *)
(***************************************************************************)
LEMMA UserIsSubject == oidc => \A c : UserId(c) = Subject(c)
BY DEF UserId, Subject, Principal

(***************************************************************************)
(* Requests with one request key have one intent.                          *)
(***************************************************************************)
LEMMA KeyMeansIntent ==
  ASSUME NEW r \in Requests, NEW s \in Requests, Linked(r), Linked(s),
         pc[r] # "idle", pc[s] # "idle", key[r] = key[s], key[r] # None
  PROVE  Intent(r) = Intent(s)
<1>1. Keyed(call[r]) /\ Keyed(call[s]) /\ GenerateKey(call[r]) = GenerateKey(call[s])
  BY DEF Linked
<1>2. /\ call[r].op = call[s].op
      /\ UserId(call[r]) = UserId(call[s])
      /\ CanonicalPayload(call[r]) = CanonicalPayload(call[s])
  BY <1>1 DEF GenerateKey
<1>3. NormalizeDecimal(call[r].amount) = NormalizeDecimal(call[s].amount)
      /\ call[r].dest = call[s].dest /\ call[r].rest = call[s].rest
  BY <1>2 DEF CanonicalPayload
<1>4. Subject(call[r]) = Subject(call[s])
  BY <1>1, <1>2, UserIsSubject DEF Keyed
<1> QED
  BY <1>2, <1>3, <1>4 DEF Intent, NormalizeDecimal, Money

(***************************************************************************)
(* Attempts at one transfer or withdrawal have one request key.            *)
(***************************************************************************)
LEMMA IntentMeansKey ==
  ASSUME NEW r \in Requests, NEW s \in Requests, Linked(r), Linked(s),
         pc[r] # "idle", pc[s] # "idle", call[r].op \in MoneyOps, Intent(r) = Intent(s)
  PROVE  key[r] = key[s]
<1>1. /\ call[r].op = call[s].op /\ call[r].dest = call[s].dest /\ call[r].rest = call[s].rest
      /\ Subject(call[r]) = Subject(call[s])
      /\ Money(call[r].amount) = Money(call[s].amount)
  BY DEF Intent
<1>2. CASE ~oidc
  BY <1>2 DEF Linked, Keyed
<1>3. CASE oidc
  <2>1. UserId(call[r]) = UserId(call[s])
    BY <1>1, <1>3, UserIsSubject
  <2>2. Keyed(call[r]) <=> Keyed(call[s])
    BY <1>1, <2>1 DEF Keyed
  <2>3. GenerateKey(call[r]) = GenerateKey(call[s])
    BY <1>1, <2>1 DEF GenerateKey, CanonicalPayload, NormalizeDecimal, Money
  <2> QED
    BY <2>2, <2>3 DEF Linked
<1> QED
  BY <1>2, <1>3

(***************************************************************************)
(* A journal key is not the key of a welcome grant, admitted or not.       *)
(***************************************************************************)
LEMMA JournalKeyApart ==
  ASSUME NEW r \in Requests, call[r] \in Calls
  PROVE  \A a \in Accounts : JournalKey(r) # Ledgers!WelcomeKey(a)
<1>1. \A a, x, y : <<"welcome", a>> # <<"withdraw", x, y>>
  OBVIOUS
<1> QED
  BY <1>1, CallConstants DEF JournalKey, Ledgers!WelcomeKey

(***************************************************************************)
(* What is journaled under a request's journal key is the transfer or      *)
(* withdrawal of a request that committed.                                 *)
(***************************************************************************)
LEMMA EntryOrigin ==
  ASSUME SInv, NEW e \in journal, \A a \in Accounts : e.key # Ledgers!WelcomeKey(a)
  PROVE  /\ e.by \in Requests /\ stmt[e.by] = "done" /\ pc[e.by] # "idle" /\ tx[e.by] = "committed"
         /\ IsMoney(e.by) /\ JournalKey(e.by) = e.key
<1>1. Ledgers!EntryInv /\ CallInv /\ \A x \in Requests : Linked(x)
  BY DEF SInv, Parts, Ledgers!IInv
<1> DEFINE x == e.by
<1>2. x \in Requests /\ stmt[x] = "done" /\ e = Ledgers!EntryOf(x)
  BY <1>1 DEF Ledgers!EntryInv
<1>3. pc[x] # "idle" /\ tx[x] = "committed" /\ req[x] = BankRequest(x) /\ Admissible(call[x])
  BY <1>1, <1>2 DEF Linked
<1>4. call[x] \in Calls /\ call[x] # None
  BY <1>1, <1>2, <1>3 DEF CallInv
<1>5. e.key = BankRequest(x).key
  BY <1>2, <1>3 DEF Ledgers!EntryOf
<1> HIDE DEF x
<1>6. CASE call[x].op \in MoneyOps
  BY <1>2, <1>3, <1>4, <1>5, <1>6, BankRequestTyped DEF IsMoney, x
<1>7. CASE call[x].op \notin MoneyOps
  BY <1>2, <1>3, <1>4, <1>5, <1>7, BankRequestTyped DEF x
<1> QED
  BY <1>6, <1>7

(***************************************************************************)
(* Two attempts at the same transfer or withdrawal both move money only    *)
(* when the record of their request key has lapsed and LedgerService.post  *)
(* was given different keys.                                               *)
(***************************************************************************)
THEOREM PaidOnce == SystemSpec => []PaidOnceUnlessUnguarded
<1>1. ASSUME SInv PROVE PaidOnceUnlessUnguarded
  <2> SUFFICES ASSUME NEW r \in Requests, NEW s \in Requests, r # s, IsMoney(r), IsMoney(s),
                      Intent(r) = Intent(s), Moved(r), Moved(s)
               PROVE  /\ JournalKey(r) # JournalKey(s)
                      /\ key[r] = key[s] /\ key[r] \in lapsed \cup {None}
    BY DEF PaidOnceUnlessUnguarded
  <2>1. IInv /\ Ledgers!IInv /\ CallInv /\ Linked(r) /\ Linked(s)
    BY <1>1 DEF SInv, Parts
  <2>2. PICK e \in journal : e.by = r
    BY DEF Moved
  <2>3. PICK f \in journal : f.by = s
    BY DEF Moved
  <2>4. ASSUME NEW x \in Requests, IsMoney(x), NEW g \in journal, g.by = x
        PROVE  g.key = JournalKey(x) /\ tx[x] = "committed" /\ pc[x] # "idle"
    <3>1. stmt[x] = "done" /\ g = Ledgers!EntryOf(x)
      BY <2>1, <2>4, EndToEndConstants DEF Ledgers!IInv, Ledgers!EntryInv
    <3>2. Linked(x) /\ call[x] \in Calls
      BY <1>1, <2>1, <2>4 DEF SInv, CallInv, IsMoney
    <3>3. req[x] = BankRequest(x) /\ Admissible(call[x]) /\ tx[x] = "committed" /\ pc[x] # "idle"
      BY <3>1, <3>2 DEF Linked
    <3>4. g.key = BankRequest(x).key
      BY <3>1, <3>3 DEF Ledgers!EntryOf
    <3> QED
      BY <2>4, <3>2, <3>3, <3>4, BankRequestTyped DEF IsMoney
  <2>5. JournalKey(r) # JournalKey(s)
    BY <2>1, <2>2, <2>3, <2>4 DEF Ledgers!IInv, Ledgers!KeyInv, Ledgers!OneEntryPerKey
  <2>6. key[r] = key[s]
    BY <2>1, <2>2, <2>3, <2>4, IntentMeansKey DEF IsMoney
  <2>7. Engaged(r) /\ Engaged(s)
    BY <2>2, <2>3, <2>4 DEF Engaged
  <2>8. key[r] \in Keys => key[r] \in lapsed
    BY <2>1, <2>6, <2>7 DEF IInv, Hold
  <2>9. key[r] \in Keys \cup {None}
    BY <2>1 DEF IInv, TypeOK
  <2> QED
    BY <2>5, <2>6, <2>8, <2>9
<1> QED
  BY <1>1, SystemInductive, PTL

(***************************************************************************)
(* Whose response an answer carries: unless the reply preceded a commit    *)
(* that is still to come or failed, that of a request with the same intent *)
(* that committed.                                                         *)
(***************************************************************************)
LEMMA OkOrigin ==
  ASSUME SInv, NEW r \in Requests, answer[r] = "ok", ~Uncommitted(r)
  PROVE  /\ body[r] \in Requests /\ stmt[body[r]] = "done" /\ call[body[r]] \in Calls
         /\ Admissible(call[body[r]]) /\ req[body[r]] = BankRequest(body[r])
         /\ Intent(body[r]) = Intent(r)
<1>1. TypeOK /\ Control /\ OkIsEffective /\ CallInv /\ \A x \in Requests : Linked(x)
  BY DEF SInv, Parts, IInv
<1> DEFINE b == body[r]
<1>2. b \in Requests /\ key[b] = key[r] /\ tx[b] = "committed"
  BY <1>1 DEF OkIsEffective, Uncommitted
<1>3. stmt[b] = "done" /\ pc[b] # "idle" /\ req[b] = BankRequest(b) /\ Admissible(call[b])
  BY <1>1, <1>2 DEF Linked
<1>4. call[b] \in Calls
  BY <1>1, <1>2, <1>3 DEF CallInv
<1>5. pc[r] # "idle"
  BY <1>1 DEF Control
<1>6. CASE key[r] = None
  <2>1. b = r
    BY <1>1, <1>6 DEF Linked
  <2> QED
    BY <1>2, <1>3, <1>4, <2>1
<1>7. CASE key[r] # None
  <2>1. Intent(b) = Intent(r)
    BY <1>1, <1>2, <1>3, <1>5, <1>7, KeyMeansIntent
  <2> QED
    BY <1>2, <1>3, <1>4, <2>1
<1> QED
  BY <1>6, <1>7

(***************************************************************************)
(* A transfer or withdrawal answered with success is in the journal, for   *)
(* its user, recipient and amount, unless its key was used for something   *)
(* else as well or get_db has not (yet) committed behind the reply.        *)
(***************************************************************************)
THEOREM OkPaid == SystemSpec => []OkIsPaidUnlessReused
<1>1. ASSUME SInv PROVE OkIsPaidUnlessReused
  <2> SUFFICES ASSUME NEW r \in Requests, answer[r] = "ok", IsMoney(r), ~Uncommitted(r)
               PROVE  \E e \in journal :
                        /\ e.key = JournalKey(body[r])
                        /\ Intent(e.by) = Intent(r) \/ KeyReused(body[r])
    BY DEF OkIsPaidUnlessReused
  <2> DEFINE b == body[r]
  <2>1. /\ b \in Requests /\ stmt[b] = "done" /\ call[b] \in Calls /\ Admissible(call[b])
        /\ req[b] = BankRequest(b) /\ Intent(b) = Intent(r)
    BY <1>1, OkOrigin
  <2>2. call[b].op \in MoneyOps
    BY <2>1 DEF Intent, IsMoney
  <2> HIDE DEF b
  <2>3. req[b].op \in Ledgers!MoneyOps /\ req[b].key = JournalKey(b)
    BY <2>1, <2>2, BankRequestTyped DEF MoneyOps, Ledgers!MoneyOps
  <2>4. ~posting[b]
    BY <1>1, <2>1 DEF SInv, Parts, Ledgers!IInv, Ledgers!TypeInv, Ledgers!PostingControl
  <2>5. Ledgers!KeyUsed(JournalKey(b))
    BY <1>1, <2>1, <2>3, <2>4 DEF SInv, Parts, Ledgers!IInv, Ledgers!DoneInv
  <2>6. PICK e \in journal : e.key = JournalKey(b)
    BY <2>5 DEF Ledgers!KeyUsed
  <2>7. \A a \in Accounts : e.key # Ledgers!WelcomeKey(a)
    BY <2>1, <2>6, JournalKeyApart
  <2>8. e.by \in Requests /\ IsMoney(e.by) /\ JournalKey(e.by) = JournalKey(b)
    BY <1>1, <2>6, <2>7, EntryOrigin
  <2>9. Intent(e.by) = Intent(r) \/ KeyReused(b)
    BY <2>1, <2>8 DEF KeyReused
  <2> QED
    BY <2>6, <2>9 DEF b
<1> QED
  BY <1>1, SystemInductive, PTL

(***************************************************************************)
(* A skip answered with success has opened the account, and only a start   *)
(* that committed can have taken that back, unless get_db has not (yet)    *)
(* committed behind the reply.                                             *)
(***************************************************************************)
THEOREM SkippedOpen == SystemSpec => []SkippedIsOpenUnlessRestarted
<1>1. ASSUME SInv PROVE SkippedIsOpenUnlessRestarted
  <2> SUFFICES ASSUME NEW r \in Requests, answer[r] = "ok", call[r].op = "skip", ~Uncommitted(r)
               PROVE  /\ Bank!Granted(Origin(Subject(call[r])))
                      /\ \/ status[Origin(Subject(call[r]))] \in Bank!READY_STATUSES
                         \/ \E s \in Requests : /\ tx[s] = "committed" /\ call[s].op = "start"
                                                /\ req[s].src = Origin(Subject(call[r]))
    BY DEF SkippedIsOpenUnlessRestarted
  <2> DEFINE b == body[r]  a == Origin(Subject(call[r]))
  <2>1. /\ b \in Requests /\ stmt[b] = "done" /\ call[b] \in Calls /\ Admissible(call[b])
        /\ req[b] = BankRequest(b) /\ Intent(b) = Intent(r)
    BY <1>1, OkOrigin
  <2>2. call[b].op = "skip" /\ Subject(call[b]) = Subject(call[r])
    BY <2>1 DEF Intent
  <2> HIDE DEF b
  <2>3. req[b].op \in Ledgers!OpenOps /\ req[b].src = a
    BY <2>1, <2>2, BankRequestTyped DEF Ledgers!OpenOps
  <2> HIDE DEF a
  <2>4. Ledgers!OpenedInv /\ CallInv /\ \A x \in Requests : Linked(x)
    BY <1>1 DEF SInv, Parts, Ledgers!IInv
  <2>5. Ledgers!Granted(a) /\ (status[a] \in Ledgers!READY_STATUSES \/ Ledgers!Restarted(a))
    BY <2>1, <2>3, <2>4 DEF Ledgers!OpenedInv
  <2>6. Ledgers!Restarted(a) =>
          \E s \in Requests : tx[s] = "committed" /\ call[s].op = "start" /\ req[s].src = a
    <3> SUFFICES ASSUME NEW s \in Requests, stmt[s] = "done", req[s].op = "start", req[s].src = a
                 PROVE  tx[s] = "committed" /\ call[s].op = "start"
      BY DEF Ledgers!Restarted
    <3>1. /\ pc[s] # "idle" /\ tx[s] = "committed" /\ req[s] = BankRequest(s)
          /\ Admissible(call[s])
      BY <2>4 DEF Linked
    <3>2. call[s] \in Calls
      BY <2>4, <3>1 DEF CallInv
    <3> QED
      BY <3>1, <3>2, BankRequestTyped
  <2> QED
    BY <2>5, <2>6 DEF Bank!Granted, Ledgers!Granted, Bank!READY_STATUSES, Ledgers!READY_STATUSES, a
<1> QED
  BY <1>1, SystemInductive, PTL

(***************************************************************************)
(* A request with a key is refused only after _clear_on_handler_failure.   *)
(***************************************************************************)
LEMMA RefusedIsCleared ==
  ASSUME TypeOK, [Next]_vars, NEW r \in Requests, key[r] # None,
         answer[r] # "refused", answer'[r] = "refused"
  PROVE  Clear(r)
<1> USE DEF TypeOK, Goto, Answer
<1>1. ASSUME NEW s \in Requests, Arrive(s) \/ Skip(s) \/ Settle(s) \/ Crash(s) PROVE FALSE
  BY <1>1 DEF Arrive, Skip, Settle, Crash
<1>2. ASSUME NEW s \in Requests,
             Check(s) \/ Acquire(s) \/ AcquireUnanswered(s) \/ StorageError(s)
      PROVE  FALSE
  BY <1>2 DEF Check, Acquire, AcquireUnanswered, StorageError
<1>3. ASSUME NEW s \in Requests, Reply(s) \/ Raise(s) \/ Save(s) PROVE FALSE
  BY <1>3 DEF Reply, Raise, Save
<1>4. ASSUME NEW s \in Requests, Clear(s) PROVE s = r
  BY <1>4 DEF Clear
<1>5. ASSUME NEW k \in Keys, Expire(k) PROVE FALSE
  BY <1>5 DEF Expire
<1>6. ~UNCHANGED vars
  BY DEF vars
<1> QED
  BY <1>1, <1>2, <1>3, <1>4, <1>5, <1>6 DEF Next, Step

(***************************************************************************)
(* When a transfer or withdrawal is refused, no attempt at it has moved    *)
(* money under its journal key while the request key has not lapsed.       *)
(***************************************************************************)
THEOREM RefusedUnpaid == SystemSpec => RefusedIsUnpaidUnlessLapsed
<1> DEFINE A == \A r \in Requests :
                  answer[r] # "refused" /\ answer'[r] = "refused" /\ IsMoney(r)
                  /\ key[r] \in Keys \ lapsed'
                    => ~\E e \in journal : e.key = JournalKey(r) /\ Intent(e.by) = Intent(r)
<1>1. ASSUME SInv, [SystemNext]_all PROVE A
  <2> SUFFICES ASSUME NEW r \in Requests, answer[r] # "refused", answer'[r] = "refused",
                      IsMoney(r), key[r] \in Keys \ lapsed',
                      NEW e \in journal, e.key = JournalKey(r), Intent(e.by) = Intent(r)
               PROVE  FALSE
    OBVIOUS
  <2>1. IInv /\ CallInv /\ \A x \in Requests : Linked(x)
    BY <1>1 DEF SInv, Parts
  <2>2. Clear(r)
    BY <1>1, <2>1, MiddlewareStep, RefusedIsCleared, IdempotencyConstants DEF IInv
  <2>3. pc[r] = "clear" /\ tx[r] = "aborted" /\ key[r] \in Keys \ lapsed
    BY <2>2 DEF Clear
  <2>4. call[r] \in Calls
    BY <2>1 DEF CallInv, IsMoney
  <2>5. e.by \in Requests /\ tx[e.by] = "committed" /\ pc[e.by] # "idle"
    BY <1>1, <2>4, JournalKeyApart, EntryOrigin
  <2>6. key[e.by] = key[r]
    BY <2>1, <2>3, <2>5, IntentMeansKey DEF IsMoney
  <2>7. Engaged(r) /\ Engaged(e.by) /\ r # e.by
    BY <2>3, <2>5 DEF Engaged
  <2> QED
    BY <2>1, <2>3, <2>5, <2>6, <2>7 DEF IInv, Hold
<1>2. SInv /\ [SystemNext]_all => [A]_all
  BY <1>1
<1> QED
  BY <1>2, SystemInductive, PTL DEF SystemSpec, RefusedIsUnpaidUnlessLapsed

=============================================================================
