------------------------- MODULE RateLimiterProofs -------------------------
(***************************************************************************)
(* Proofs about RateLimiter, for any set of requests, limit and window.    *)
(*                                                                         *)
(* AdmissionBounded is not inductive: the bound on those admitted follows  *)
(* from their counts being different and within the limit, and a count is  *)
(* compared with the limit two commands after INCR returned it, when the   *)
(* counter may be gone.  Counted states what stays true of the counts.     *)
(***************************************************************************)
EXTENDS RateLimiter, FiniteSetTheorems, TLAPS

(***************************************************************************)
(* The requests of a window have different counts, none above the counter, *)
(* and a request that passed was counted within the limit.                 *)
(***************************************************************************)
Counted ==
  /\ \A r \in members : pc[r] \notin {"incr", "again"} /\ got[r] \in 1..count
  /\ \A r, s \in members : got[r] = got[s] => r = s
  /\ \A r \in Requests : pc[r] \in {"incr", "again"} => verdict[r] = "none"
  /\ \A r \in Requests : verdict[r] = "allowed" => got[r] <= Limit

(***************************************************************************)
(* A counter without a TTL will be given one by a request at EXPIRE, or    *)
(* the request that should have given it one is lost.                      *)
(***************************************************************************)
TtlUnlessLost ==
  ttl = NoTTL => lost \/ \E r \in Requests : pc[r] = "expire"

(***************************************************************************)
(* The counter is 0 exactly when the key does not exist.                   *)
(***************************************************************************)
KeyCounts == count = 0 <=> ttl = NoKey

IInv == TypeOK /\ Counted /\ KeyCounts /\ TtlUnlessLost

-----------------------------------------------------------------------------
(***************************************************************************)
(* Before the first request there is no counter.                           *)
(***************************************************************************)
LEMMA InitIInv == Init => IInv
<1> SUFFICES ASSUME Init PROVE IInv
  OBVIOUS
<1>1. lost \in BOOLEAN
  BY DEF Init
<1>2. TypeOK
  BY <1>1, RateLimiterConstants DEF Init, TypeOK, NoKey
<1>3. Counted
  BY DEF Init, Counted
<1>4. KeyCounts /\ TtlUnlessLost
  BY DEF Init, KeyCounts, TtlUnlessLost, NoKey, NoTTL
<1> QED
  BY <1>2, <1>3, <1>4 DEF IInv

(***************************************************************************)
(* Every command preserves the types.                                      *)
(***************************************************************************)
LEMMA TypeStep == TypeOK /\ [Next]_vars => TypeOK'
<1> SUFFICES ASSUME TypeOK, [Next]_vars PROVE TypeOK'
  OBVIOUS
<1> USE RateLimiterConstants DEF TypeOK, NoKey, NoTTL, Goto
<1>1. CASE Tick
  BY <1>1 DEF Tick
<1>2. ASSUME NEW r \in Requests, Incr(r) PROVE TypeOK'
  BY <1>2 DEF Incr, Count
<1>3. ASSUME NEW r \in Requests, IncrUnanswered(r) PROVE TypeOK'
  BY <1>3 DEF IncrUnanswered, Count
<1>4. ASSUME NEW r \in Requests, SetExpire(r) PROVE TypeOK'
  BY <1>4 DEF SetExpire
<1>5. ASSUME NEW r \in Requests, ReadTtl(r) PROVE TypeOK'
  BY <1>5 DEF ReadTtl, RetryAfter
<1>6. ASSUME NEW r \in Requests, RedisFails(r) PROVE TypeOK'
  BY <1>6 DEF RedisFails
<1>7. ASSUME NEW r \in Requests, Crash(r) PROVE TypeOK'
  BY <1>7 DEF Crash
<1>8. CASE UNCHANGED vars
  BY <1>8 DEF vars
<1> QED
  BY <1>1, <1>2, <1>3, <1>4, <1>5, <1>6, <1>7, <1>8 DEF Next, Step

(***************************************************************************)
(* Every command preserves what is known of the counts: INCR returns one   *)
(* above all others, and the expiry of the key forgets its members.        *)
(***************************************************************************)
LEMMA CountedStep == TypeOK /\ Counted /\ [Next]_vars => Counted'
<1> SUFFICES ASSUME TypeOK, Counted, [Next]_vars PROVE Counted'
  OBVIOUS
<1> USE RateLimiterConstants DEF TypeOK, Counted, NoKey, NoTTL, Goto
<1>1. CASE Tick
  BY <1>1 DEF Tick
<1>2. ASSUME NEW r \in Requests, Incr(r) PROVE Counted'
  <2>1. count' = count + 1 /\ got' = [got EXCEPT ![r] = count + 1]
        /\ members' = members \cup {r} /\ verdict' = verdict /\ pc[r] \in {"incr", "again"}
    BY <1>2 DEF Incr, Count
  <2>2. pc'[r] \in {"expire", "ttl"} /\ \A s \in Requests \ {r} : pc'[s] = pc[s]
    BY <1>2 DEF Incr
  <2>3. r \notin members /\ verdict[r] = "none"
    BY <2>1
  <2> QED
    BY <2>1, <2>2, <2>3
<1>3. ASSUME NEW r \in Requests, IncrUnanswered(r) PROVE Counted'
  BY <1>3 DEF IncrUnanswered, Count
<1>4. ASSUME NEW r \in Requests, SetExpire(r) PROVE Counted'
  BY <1>4 DEF SetExpire
<1>5. ASSUME NEW r \in Requests, ReadTtl(r) PROVE Counted'
  BY <1>5 DEF ReadTtl, Allowed
<1>6. ASSUME NEW r \in Requests, RedisFails(r) PROVE Counted'
  BY <1>6 DEF RedisFails
<1>7. ASSUME NEW r \in Requests, Crash(r) PROVE Counted'
  BY <1>7 DEF Crash
<1>8. CASE UNCHANGED vars
  BY <1>8 DEF vars
<1> QED
  BY <1>1, <1>2, <1>3, <1>4, <1>5, <1>6, <1>7, <1>8 DEF Next, Step

(***************************************************************************)
(* Every command preserves the relation of counter, TTL and the request    *)
(* that owes the EXPIRE.                                                   *)
(***************************************************************************)
LEMMA TtlStep ==
  TypeOK /\ KeyCounts /\ TtlUnlessLost /\ [Next]_vars => KeyCounts' /\ TtlUnlessLost'
<1> SUFFICES ASSUME TypeOK, KeyCounts, TtlUnlessLost, [Next]_vars
             PROVE  KeyCounts' /\ TtlUnlessLost'
  OBVIOUS
<1> USE RateLimiterConstants DEF TypeOK, KeyCounts, TtlUnlessLost, NoKey, NoTTL, Goto
<1>1. CASE Tick
  BY <1>1 DEF Tick
<1>2. ASSUME NEW r \in Requests, Incr(r) PROVE KeyCounts' /\ TtlUnlessLost'
  <2>1. count' = count + 1 /\ ttl' = (IF ttl = NoKey THEN NoTTL ELSE ttl) /\ lost' = lost
    BY <1>2 DEF Incr, Count
  <2>2. CASE ttl = NoKey
    <3>1. pc'[r] = "expire"
      BY <1>2, <2>1, <2>2 DEF Incr
    <3> QED
      BY <2>1, <2>2, <3>1
  <2>3. CASE ttl # NoKey
    <3>1. \A s \in Requests : pc[s] = "expire" => pc'[s] = "expire"
      BY <1>2 DEF Incr
    <3> QED
      BY <2>1, <2>3, <3>1
  <2> QED
    BY <2>2, <2>3
<1>3. ASSUME NEW r \in Requests, IncrUnanswered(r) PROVE KeyCounts' /\ TtlUnlessLost'
  <2>1. count' = count + 1 /\ ttl' = (IF ttl = NoKey THEN NoTTL ELSE ttl)
        /\ \A s \in Requests : pc[s] = "expire" => pc'[s] = "expire"
    BY <1>3 DEF IncrUnanswered, Count
  <2>2. lost \/ ttl = NoKey => lost'
    BY <1>3 DEF IncrUnanswered
  <2> QED
    BY <2>1, <2>2
<1>4. ASSUME NEW r \in Requests, SetExpire(r) PROVE KeyCounts' /\ TtlUnlessLost'
  BY <1>4 DEF SetExpire
<1>5. ASSUME NEW r \in Requests, ReadTtl(r) PROVE KeyCounts' /\ TtlUnlessLost'
  BY <1>5 DEF ReadTtl
<1>6. ASSUME NEW r \in Requests, RedisFails(r) PROVE KeyCounts' /\ TtlUnlessLost'
  BY <1>6 DEF RedisFails
<1>7. ASSUME NEW r \in Requests, Crash(r) PROVE KeyCounts' /\ TtlUnlessLost'
  BY <1>7 DEF Crash
<1>8. CASE UNCHANGED vars
  BY <1>8 DEF vars
<1> QED
  BY <1>1, <1>2, <1>3, <1>4, <1>5, <1>6, <1>7, <1>8 DEF Next, Step

(***************************************************************************)
(* The inductive invariant holds in every reachable state of the limiter.  *)
(***************************************************************************)
THEOREM Inductive == Spec => []IInv
<1>1. IInv /\ [Next]_vars => IInv'
  BY TypeStep, CountedStep, TtlStep DEF IInv
<1> QED
  BY <1>1, InitIInv, PTL DEF Spec

(***************************************************************************)
(* The limiter's state always has its type; the Retry-After it answers is  *)
(* a delay between 0 and the window whenever the key expires.              *)
(***************************************************************************)
THEOREM TypeCorrect == Spec => []TypeOK
<1>1. IInv => TypeOK
  BY DEF IInv
<1> QED
  BY <1>1, Inductive, PTL

(***************************************************************************)
(* RateLimiter.allow admits at most Limit of the requests of one window:   *)
(* their counts map them one to one into 1..Limit.                         *)
(***************************************************************************)
THEOREM Admission == Spec => []AdmissionBounded
<1>1. IInv => AdmissionBounded
  <2> SUFFICES ASSUME IInv PROVE AdmissionBounded
    OBVIOUS
  <2> DEFINE S == {r \in members : verdict[r] = "allowed"}
             f == [r \in S |-> got[r]]
  <2>1. f \in [S -> 1..Limit]
    BY RateLimiterConstants DEF IInv, TypeOK, Counted
  <2>2. f \in Injection(S, 1..Limit)
    BY <2>1 DEF IInv, Counted, Injection, IsInjective
  <2>3. IsFiniteSet(1..Limit) /\ Cardinality(1..Limit) = Limit
    BY RateLimiterConstants, FS_Interval
  <2>4. Cardinality(S) <= Cardinality(1..Limit)
    BY <2>2, <2>3, FS_Injection
  <2> QED
    BY <2>3, <2>4 DEF AdmissionBounded
<1> QED
  BY <1>1, Inductive, PTL

(***************************************************************************)
(* The only way to a counter that never expires is the loss of the EXPIRE  *)
(* that its creator owed it: the safety part of WindowEndsUnlessLost.      *)
(***************************************************************************)
THEOREM StrandedOnlyWhenLost == Spec => []TtlUnlessLost
<1>1. IInv => TtlUnlessLost
  BY DEF IInv
<1> QED
  BY <1>1, Inductive, PTL

=============================================================================
