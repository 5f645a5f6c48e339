---------------------------- MODULE RateLimiter ----------------------------
(***************************************************************************)
(* _enforce_rate_limit and RateLimiter.allow for one subject (subjects     *)
(* have keys of their own and do not meet): a Redis counter incremented by *)
(* every request, given its TTL by the request that created it.  One       *)
(* action stands for one Redis command.                                    *)
(***************************************************************************)
EXTENDS Integers, FiniteSets

CONSTANTS
  Requests,  \* requests of the subject
  Limit,     \* settings.rate_limit_requests
  Window     \* settings.rate_limit_window_seconds

ASSUME RateLimiterConstants ==
  /\ Limit \in Nat \ {0}
  /\ Window \in Nat \ {0}
  /\ IsFiniteSet(Requests)

NoTTL == -1   \* TTL's reply for a key that does not expire
NoKey == -2   \* TTL's reply for a key that does not exist

VARIABLES
  count,    \* the counter, 0 when the key does not exist
  ttl,      \* what TTL replies: seconds left, NoTTL or NoKey
  pc,       \* the command each request is at
  got,      \* the count INCR returned to the request
  verdict,  \* whether the request passed
  retry,    \* the Retry-After it was told
  members,  \* history: requests counted since the key was created
  lost      \* history: the request that created the key did not reach EXPIRE

vars == <<count, ttl, pc, got, verdict, retry, members, lost>>

Init ==
  /\ count = 0
  /\ ttl = NoKey
  /\ pc = [r \in Requests |-> "incr"]
  /\ got = [r \in Requests |-> 0]
  /\ verdict = [r \in Requests |-> "none"]
  /\ retry = [r \in Requests |-> 0]
  /\ members = {}
  /\ lost = FALSE

Goto(r, l) == pc' = [pc EXCEPT ![r] = l]

\* Fault: the limit itself is refused to nobody.
AllowedOffByOne(n) == n <= Limit + 1

Allowed(n) == n <= Limit

(***************************************************************************)
(* INCR creates the key without a TTL; the request that counted 1 goes on  *)
(* to EXPIRE.                                                              *)
(***************************************************************************)
Count ==
  /\ count' = count + 1
  /\ ttl' = IF ttl = NoKey THEN NoTTL ELSE ttl

Incr(r) ==
  /\ pc[r] \in {"incr", "again"}
  /\ Count
  /\ got' = [got EXCEPT ![r] = count']
  /\ Goto(r, IF count' = 1 THEN "expire" ELSE "ttl")
  /\ members' = members \cup {r}
  /\ UNCHANGED <<verdict, retry, lost>>

(***************************************************************************)
(* INCR takes effect but its reply is lost, and the client library repeats *)
(* it (once here).                                                         *)
(***************************************************************************)
IncrUnanswered(r) ==
  /\ pc[r] = "incr"
  /\ Count
  /\ Goto(r, "again")
  /\ lost' = (lost \/ ttl = NoKey)
  /\ UNCHANGED <<got, verdict, retry, members>>

\* Fault: the TTL of the first request is never set.
SetExpireForgotten(r) ==
  /\ pc[r] = "expire"
  /\ Goto(r, "ttl")
  /\ UNCHANGED <<count, ttl, got, verdict, retry, members, lost>>

(***************************************************************************)
(* EXPIRE, by the request that counted 1.                                  *)
(***************************************************************************)
SetExpire(r) ==
  /\ pc[r] = "expire"
  /\ ttl' = IF ttl = NoKey THEN NoKey ELSE Window
  /\ Goto(r, "ttl")
  /\ UNCHANGED <<count, got, verdict, retry, members, lost>>

\* Fault: the replies -1 and -2 are passed on.
RetryAfterRaw == ttl

(***************************************************************************)
(* TTL's reply as the seconds to wait: the whole window when it is         *)
(* negative.                                                               *)
(***************************************************************************)
RetryAfter == IF ttl < 0 THEN Window ELSE ttl

ReadTtl(r) ==
  /\ pc[r] = "ttl"
  /\ verdict' = [verdict EXCEPT ![r] = IF Allowed(got[r]) THEN "allowed" ELSE "limited"]
  /\ retry' = [retry EXCEPT ![r] = RetryAfter]
  /\ Goto(r, "done")
  /\ UNCHANGED <<count, ttl, got, members, lost>>

(***************************************************************************)
(* RedisError on any of the three commands: the request is refused, and    *)
(* what the earlier commands did stays.                                    *)
(***************************************************************************)
RedisFails(r) ==
  /\ pc[r] \in {"incr", "again", "expire", "ttl"}
  /\ verdict' = [verdict EXCEPT ![r] = "limited"]
  /\ retry' = [retry EXCEPT ![r] = Window]
  /\ Goto(r, "done")
  /\ lost' = (lost \/ pc[r] = "expire")
  /\ UNCHANGED <<count, ttl, got, members>>

(***************************************************************************)
(* The worker dies between two commands.                                   *)
(***************************************************************************)
Crash(r) ==
  /\ pc[r] \in {"again", "expire", "ttl"}
  /\ Goto(r, "dead")
  /\ lost' = (lost \/ pc[r] = "expire")
  /\ UNCHANGED <<count, ttl, got, verdict, retry, members>>

(***************************************************************************)
(* Redis: a second passes for a key with a TTL, which is deleted at 0.     *)
(***************************************************************************)
Tick ==
  /\ ttl >= 0
  /\ ttl' = IF ttl = 0 THEN NoKey ELSE ttl - 1
  /\ count' = IF ttl = 0 THEN 0 ELSE count
  /\ members' = IF ttl = 0 THEN {} ELSE members
  /\ UNCHANGED <<pc, got, verdict, retry, lost>>

Step(r) == Incr(r) \/ IncrUnanswered(r) \/ SetExpire(r) \/ ReadTtl(r) \/ RedisFails(r)

Next == Tick \/ \E r \in Requests : Step(r) \/ Crash(r)

Spec == Init /\ [][Next]_vars

(***************************************************************************)
(* Time passes, and a request that has begun is driven on; nothing obliges *)
(* a client to send.                                                       *)
(***************************************************************************)
Fairness ==
  /\ WF_vars(Tick)
  /\ \A r \in Requests : WF_vars(pc[r] # "incr" /\ Step(r))

FairSpec == Spec /\ Fairness

-----------------------------------------------------------------------------
(***************************************************************************)
(* Properties.                                                             *)
(***************************************************************************)

(***************************************************************************)
(* Types; in particular the Retry-After of a refused request is never one  *)
(* of TTL's negative replies, whenever the key disappears.                 *)
(***************************************************************************)
TypeOK ==
  /\ count \in Nat
  /\ ttl \in NoKey..Window
  /\ pc \in [Requests -> {"incr", "again", "expire", "ttl", "done", "dead"}]
  /\ got \in [Requests -> Nat]
  /\ verdict \in [Requests -> {"none", "allowed", "limited"}]
  /\ retry \in [Requests -> 0..Window]
  /\ members \subseteq Requests
  /\ lost \in BOOLEAN

(***************************************************************************)
(* Of the requests counted in one window at most Limit pass, whatever the  *)
(* interleaving of their INCR, EXPIRE and TTL and of the key's expiry.     *)
(***************************************************************************)
AdmissionBounded ==
  Cardinality({r \in members : verdict[r] = "allowed"}) <= Limit

(***************************************************************************)
(* A subject over its limit gets a new window, unless the request that     *)
(* created the counter failed, died or was counted twice before EXPIRE.    *)
(***************************************************************************)
WindowEndsUnlessLost == ~Allowed(count) ~> (count = 0 \/ lost)

(***************************************************************************)
(* "Fixed-window counter per subject" (RateLimiter): a subject over its    *)
(* limit gets a new window.                                                *)
(***************************************************************************)
WindowEnds == ~Allowed(count) ~> count = 0
=============================================================================
