---------------------------- MODULE Idempotency ----------------------------
(***************************************************************************)
(* IdempotencyMiddleware over IdempotencyService: one Redis record per     *)
(* request key (route, user and canonical payload), looked up, taken with  *)
(* SET NX, and overwritten or deleted after the handler.  One action       *)
(* stands for one awaited Redis command or for the handler.  A record has  *)
(* no owner in the code; the field by says whose response a COMPLETED      *)
(* record holds, and is history in a PROCESSING one.                       *)
(*                                                                         *)
(* A Redis command may fail before or after it took effect.  The handler's *)
(* database transaction may commit although the handler raises (the        *)
(* acknowledgement of COMMIT is lost) or the worker dies.                  *)
(*                                                                         *)
(* FAILED records are left out: mark_failed has no caller in the app.      *)
(***************************************************************************)
EXTENDS Integers

CONSTANTS
  Keys,         \* request keys: route, user and payload hash
  Requests,     \* requests the server receives
  None,         \* no record, no key, no response
  CommitOrders, \* whether get_db commits before or after the response
                \* reaches the middleware
  Lapses        \* the record states whose TTL can elapse in the behaviour

RecordStates == {"processing", "completed"}
Record == [status : RecordStates, by : Requests]

ASSUME IdempotencyConstants ==
  /\ None \notin Requests \cup Keys \cup Record
  /\ CommitOrders \subseteq {"before", "after"}
  /\ Lapses \subseteq RecordStates

VARIABLES
  record,   \* the Redis record of each key
  pc,       \* the middleware's position in each request
  key,      \* the request's key; None while idle or when skipped
  answer,   \* what the client was told
  body,     \* whose response the client was given
  tx,       \* the database transaction of the request's handler
  lapsed    \* history: keys whose record was lost under an unfinished or
            \* committed request

vars == <<record, pc, key, answer, body, tx, lapsed>>

PCs == {"idle", "check", "acquire", "handler", "save", "clear", "done", "dead"}
Answers == {"none", "ok", "conflict", "unavailable", "refused"}

Running(r) == pc[r] \notin {"idle", "done", "dead"}

Init ==
  /\ record = [k \in Keys |-> None]
  /\ pc = [r \in Requests |-> "idle"]
  /\ key = [r \in Requests |-> None]
  /\ answer = [r \in Requests |-> "none"]
  /\ body = [r \in Requests |-> None]
  /\ tx = [r \in Requests |-> "none"]
  /\ lapsed = {}

Goto(r, l) == pc' = [pc EXCEPT ![r] = l]

(***************************************************************************)
(* The request is answered: a says how, b whose response it carries.       *)
(***************************************************************************)
Answer(r, a, b) ==
  /\ Goto(r, "done")
  /\ answer' = [answer EXCEPT ![r] = a]
  /\ body' = [body EXCEPT ![r] = b]

SetRecord(k, v) == record' = [record EXCEPT ![k] = v]

-----------------------------------------------------------------------------
(***************************************************************************)
(* dispatch: a mutating request with a user and something to hash gets a   *)
(* key; _maybe_skip lets any other request through to its handler.         *)
(***************************************************************************)
Arrive(r) ==
  /\ pc[r] = "idle"
  /\ \E k \in Keys : key' = [key EXCEPT ![r] = k]
  /\ Goto(r, "check")
  /\ UNCHANGED <<record, answer, body, tx, lapsed>>

Skip(r) ==
  /\ pc[r] = "idle"
  /\ Goto(r, "handler")
  /\ UNCHANGED <<record, key, answer, body, tx, lapsed>>

(***************************************************************************)
(* _resolve_existing_record: replay a completed response, refuse while one *)
(* is processing, go on when there is none.  The replayed response is      *)
(* rebuilt from the record, without its sensitive fields and with a body   *)
(* that is not an object wrapped in one; body says whose response it is,   *)
(* not its bytes.                                                          *)
(***************************************************************************)
Check(r) ==
  LET rec == record[key[r]] IN
  /\ pc[r] = "check"
  /\ \/ rec = None /\ Goto(r, "acquire") /\ UNCHANGED <<answer, body>>
     \/ rec # None /\ rec.status = "completed" /\ Answer(r, "ok", rec.by)
     \/ rec # None /\ rec.status = "processing" /\ Answer(r, "conflict", None)
  /\ UNCHANGED <<record, key, tx, lapsed>>

\* Fault: SET without nx.
AcquireOverwriting(r) ==
  /\ pc[r] = "acquire"
  /\ SetRecord(key[r], [status |-> "processing", by |-> r])
  /\ Goto(r, "handler")
  /\ UNCHANGED <<key, answer, body, tx, lapsed>>

(***************************************************************************)
(* _acquire_processing_lock: SET NX decides a race that check let through. *)
(***************************************************************************)
Acquire(r) ==
  /\ pc[r] = "acquire"
  /\ \/ /\ record[key[r]] = None
        /\ SetRecord(key[r], [status |-> "processing", by |-> r])
        /\ Goto(r, "handler")
        /\ UNCHANGED <<answer, body>>
     \/ /\ record[key[r]] # None
        /\ Answer(r, "conflict", None)
        /\ UNCHANGED record
  /\ UNCHANGED <<key, tx, lapsed>>

(***************************************************************************)
(* The SET NX took effect and its reply was lost: the client library       *)
(* reports an error (503), or repeats the command and finds its own record *)
(* (409).                                                                  *)
(***************************************************************************)
AcquireUnanswered(r) ==
  /\ pc[r] = "acquire"
  /\ record[key[r]] = None
  /\ SetRecord(key[r], [status |-> "processing", by |-> r])
  /\ \E a \in {"unavailable", "conflict"} : Answer(r, a, None)
  /\ UNCHANGED <<key, tx, lapsed>>

(***************************************************************************)
(* GET, SET or DEL raises RedisError without having had an effect: 503.    *)
(* After the handler this hides its outcome from the client.               *)
(***************************************************************************)
StorageError(r) ==
  /\ pc[r] \in {"check", "acquire", "save", "clear"}
  /\ Answer(r, "unavailable", None)
  /\ UNCHANGED <<record, key, tx, lapsed>>

-----------------------------------------------------------------------------
(***************************************************************************)
(* call_next: the handler replies with a status below 400.  Depending on   *)
(* the framework's version, get_db's commit precedes the reply or is still *)
(* open when the middleware has it.                                        *)
(***************************************************************************)
Reply(r) ==
  /\ pc[r] = "handler"
  /\ \E o \in CommitOrders :
       tx' = [tx EXCEPT ![r] = IF o = "before" THEN "committed" ELSE "open"]
  /\ \/ key[r] # None /\ Goto(r, "save") /\ UNCHANGED <<answer, body>>
     \/ key[r] = None /\ Answer(r, "ok", r)
  /\ UNCHANGED <<record, key, lapsed>>

\* Fault: the response is cached whatever its status.
RaiseCached(r) ==
  /\ pc[r] = "handler"
  /\ tx' = [tx EXCEPT ![r] = "aborted"]
  /\ \/ key[r] # None /\ Goto(r, "save") /\ UNCHANGED <<answer, body>>
     \/ key[r] = None /\ Answer(r, "refused", None)
  /\ UNCHANGED <<record, key, lapsed>>

(***************************************************************************)
(* call_next: an error status or an exception.  get_db has rolled back, or *)
(* COMMIT itself failed and its outcome is open.                           *)
(***************************************************************************)
Raise(r) ==
  /\ pc[r] = "handler"
  /\ \E t \in {"aborted"} \cup (IF "before" \in CommitOrders THEN {"open"} ELSE {}) :
       tx' = [tx EXCEPT ![r] = t]
  /\ \/ key[r] # None /\ Goto(r, "clear") /\ UNCHANGED <<answer, body>>
     \/ key[r] = None /\ Answer(r, "refused", None)
  /\ UNCHANGED <<record, key, lapsed>>

(***************************************************************************)
(* The database settles an open transaction.                               *)
(***************************************************************************)
Settle(r) ==
  /\ tx[r] = "open"
  /\ \E t \in {"committed", "aborted"} : tx' = [tx EXCEPT ![r] = t]
  /\ UNCHANGED <<record, pc, key, answer, body, lapsed>>

\* Fault: the record is deleted on success too.
SaveForgotten(r) ==
  /\ pc[r] = "save"
  /\ SetRecord(key[r], None)
  /\ Answer(r, "ok", r)
  /\ UNCHANGED <<key, tx, lapsed>>

(***************************************************************************)
(* set_completed overwrites whatever record the key has; the client gets   *)
(* the response, or a 503 when the reply of Redis is lost.                 *)
(***************************************************************************)
Save(r) ==
  /\ pc[r] = "save"
  /\ SetRecord(key[r], [status |-> "completed", by |-> r])
  /\ \/ Answer(r, "ok", r)
     \/ Answer(r, "unavailable", None)
  /\ UNCHANGED <<key, tx, lapsed>>

(***************************************************************************)
(* _clear_on_handler_failure: DEL removes whatever record the key has; the *)
(* client gets the handler's error, or a 503 when the reply is lost.       *)
(***************************************************************************)
Clear(r) ==
  /\ pc[r] = "clear"
  /\ SetRecord(key[r], None)
  /\ lapsed' = IF tx[r] = "aborted" THEN lapsed ELSE lapsed \cup {key[r]}
  /\ \/ Answer(r, "refused", None)
     \/ Answer(r, "unavailable", None)
  /\ UNCHANGED <<key, tx>>

\* Fault: set_processing without ex.
ExpirableCompletedOnly(k) == record[k] # None /\ record[k].status = "completed"

-----------------------------------------------------------------------------
(***************************************************************************)
(* Both SETs give the record a TTL (ttl_processing, ttl_completed).        *)
(***************************************************************************)
Expirable(k) == record[k] # None /\ record[k].status \in Lapses

Expire(k) ==
  /\ Expirable(k)
  /\ SetRecord(k, None)
  /\ lapsed' = lapsed \cup {k}
  /\ UNCHANGED <<pc, key, answer, body, tx>>

(***************************************************************************)
(* The worker dies or the task is cancelled, which `except Exception` does *)
(* not catch: nothing is cleaned up, and a transaction in the handler is   *)
(* left to the database.                                                   *)
(***************************************************************************)
Crash(r) ==
  /\ Running(r)
  /\ Goto(r, "dead")
  /\ tx' = [tx EXCEPT ![r] = IF pc[r] = "handler" THEN "open" ELSE @]
  /\ UNCHANGED <<record, key, answer, body, lapsed>>

Step(r) ==
  \/ Check(r) \/ Acquire(r) \/ AcquireUnanswered(r) \/ StorageError(r)
  \/ Reply(r) \/ Raise(r) \/ Save(r) \/ Clear(r)

Next ==
  \/ \E r \in Requests : Arrive(r) \/ Skip(r) \/ Step(r) \/ Settle(r) \/ Crash(r)
  \/ \E k \in Keys : Expire(k)

Spec == Init /\ [][Next]_vars

(***************************************************************************)
(* The event loop drives a request on, the database settles transactions,  *)
(* and Redis expires records.                                              *)
(***************************************************************************)
Fairness ==
  /\ \A r \in Requests : WF_vars(Step(r)) /\ WF_vars(Settle(r))
  /\ \A k \in Keys : WF_vars(Expire(k))

FairSpec == Spec /\ Fairness

-----------------------------------------------------------------------------
(***************************************************************************)
(* Properties.                                                             *)
(***************************************************************************)

(***************************************************************************)
(* Every variable holds values of its type.                                *)
(***************************************************************************)
TypeOK ==
  /\ record \in [Keys -> Record \cup {None}]
  /\ pc \in [Requests -> PCs]
  /\ key \in [Requests -> Keys \cup {None}]
  /\ answer \in [Requests -> Answers]
  /\ body \in [Requests -> Requests \cup {None}]
  /\ tx \in [Requests -> {"none", "open", "committed", "aborted"}]
  /\ lapsed \subseteq Keys
  /\ \A r \in Requests : pc[r] \in {"check", "acquire", "save", "clear"} => key[r] # None

(***************************************************************************)
(* The request is in its handler or past it, or its transaction has or may *)
(* have an effect.                                                         *)
(***************************************************************************)
Engaged(r) ==
  pc[r] \in {"handler", "save", "clear"} \/ tx[r] \in {"open", "committed"}

(***************************************************************************)
(* Of the requests with one key at most one reaches its handler or has an  *)
(* effect, through Redis errors, lost replies and crashes, as long as the  *)
(* record has not expired and was not deleted under an open COMMIT.        *)
(***************************************************************************)
SingleRunUnlessLapsed ==
  \A r, s \in Requests :
    r # s /\ key[r] = key[s] /\ key[r] \in Keys \ lapsed
      => ~(Engaged(r) /\ Engaged(s))

(***************************************************************************)
(* What a transaction can have come to when its handler has replied.       *)
(***************************************************************************)
Replied ==
  IF "after" \in CommitOrders THEN {"open", "committed", "aborted"} ELSE {"committed"}

(***************************************************************************)
(* A successful answer, first or replayed, is the response of a request    *)
(* with the same key whose transaction committed (was at least attempted,  *)
(* where the reply precedes the commit).                                   *)
(***************************************************************************)
OkIsEffective ==
  \A r \in Requests : answer[r] = "ok" =>
    /\ body[r] \in Requests
    /\ key[body[r]] = key[r]
    /\ tx[body[r]] \in Replied

(***************************************************************************)
(* All successful answers for one key carry the same response, as long as  *)
(* the key has not lapsed.                                                 *)
(***************************************************************************)
AnswersAgree ==
  \A r, s \in Requests :
    /\ answer[r] = "ok" /\ answer[s] = "ok"
    /\ key[r] = key[s] /\ key[r] \in Keys \ lapsed
    => body[r] = body[s]

(***************************************************************************)
(* Wherever a request is refused after it took its key (authentication,    *)
(* validation, the rate limiter, the handler), no record of it outlives    *)
(* the refusal: the corrected request is not answered 409 on its account.  *)
(***************************************************************************)
RefusedHoldsNoKey ==
  \A r \in Requests, k \in Keys :
    answer[r] = "refused" => record[k] = None \/ record[k].by # r

(***************************************************************************)
(* Whatever dies while it holds a key, the key does not answer 409 for     *)
(* ever: a PROCESSING record is completed, deleted or expires.             *)
(***************************************************************************)
KeyFreed ==
  \A k \in Keys :
    (record[k] # None /\ record[k].status = "processing")
      ~> (record[k] = None \/ record[k].status # "processing")
=============================================================================
