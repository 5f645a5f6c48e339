------------------------- MODULE OnboardingProofs -------------------------
(***************************************************************************)
(* Proofs about Onboarding, for any requests, operations, numbers and      *)
(* pasts.  A request's list of statements is described by what is left of  *)
(* it and by the order of its stages: what the request needs is written,   *)
(* or its statement is still left, so that nothing is missing when the     *)
(* list is empty and the transaction commits.                              *)
(***************************************************************************)
EXTENDS Onboarding, FiniteSetTheorems, TLAPS

(***************************************************************************)
(* The handlers work in one order: the user's row, the limit, the consents *)
(* of skip, the account, the session, validation, the consents of the      *)
(* others, the holder, the grant, the end.  A row's SELECT and its INSERT  *)
(* or UPDATE are of one stage, and so are resolving and creating.          *)
(***************************************************************************)
RowStage(op, k) ==
  CASE k = "user" -> 1
    [] k = "holder" -> 12
    [] OTHER -> IF op # "skip" THEN 10
                ELSE IF k = "DD_SKIP" THEN 3 ELSE IF k = "DD" THEN 4 ELSE 5

DoStage(step) ==
  CASE step = "limit" -> 2
    [] step \in {"resolve", "create"} -> 7
    [] step = "session" -> 8
    [] step = "validate" -> 9
    [] step = "peek" -> 11
    [] step = "holder" -> 12
    [] step = "welcome" -> 13
    [] OTHER -> 14

Stage(op, e) == IF e[2] = None THEN DoStage(e[1]) ELSE RowStage(op, e[2])

(***************************************************************************)
(* The statements an operation may still have to execute.                  *)
(***************************************************************************)
Writing(k) == {Ensure(k), <<"insert", k>>}
HolderSteps == {Do("holder"), <<"insert", "holder">>, <<"update", "holder">>}
Opening == {Do("resolve"), Do("create"), Do("session"), Do("finish")}

Menu(op) ==
  CASE op = "complete" -> Writing("user") \cup Writing("TOS") \cup HolderSteps \cup Opening
                            \cup {Do("validate"), Do("welcome")}
    [] op = "skip" -> Writing("user") \cup Writing("TOS") \cup Writing("DD_SKIP") \cup HolderSteps
                        \cup Opening \cup {Do("peek"), Do("welcome")}
    [] op \in {"start", "document"} -> Writing("user") \cup Opening
    [] op = "status" -> Writing("user") \cup {Do("resolve")}
    [] op = "consent" -> Writing("user") \cup Writing("TOS") \cup Writing("DD")
                           \cup Writing("DD_SKIP") \cup {Do("validate")}
    [] OTHER -> {Do("limit"), Do("create"), Do("session")}

Left(s) == {s[i] : i \in 1..Len(s)}

Ordered(op, s) == \A i, j \in 1..Len(s) : i < j => Stage(op, s[i]) < Stage(op, s[j])

(***************************************************************************)
(* What a running request has still to do follows the order, and comes     *)
(* after the rows it has written.                                          *)
(***************************************************************************)
TodoInv(r) ==
  LET t == tx[r] IN
  /\ t.op \in AllOps
  /\ t.todo \in Seq(Menu(t.op))
  /\ Ordered(t.op, t.todo)
  /\ \A k \in t.ins, e \in Left(t.todo) : RowStage(t.op, k) < Stage(t.op, e)

(***************************************************************************)
(* A row the operation needs is there, or still to be written.             *)
(***************************************************************************)
Secured(r, k) == k \in rows \cup tx[r].ins \/ Writing(k) \cap Left(tx[r].todo) # {}

RowsInv(r) ==
  LET t == tx[r] IN
  /\ Secured(r, "user") \/ Do("limit") \in Left(t.todo)
  /\ t.op \in OpenOps => Secured(r, "TOS")
  /\ t.op = "skip" => Secured(r, "DD_SKIP")
  /\ t.op \in OpenOps => "holder" \in rows \cup t.ins \/ HolderSteps \cap Left(t.todo) # {}
  /\ t.prof # None <=> \/ "holder" \in t.ins
                       \/ {<<"insert", "holder">>, <<"update", "holder">>} \cap Left(t.todo) # {}
  /\ t.know # None => profile # None

(***************************************************************************)
(* The account and its session.  Who has not finished writes no status and *)
(* no document; a document writes one only where it loaded not_started.    *)
(***************************************************************************)
SessionKnown(r) ==
  /\ \E s \in VisibleSessions(r) : s.acct = tx[r].acct
  /\ \E s \in VisibleSessions(r) : Key(s) = tx[r].ses

AccountInv(r) ==
  LET t == tx[r] IN
  /\ t.acct # 0 => t.seen # None /\ (acc[t.acct] # None \/ t.new)
  /\ t.new => t.op \notin {"status", "consent"} /\ t.acct # 0
  /\ t.mine => t.ses.acct # 0 /\ Do("session") \notin Left(t.todo)
  /\ t.at <= clock /\ t.ses.at <= clock
  /\ t.op \notin {"status", "consent"} =>
       /\ t.acct = 0 <=> {Do("resolve"), Do("create")} \cap Left(t.todo) # {}
       /\ t.acct = 0 => Do("session") \in Left(t.todo)
       /\ Do("session") \in Left(t.todo) \/ SessionKnown(r)

EndInv(r) ==
  LET t == tx[r] IN
  /\ t.todo # <<>> => t.st = None /\ ~t.doc
  /\ t.st # None => t.op \in OnboardingOps /\ t.st = NewStatus(t.op)
  /\ t.st # None /\ t.op = "document" => t.seen = "not_started"
  /\ t.doc => t.op = "document"
  /\ t.st \in READY_STATUSES =>
       \E s \in VisibleSessions(r) : s.acct = t.acct /\ (Key(s) = t.fin \/ s.status # "draft")

RequestInv(r) == TodoInv(r) /\ RowsInv(r) /\ AccountInv(r) /\ EndInv(r)

(***************************************************************************)
(* A number drawn is no one else's account.                                *)
(***************************************************************************)
Fresh ==
  /\ \A a \in Numbers : a >= seq => acc[a] = None
  /\ \A r \in Requests :
       /\ tx[r].acct < seq
       /\ tx[r].new => acc[tx[r].acct] = None
       /\ \A s \in Requests : tx[r].new /\ tx[s].new /\ tx[r].acct = tx[s].acct => r = s

Resting ==
  \A r \in Requests :
    /\ tx[r].res = "idle" => tx[r] = Blank
    /\ ~Running(r) => tx[r].new = FALSE /\ tx[r].acct = 0

InTime == \A s \in sessions : s.at <= clock

IInv ==
  /\ TypeOK
  /\ Resting
  /\ Fresh
  /\ InTime
  /\ \A r \in Requests : Running(r) => RequestInv(r)
  /\ ReadyHasConsents
  /\ Referential
  /\ SessionsFollowAccounts

-----------------------------------------------------------------------------
(***************************************************************************)
(* Taking the first statement off a list.                                  *)
(***************************************************************************)
LEMMA TailFacts ==
  ASSUME NEW X, NEW s \in Seq(X), s # <<>>
  PROVE  /\ Tail(s) \in Seq(X) /\ Head(s) \in X
         /\ Left(s) = {Head(s)} \cup Left(Tail(s))
<1>1. Len(s) \in Nat /\ Len(s) >= 1 /\ Len(Tail(s)) = Len(s) - 1 /\ Tail(s) \in Seq(X)
  OBVIOUS
<1>2. \A i \in 1..Len(Tail(s)) : Tail(s)[i] = s[i + 1]
  OBVIOUS
<1>3. Head(s) = s[1] /\ s[1] \in X
  BY <1>1
<1>4. Left(s) \subseteq {Head(s)} \cup Left(Tail(s))
  <2> SUFFICES ASSUME NEW i \in 1..Len(s), i # 1 PROVE s[i] \in Left(Tail(s))
    BY <1>3 DEF Left
  <2>1. i - 1 \in 1..Len(Tail(s)) /\ Tail(s)[i - 1] = s[i]
    BY <1>1, <1>2
  <2> QED
    BY <2>1 DEF Left
<1>5. Left(Tail(s)) \subseteq Left(s)
  <2> SUFFICES ASSUME NEW i \in 1..Len(Tail(s)) PROVE Tail(s)[i] \in Left(s)
    BY DEF Left
  <2>1. i + 1 \in 1..Len(s) /\ Tail(s)[i] = s[i + 1]
    BY <1>1, <1>2
  <2> QED
    BY <2>1 DEF Left
<1>6. Head(s) \in Left(s)
  BY <1>1, <1>3 DEF Left
<1> QED
  BY <1>1, <1>3, <1>4, <1>5, <1>6

(***************************************************************************)
(* Putting a statement in front of a list.                                 *)
(***************************************************************************)
LEMMA ConsFacts ==
  ASSUME NEW X, NEW s \in Seq(X), NEW e \in X
  PROVE  /\ <<e>> \o s \in Seq(X) /\ <<e>> \o s # <<>>
         /\ Left(<<e>> \o s) = {e} \cup Left(s)
<1> DEFINE c == <<e>> \o s
<1>1. Len(s) \in Nat /\ Len(c) = Len(s) + 1 /\ c \in Seq(X)
  OBVIOUS
<1>2. c[1] = e /\ \A i \in 1..Len(s) : c[i + 1] = s[i]
  OBVIOUS
<1> HIDE DEF c
<1>3. Left(c) \subseteq {e} \cup Left(s)
  <2> SUFFICES ASSUME NEW i \in 1..Len(c), i # 1 PROVE c[i] \in Left(s)
    BY <1>2 DEF Left
  <2>1. i - 1 \in 1..Len(s) /\ c[i] = s[i - 1]
    BY <1>1, <1>2
  <2> QED
    BY <2>1 DEF Left
<1>4. Left(s) \subseteq Left(c)
  <2> SUFFICES ASSUME NEW i \in 1..Len(s) PROVE s[i] \in Left(c)
    BY DEF Left
  <2>1. i + 1 \in 1..Len(c) /\ s[i] = c[i + 1]
    BY <1>1, <1>2
  <2> QED
    BY <2>1 DEF Left
<1>5. e \in Left(c)
  BY <1>1, <1>2 DEF Left
<1>6. c # <<>>
  BY <1>1
<1> QED
  BY <1>1, <1>3, <1>4, <1>5, <1>6 DEF c

(***************************************************************************)
(* The order survives both, and what follows is of a later stage.          *)
(***************************************************************************)
LEMMA OrderFacts ==
  ASSUME NEW op, NEW X, NEW s \in Seq(X), s # <<>>, Ordered(op, s),
         \A e \in X : Stage(op, e) \in Nat
  PROVE  /\ Ordered(op, Tail(s))
         /\ \A f \in Left(Tail(s)) : Stage(op, Head(s)) < Stage(op, f)
         /\ \A e \in X : Stage(op, e) = Stage(op, Head(s)) => Ordered(op, <<e>> \o Tail(s))
<1>1. Len(s) \in Nat /\ Len(s) >= 1 /\ Len(Tail(s)) = Len(s) - 1 /\ Tail(s) \in Seq(X)
  OBVIOUS
<1>2. \A i \in 1..Len(Tail(s)) : Tail(s)[i] = s[i + 1]
  OBVIOUS
<1>3. Head(s) = s[1]
  BY <1>1
<1>4. \A i, j \in 1..Len(s) : i < j => Stage(op, s[i]) < Stage(op, s[j])
  BY DEF Ordered
<1>5. \A i \in 1..Len(Tail(s)) :
        i + 1 \in 1..Len(s) /\ 1 < i + 1 /\ Stage(op, Tail(s)[i]) = Stage(op, s[i + 1])
  BY <1>1, <1>2
<1>6. Ordered(op, Tail(s))
  <2> SUFFICES ASSUME NEW i \in 1..Len(Tail(s)), NEW j \in 1..Len(Tail(s)), i < j
               PROVE  Stage(op, Tail(s)[i]) < Stage(op, Tail(s)[j])
    BY DEF Ordered
  <2>1. i + 1 < j + 1
    OBVIOUS
  <2> QED
    BY <1>4, <1>5, <2>1
<1>7. \A i \in 1..Len(Tail(s)) : Stage(op, Head(s)) < Stage(op, Tail(s)[i])
  BY <1>1, <1>3, <1>4, <1>5
<1>8. ASSUME NEW e \in X, Stage(op, e) = Stage(op, Head(s)) PROVE Ordered(op, <<e>> \o Tail(s))
  <2> DEFINE c == <<e>> \o Tail(s)
  <2>1. Len(c) = Len(s) /\ c[1] = e /\ \A i \in 1..Len(Tail(s)) : c[i + 1] = Tail(s)[i]
    BY <1>1
  <2> HIDE DEF c
  <2>2. ASSUME NEW i \in 1..Len(c) PROVE Stage(op, c[i]) = Stage(op, s[i])
    <3>1. CASE i = 1
      BY <1>3, <1>8, <2>1, <3>1
    <3>2. CASE i # 1
      <4>1. i - 1 \in 1..Len(Tail(s))
        BY <1>1, <2>1, <3>2
      <4>2. c[i] = Tail(s)[i - 1] /\ Tail(s)[i - 1] = s[i]
        BY <1>1, <1>2, <2>1, <4>1
      <4> QED
        BY <4>2
    <3> QED
      BY <3>1, <3>2
  <2>3. Ordered(op, c)
    BY <1>4, <2>1, <2>2 DEF Ordered
  <2> QED
    BY <2>3 DEF c
<1> QED
  BY <1>6, <1>7, <1>8 DEF Left

StepNames == {"ensure", "insert", "update", "resolve", "create", "session", "validate", "peek",
              "holder", "welcome", "finish", "limit"}

(***************************************************************************)
(* A statement of a menu is one of the model, with the row it is about.    *)
(***************************************************************************)
LEMMA MenuShape ==
  ASSUME NEW op \in AllOps, NEW e \in Menu(op)
  PROVE  \/ e[1] = "ensure" /\ e[2] \in {"user"} \cup Policies /\ e = Ensure(e[2])
         \/ e[1] = "insert" /\ e[2] \in Rows /\ e = <<"insert", e[2]>>
         \/ e[1] = "update" /\ e[2] = "holder" /\ e = <<"update", "holder">>
         \/ e[1] \in StepNames \ {"ensure", "insert", "update"} /\ e[2] = None /\ e = Do(e[1])
<1> USE DEF Writing, HolderSteps, Opening, Ensure, Do, None, Policies, Rows, StepNames
<1>1. CASE op = "complete"
  BY <1>1 DEF Menu
<1>2. CASE op = "skip"
  BY <1>2 DEF Menu
<1>3. CASE op \in {"start", "document"}
  BY <1>3 DEF Menu
<1>4. CASE op = "status"
  BY <1>4 DEF Menu
<1>5. CASE op = "consent"
  BY <1>5 DEF Menu
<1>6. CASE op = "open_additional"
  BY <1>6 DEF Menu
<1> QED
  BY <1>1, <1>2, <1>3, <1>4, <1>5, <1>6 DEF AllOps, OnboardingOps, OpenOps

(***************************************************************************)
(* Who has a statement to execute may have to execute what it leads to,    *)
(* and belongs to an operation that has it.                                *)
(***************************************************************************)
LEMMA MenuSteps ==
  ASSUME NEW op \in AllOps
  PROVE  /\ \A k : Ensure(k) \in Menu(op) => <<"insert", k>> \in Menu(op)
         /\ Do("resolve") \in Menu(op) => Do("create") \in Menu(op) \/ op = "status"
         /\ HolderSteps \cap Menu(op) # {} => HolderSteps \subseteq Menu(op) /\ op \in OpenOps
         /\ Do("finish") \in Menu(op) => op \in OnboardingOps
         /\ Do("peek") \in Menu(op) => op = "skip"
         /\ Do("create") \in Menu(op) => op \notin {"status", "consent"}
         /\ Do("session") \in Menu(op) => op \notin {"status", "consent"}
<1> USE DEF Writing, HolderSteps, Opening, Ensure, Do, None, Policies, OpenOps, OnboardingOps
<1>1. CASE op = "complete"
  BY <1>1 DEF Menu
<1>2. CASE op = "skip"
  BY <1>2 DEF Menu
<1>3. CASE op \in {"start", "document"}
  BY <1>3 DEF Menu
<1>4. CASE op = "status"
  BY <1>4 DEF Menu
<1>5. CASE op = "consent"
  BY <1>5 DEF Menu
<1>6. CASE op = "open_additional"
  BY <1>6 DEF Menu
<1> QED
  BY <1>1, <1>2, <1>3, <1>4, <1>5, <1>6 DEF AllOps, OnboardingOps, OpenOps

(***************************************************************************)
(* Every statement has a stage.                                            *)
(***************************************************************************)
LEMMA MenuStages ==
  ASSUME NEW op, NEW e
  PROVE  Stage(op, e) \in 1..14
<1>1. \A k : RowStage(op, k) \in 1..14
  BY DEF RowStage
<1>2. \A k : DoStage(k) \in 1..14
  BY DEF DoStage
<1> QED
  BY <1>1, <1>2 DEF Stage

(***************************************************************************)
(* What a handler sets out to do.                                          *)
(***************************************************************************)
LEMMA ProgramFacts ==
  ASSUME NEW op \in AllOps, NEW p \in Policies, op # "consent" => p = "TOS"
  PROVE  /\ Program(op, p) \in Seq(Menu(op))
         /\ Ordered(op, Program(op, p))
         /\ op # "open_additional" => Ensure("user") \in Left(Program(op, p))
         /\ op = "open_additional" => Do("limit") \in Left(Program(op, p))
         /\ op \in OpenOps => Ensure("TOS") \in Left(Program(op, p))
                              /\ Do("holder") \in Left(Program(op, p))
         /\ op = "skip" => Ensure("DD_SKIP") \in Left(Program(op, p))
         /\ {<<"insert", "holder">>, <<"update", "holder">>} \cap Left(Program(op, p)) = {}
         /\ op \notin {"status", "consent"} =>
              /\ {Do("resolve"), Do("create")} \cap Left(Program(op, p)) # {}
              /\ Do("session") \in Left(Program(op, p))
<1> DEFINE P == Program(op, p)
<1> USE DEF Ensure, Do, None, Stage, RowStage, DoStage, Policies
<1>1. CASE op = "complete"
  <2>1. P = <<Ensure("user"), Do("resolve"), Do("session"), Do("validate"),
              Ensure("TOS"), Do("holder"), Do("welcome"), Do("finish")>>
    BY <1>1 DEF Program
  <2> HIDE DEF P
  <2>2. Len(P) = 8 /\ P \in Seq(Menu(op))
    BY <1>1, <2>1 DEF Menu, Writing, HolderSteps, Opening
  <2>3. /\ P[1] = Ensure("user") /\ P[2] = Do("resolve") /\ P[3] = Do("session")
        /\ P[4] = Do("validate") /\ P[5] = Ensure("TOS") /\ P[6] = Do("holder")
        /\ P[7] = Do("welcome") /\ P[8] = Do("finish")
    BY <2>1
  <2>4. /\ Stage(op, P[1]) = 1 /\ Stage(op, P[2]) = 7 /\ Stage(op, P[3]) = 8 /\ Stage(op, P[4]) = 9
        /\ Stage(op, P[5]) = 10 /\ Stage(op, P[6]) = 12 /\ Stage(op, P[7]) = 13
        /\ Stage(op, P[8]) = 14
    BY <1>1, <2>3
  <2>5. Ordered(op, P)
    <3> HIDE DEF Stage
    <3> QED
      BY <2>2, <2>4 DEF Ordered
  <2>6. Left(P) = {P[1], P[2], P[3], P[4], P[5], P[6], P[7], P[8]}
    BY <2>2 DEF Left
  <2>7. op \in OpenOps => Ensure("TOS") \in Left(P) /\ Do("holder") \in Left(P)
    BY <1>1, <2>3, <2>6 DEF OpenOps
  <2>8. op = "skip" => Ensure("DD_SKIP") \in Left(P)
    BY <1>1, <2>3, <2>6
  <2>9. {<<"insert", "holder">>, <<"update", "holder">>} \cap Left(P) = {}
    BY <1>1, <2>3, <2>6
  <2>10. op \notin {"status", "consent"} =>
          {Do("resolve"), Do("create")} \cap Left(P) # {} /\ Do("session") \in Left(P)
    BY <1>1, <2>3, <2>6
  <2>11. /\ op # "open_additional" => Ensure("user") \in Left(P)
         /\ op = "open_additional" => Do("limit") \in Left(P)
    BY <1>1, <2>3, <2>6
  <2> QED
    <3> HIDE DEF Ensure, Do, None, Stage, RowStage, DoStage, Policies
    <3> QED
      BY <2>2, <2>5, <2>7, <2>8, <2>9, <2>10, <2>11 DEF P
<1>2. CASE op = "skip"
  <2>1. P = <<Ensure("user"), Ensure("DD_SKIP"), Ensure("TOS"), Do("resolve"),
              Do("session"), Do("peek"), Do("holder"), Do("welcome"), Do("finish")>>
    BY <1>2 DEF Program
  <2> HIDE DEF P
  <2>2. Len(P) = 9 /\ P \in Seq(Menu(op))
    BY <1>2, <2>1 DEF Menu, Writing, HolderSteps, Opening
  <2>3. /\ P[1] = Ensure("user") /\ P[2] = Ensure("DD_SKIP") /\ P[3] = Ensure("TOS")
        /\ P[4] = Do("resolve") /\ P[5] = Do("session") /\ P[6] = Do("peek")
        /\ P[7] = Do("holder") /\ P[8] = Do("welcome") /\ P[9] = Do("finish")
    BY <2>1
  <2>4. /\ Stage(op, P[1]) = 1 /\ Stage(op, P[2]) = 3 /\ Stage(op, P[3]) = 5 /\ Stage(op, P[4]) = 7
        /\ Stage(op, P[5]) = 8 /\ Stage(op, P[6]) = 11 /\ Stage(op, P[7]) = 12
        /\ Stage(op, P[8]) = 13 /\ Stage(op, P[9]) = 14
    BY <1>2, <2>3
  <2>5. Ordered(op, P)
    <3> HIDE DEF Stage
    <3> QED
      BY <2>2, <2>4 DEF Ordered
  <2>6. Left(P) = {P[1], P[2], P[3], P[4], P[5], P[6], P[7], P[8], P[9]}
    BY <2>2 DEF Left
  <2>7. op \in OpenOps => Ensure("TOS") \in Left(P) /\ Do("holder") \in Left(P)
    BY <1>2, <2>3, <2>6 DEF OpenOps
  <2>8. op = "skip" => Ensure("DD_SKIP") \in Left(P)
    BY <1>2, <2>3, <2>6
  <2>9. {<<"insert", "holder">>, <<"update", "holder">>} \cap Left(P) = {}
    BY <1>2, <2>3, <2>6
  <2>10. op \notin {"status", "consent"} =>
          {Do("resolve"), Do("create")} \cap Left(P) # {} /\ Do("session") \in Left(P)
    BY <1>2, <2>3, <2>6
  <2>11. /\ op # "open_additional" => Ensure("user") \in Left(P)
         /\ op = "open_additional" => Do("limit") \in Left(P)
    BY <1>2, <2>3, <2>6
  <2> QED
    <3> HIDE DEF Ensure, Do, None, Stage, RowStage, DoStage, Policies
    <3> QED
      BY <2>2, <2>5, <2>7, <2>8, <2>9, <2>10, <2>11 DEF P
<1>3. CASE op \in {"start", "document"}
  <2>1. P = <<Ensure("user"), Do("resolve"), Do("session"), Do("finish")>>
    BY <1>3 DEF Program
  <2> HIDE DEF P
  <2>2. Len(P) = 4 /\ P \in Seq(Menu(op))
    <3>1. Menu(op) = Writing("user") \cup Opening
      BY <1>3 DEF Menu
    <3> QED
      BY <2>1, <3>1 DEF Writing, Opening
  <2>3. P[1] = Ensure("user") /\ P[2] = Do("resolve") /\ P[3] = Do("session") /\ P[4] = Do("finish")
    BY <2>1
  <2>4. /\ Stage(op, P[1]) = 1 /\ Stage(op, P[2]) = 7 /\ Stage(op, P[3]) = 8
        /\ Stage(op, P[4]) = 14
    BY <2>3
  <2>5. Ordered(op, P)
    <3> HIDE DEF Stage
    <3> QED
      BY <2>2, <2>4 DEF Ordered
  <2>6. Left(P) = {P[1], P[2], P[3], P[4]}
    BY <2>2 DEF Left
  <2>7. op \in OpenOps => Ensure("TOS") \in Left(P) /\ Do("holder") \in Left(P)
    BY <1>3, <2>3, <2>6 DEF OpenOps
  <2>8. op = "skip" => Ensure("DD_SKIP") \in Left(P)
    BY <1>3, <2>3, <2>6
  <2>9. {<<"insert", "holder">>, <<"update", "holder">>} \cap Left(P) = {}
    BY <1>3, <2>3, <2>6
  <2>10. op \notin {"status", "consent"} =>
          {Do("resolve"), Do("create")} \cap Left(P) # {} /\ Do("session") \in Left(P)
    BY <1>3, <2>3, <2>6
  <2>11. /\ op # "open_additional" => Ensure("user") \in Left(P)
         /\ op = "open_additional" => Do("limit") \in Left(P)
    BY <1>3, <2>3, <2>6
  <2> QED
    <3> HIDE DEF Ensure, Do, None, Stage, RowStage, DoStage, Policies
    <3> QED
      BY <2>2, <2>5, <2>7, <2>8, <2>9, <2>10, <2>11 DEF P
<1>4. CASE op \in {"status", "consent", "open_additional"}
  <2>1. P = CASE op = "status" -> <<Ensure("user"), Do("resolve")>>
              [] op = "consent" -> <<Ensure("user"), Do("validate"), Ensure(p)>>
              [] OTHER -> <<Do("limit"), Do("create"), Do("session")>>
    BY <1>4 DEF Program
  <2> HIDE DEF P
  <2>2. Len(P) = (IF op = "status" THEN 2 ELSE 3) /\ P \in Seq(Menu(op))
    <3>1. CASE op = "status"
      BY <2>1, <3>1 DEF Menu, Writing
    <3>2. CASE op = "consent"
      BY <2>1, <3>2 DEF Menu, Writing
    <3>3. CASE op = "open_additional"
      BY <2>1, <3>3 DEF Menu
    <3> QED
      BY <1>4, <3>1, <3>2, <3>3
  <2>3. /\ P[1] = (IF op = "open_additional" THEN Do("limit") ELSE Ensure("user"))
        /\ P[2] = (IF op = "status" THEN Do("resolve")
                   ELSE IF op = "consent" THEN Do("validate") ELSE Do("create"))
        /\ op # "status" => P[3] = (IF op = "consent" THEN Ensure(p) ELSE Do("session"))
    BY <1>4, <2>1
  <2>4. /\ Stage(op, P[1]) \in {1, 2} /\ Stage(op, P[2]) \in {7, 9}
        /\ op = "consent" => Stage(op, P[2]) = 9 /\ Stage(op, P[3]) = 10
        /\ op = "open_additional" => Stage(op, P[2]) = 7 /\ Stage(op, P[3]) = 8
    BY <1>4, <2>3
  <2>5. Ordered(op, P)
    <3> HIDE DEF Stage
    <3> QED
      BY <1>4, <2>2, <2>4 DEF Ordered
  <2>6. Left(P) = IF op = "status" THEN {P[1], P[2]} ELSE {P[1], P[2], P[3]}
    BY <2>2 DEF Left
  <2>7. op \in OpenOps => Ensure("TOS") \in Left(P) /\ Do("holder") \in Left(P)
    BY <1>4, <2>3, <2>6 DEF OpenOps
  <2>8. op = "skip" => Ensure("DD_SKIP") \in Left(P)
    BY <1>4, <2>3, <2>6
  <2>9. {<<"insert", "holder">>, <<"update", "holder">>} \cap Left(P) = {}
    BY <1>4, <2>3, <2>6
  <2>10. op \notin {"status", "consent"} =>
          {Do("resolve"), Do("create")} \cap Left(P) # {} /\ Do("session") \in Left(P)
    BY <1>4, <2>3, <2>6
  <2>11. /\ op # "open_additional" => Ensure("user") \in Left(P)
         /\ op = "open_additional" => Do("limit") \in Left(P)
    BY <1>4, <2>3, <2>6
  <2> QED
    <3> HIDE DEF Ensure, Do, None, Stage, RowStage, DoStage, Policies
    <3> QED
      BY <2>2, <2>5, <2>7, <2>8, <2>9, <2>10, <2>11 DEF P
<1> QED
  BY <1>1, <1>2, <1>3, <1>4 DEF AllOps, OnboardingOps, OpenOps

Lists == Seq(StepNames \X (Rows \cup {None}))

(***************************************************************************)
(* A request stays one when a field is given a value of its type.          *)
(***************************************************************************)
LEMMA FieldTypes ==
  ASSUME NEW t \in Request
  PROVE  /\ \A x \in {"idle", "running", "done", "failed"} : [t EXCEPT !.res = x] \in Request
         /\ \A x \in AllOps \cup {None} : [t EXCEPT !.op = x] \in Request
         /\ \A x \in Numbers \cup {NoAccount} : [t EXCEPT !.target = x] \in Request
         /\ \A x \in Lists : [t EXCEPT !.todo = x] \in Request
         /\ \A x \in Nat : [t EXCEPT !.at = x] \in Request
         /\ \A x \in 0..MaxNumber : [t EXCEPT !.acct = x] \in Request
         /\ \A x \in Statuses \cup {None} : [t EXCEPT !.seen = x] \in Request
         /\ \A x \in BOOLEAN : [t EXCEPT !.new = x] \in Request
         /\ \A x \in 0..3 : [t EXCEPT !.lock = x] \in Request
         /\ \A x \in SUBSET Rows : [t EXCEPT !.ins = x] \in Request
         /\ \A x \in {None, "basic", "full"} : [t EXCEPT !.know = x] \in Request
         /\ \A x \in {None, "basic", "full"} : [t EXCEPT !.prof = x] \in Request
         /\ \A x \in [acct : 0..MaxNumber, at : Nat] : [t EXCEPT !.ses = x] \in Request
         /\ \A x \in BOOLEAN : [t EXCEPT !.mine = x] \in Request
         /\ \A x \in [acct : 0..MaxNumber, at : Nat] : [t EXCEPT !.fin = x] \in Request
         /\ \A x \in Statuses \cup {None} : [t EXCEPT !.st = x] \in Request
         /\ \A x \in BOOLEAN : [t EXCEPT !.doc = x] \in Request
<1> DEFINE A == {"idle", "running", "done", "failed"}
           B == AllOps \cup {None}
           C == Numbers \cup {NoAccount}
           D == Lists
           E == Nat
           F == 0..MaxNumber
           G == Statuses \cup {None}
           H == BOOLEAN
           I == 0..3
           J == SUBSET Rows
           K == {None, "basic", "full"}
           L == [acct : 0..MaxNumber, at : Nat]
<1>1. Request = [res : A, op : B, target : C, todo : D, at : E, acct : F, seen : G, new : H,
                 lock : I, ins : J, know : K, prof : K, ses : L, mine : H, fin : L, st : G, doc : H]
  BY DEF Request, Lists, StepNames
<1> HIDE DEF A, B, C, D, E, F, G, H, I, J, K, L
<1>2. /\ \A x \in A : [t EXCEPT !.res = x] \in Request
      /\ \A x \in B : [t EXCEPT !.op = x] \in Request
      /\ \A x \in C : [t EXCEPT !.target = x] \in Request
      /\ \A x \in D : [t EXCEPT !.todo = x] \in Request
      /\ \A x \in E : [t EXCEPT !.at = x] \in Request
      /\ \A x \in F : [t EXCEPT !.acct = x] \in Request
      /\ \A x \in G : [t EXCEPT !.seen = x] \in Request
      /\ \A x \in H : [t EXCEPT !.new = x] \in Request
      /\ \A x \in I : [t EXCEPT !.lock = x] \in Request
  BY <1>1
<1>3. /\ \A x \in J : [t EXCEPT !.ins = x] \in Request
      /\ \A x \in K : [t EXCEPT !.know = x] \in Request
      /\ \A x \in K : [t EXCEPT !.prof = x] \in Request
      /\ \A x \in L : [t EXCEPT !.ses = x] \in Request
      /\ \A x \in H : [t EXCEPT !.mine = x] \in Request
      /\ \A x \in L : [t EXCEPT !.fin = x] \in Request
      /\ \A x \in G : [t EXCEPT !.st = x] \in Request
      /\ \A x \in H : [t EXCEPT !.doc = x] \in Request
  BY <1>1
<1> QED
  BY <1>2, <1>3 DEF A, B, C, D, E, F, G, H, I, J, K, L

-----------------------------------------------------------------------------
(***************************************************************************)
(* Nothing is left of the empty list only.                                 *)
(***************************************************************************)
LEMMA EmptyLeft ==
  ASSUME NEW X, NEW s \in Seq(X)
  PROVE  Left(s) = {} <=> s = <<>>
<1>1. s = <<>> => Left(s) = {}
  BY DEF Left
<1>2. ASSUME s # <<>> PROVE Left(s) # {}
  <2>1. Left(s) = {Head(s)} \cup Left(Tail(s))
    BY <1>2, TailFacts
  <2> QED
    BY <2>1
<1> QED
  BY <1>1, <1>2

(***************************************************************************)
(* A request at a statement, and what is left after it.                    *)
(***************************************************************************)
LEMMA AtFacts ==
  ASSUME NEW r \in Requests, NEW step, TodoInv(r), At(r, step)
  PROVE  LET op == tx[r].op
             e == Head(tx[r].todo) IN
         /\ op \in AllOps /\ e \in Menu(op) /\ e[1] = step /\ tx[r].todo # <<>> /\ Running(r)
         /\ Rest(r) \in Seq(Menu(op)) /\ Ordered(op, Rest(r))
         /\ Left(tx[r].todo) = {e} \cup Left(Rest(r))
         /\ \A f \in Left(Rest(r)) : f \in Menu(op) /\ Stage(op, e) < Stage(op, f)
         /\ \A d \in Menu(op) : Stage(op, d) = Stage(op, e) =>
              /\ <<d>> \o Rest(r) \in Seq(Menu(op)) /\ <<d>> \o Rest(r) # <<>>
              /\ Ordered(op, <<d>> \o Rest(r))
              /\ Left(<<d>> \o Rest(r)) = {d} \cup Left(Rest(r))
<1> DEFINE op == tx[r].op
           s == tx[r].todo
<1>1. op \in AllOps /\ s \in Seq(Menu(op)) /\ s # <<>> /\ Ordered(op, s) /\ Running(r)
  BY DEF TodoInv, At
<1>2. Head(s)[1] = step /\ Rest(r) = Tail(s)
  BY DEF At, Rest
<1> HIDE DEF op, s
<1>3. \A e \in Menu(op) : Stage(op, e) \in Nat
  BY MenuStages
<1>4. Tail(s) \in Seq(Menu(op)) /\ Head(s) \in Menu(op) /\ Left(s) = {Head(s)} \cup Left(Tail(s))
  BY <1>1, TailFacts
<1>5. /\ Ordered(op, Tail(s))
      /\ \A f \in Left(Tail(s)) : Stage(op, Head(s)) < Stage(op, f)
      /\ \A e \in Menu(op) : Stage(op, e) = Stage(op, Head(s)) => Ordered(op, <<e>> \o Tail(s))
  BY <1>1, <1>3, OrderFacts
<1>6. \A f \in Left(Tail(s)) : f \in Menu(op)
  BY <1>4 DEF Left
<1>7. \A d \in Menu(op) : /\ <<d>> \o Tail(s) \in Seq(Menu(op)) /\ <<d>> \o Tail(s) # <<>>
                          /\ Left(<<d>> \o Tail(s)) = {d} \cup Left(Tail(s))
  BY <1>4, ConsFacts
<1> QED
  BY <1>1, <1>2, <1>4, <1>5, <1>6, <1>7 DEF op, s

(***************************************************************************)
(* The list stays in order when its first statement is executed, which may *)
(* have written its row, or is replaced by one of its stage.               *)
(***************************************************************************)
LEMMA TodoNext ==
  ASSUME NEW r \in Requests, NEW step, TodoInv(r), At(r, step),
         tx'[r].op = tx[r].op, tx'[r].todo = Rest(r),
         \A k \in tx'[r].ins : k \in tx[r].ins
            \/ RowStage(tx[r].op, k) = Stage(tx[r].op, Head(tx[r].todo))
  PROVE  TodoInv(r)'
<1> DEFINE op == tx[r].op
           e == Head(tx[r].todo)
           R == Rest(r)
<1>1. /\ op \in AllOps /\ R \in Seq(Menu(op)) /\ Ordered(op, R)
      /\ Left(tx[r].todo) = {e} \cup Left(R)
      /\ \A f \in Left(R) : Stage(op, e) < Stage(op, f)
  BY AtFacts
<1>2. \A k \in tx[r].ins, f \in Left(tx[r].todo) : RowStage(op, k) < Stage(op, f)
  BY DEF TodoInv
<1> HIDE DEF op, e, R
<1>3. \A k \in tx'[r].ins, f \in Left(R) : RowStage(op, k) < Stage(op, f)
  BY <1>1, <1>2 DEF op, e
<1> QED
  BY <1>1, <1>3 DEF TodoInv, op, R

(***************************************************************************)
(* A statement of the same stage takes the place of the first one.         *)
(***************************************************************************)
LEMMA TodoReplaced ==
  ASSUME NEW r \in Requests, NEW step, TodoInv(r), At(r, step),
         NEW d \in Menu(tx[r].op), Stage(tx[r].op, d) = Stage(tx[r].op, Head(tx[r].todo)),
         tx'[r].op = tx[r].op, tx'[r].todo = <<d>> \o Rest(r), tx'[r].ins = tx[r].ins
  PROVE  TodoInv(r)'
<1> DEFINE op == tx[r].op
           e == Head(tx[r].todo)
           R == Rest(r)
           c == <<d>> \o R
<1>1. /\ op \in AllOps /\ c \in Seq(Menu(op)) /\ Ordered(op, c)
      /\ Left(tx[r].todo) = {e} \cup Left(R) /\ Left(c) = {d} \cup Left(R)
  BY AtFacts
<1>2. \A k \in tx[r].ins, f \in Left(tx[r].todo) : RowStage(op, k) < Stage(op, f)
  BY DEF TodoInv
<1>3. Stage(op, d) = Stage(op, e)
  OBVIOUS
<1>4. tx'[r].op = op /\ tx'[r].todo = c /\ tx'[r].ins = tx[r].ins
  OBVIOUS
<1> HIDE DEF op, e, R, c
<1>5. \A k \in tx[r].ins, f \in Left(c) : RowStage(op, k) < Stage(op, f)
  BY <1>1, <1>2, <1>3
<1> QED
  BY <1>1, <1>4, <1>5 DEF TodoInv

(***************************************************************************)
(* Lists in order are of the model's statements.                           *)
(***************************************************************************)
LEMMA TodoTyped ==
  ASSUME NEW op \in AllOps, NEW s \in Seq(Menu(op))
  PROVE  s \in Lists
<1>1. \A e \in Menu(op) : e \in StepNames \X (Rows \cup {None})
  BY MenuShape DEF StepNames, Rows, Policies, Ensure, Do
<1> QED
  BY <1>1 DEF Lists

-----------------------------------------------------------------------------
(***************************************************************************)
(* What the steps of a request leave alone.                                *)
(***************************************************************************)
RowSteps == {Ensure(k) : k \in Rows} \cup {<<"insert", k>> : k \in Rows}
              \cup {<<"update", "holder">>, Do("holder"), Do("limit")}
AccountSteps == {Do("resolve"), Do("create"), Do("session")}

RowsKept(r) ==
  /\ tx'[r].op = tx[r].op /\ tx'[r].ins = tx[r].ins
  /\ tx'[r].prof = tx[r].prof /\ tx'[r].know \in {tx[r].know, profile}

AccountKept(r) ==
  /\ tx'[r].op = tx[r].op /\ tx'[r].at = tx[r].at /\ tx'[r].acct = tx[r].acct
  /\ tx'[r].seen = tx[r].seen /\ tx'[r].new = tx[r].new
  /\ tx'[r].ses = tx[r].ses /\ tx'[r].mine = tx[r].mine

EndKept(r) == tx'[r].st = tx[r].st /\ tx'[r].doc = tx[r].doc

(***************************************************************************)
(* The tables only grow: no row, account or session goes away, and no      *)
(* finished session becomes a draft again.                                 *)
(***************************************************************************)
TablesGrow ==
  /\ rows \subseteq rows'
  /\ profile # None => profile' # None
  /\ \A a \in Numbers : acc[a] # None => acc'[a] # None
  /\ \A s \in sessions : \E t \in sessions' :
       t.acct = s.acct /\ Key(t) = Key(s) /\ (s.status # "draft" => t.status # "draft")
  /\ clock <= clock'

(***************************************************************************)
(* What a request knows of rows is kept by a step that touches none.       *)
(***************************************************************************)
LEMMA RowsKeptStep ==
  ASSUME NEW r \in Requests, RowsInv(r), RowsKept(r), UNCHANGED <<rows, profile>>,
         \A e \in RowSteps : e \in Left(tx'[r].todo) <=> e \in Left(tx[r].todo)
  PROVE  RowsInv(r)'
<1>1. \A k \in Rows : Writing(k) \cap Left(tx'[r].todo) = Writing(k) \cap Left(tx[r].todo)
  BY DEF Writing, RowSteps
<1>2. HolderSteps \cap Left(tx'[r].todo) = HolderSteps \cap Left(tx[r].todo)
  BY DEF HolderSteps, RowSteps, Rows
<1>3. /\ {<<"insert", "holder">>, <<"update", "holder">>} \cap Left(tx'[r].todo)
           = {<<"insert", "holder">>, <<"update", "holder">>} \cap Left(tx[r].todo)
      /\ Do("limit") \in Left(tx'[r].todo) <=> Do("limit") \in Left(tx[r].todo)
  BY DEF RowSteps, Rows
<1>4. \A k \in Rows : Secured(r, k)' <=> Secured(r, k)
  BY <1>1 DEF Secured, RowsKept
<1>5. {"user", "TOS", "DD_SKIP"} \subseteq Rows
  BY DEF Rows, Policies
<1> QED
  BY <1>2, <1>3, <1>4, <1>5 DEF RowsInv, RowsKept

(***************************************************************************)
(* The same for its account and session.                                   *)
(***************************************************************************)
LEMMA AccountKeptStep ==
  ASSUME NEW r \in Requests, AccountInv(r), AccountKept(r), UNCHANGED <<acc, sessions, clock>>,
         \A e \in AccountSteps : e \in Left(tx'[r].todo) <=> e \in Left(tx[r].todo)
  PROVE  AccountInv(r)'
<1>1. {Do("resolve"), Do("create")} \cap Left(tx'[r].todo)
        = {Do("resolve"), Do("create")} \cap Left(tx[r].todo)
  BY DEF AccountSteps
<1>2. Do("session") \in Left(tx'[r].todo) <=> Do("session") \in Left(tx[r].todo)
  BY DEF AccountSteps
<1>3. SessionKnown(r)' <=> SessionKnown(r)
  BY DEF SessionKnown, VisibleSessions, AccountKept, Key
<1> QED
  BY <1>1, <1>2, <1>3 DEF AccountInv, AccountKept

(***************************************************************************)
(* The same for what it writes at the end.                                 *)
(***************************************************************************)
LEMMA EndKeptStep ==
  ASSUME NEW r \in Requests, EndInv(r), EndKept(r), tx[r].todo # <<>>
  PROVE  EndInv(r)'
<1>1. tx[r].st = None /\ ~tx[r].doc
  BY DEF EndInv
<1>2. None \notin READY_STATUSES
  BY DEF None, READY_STATUSES
<1> QED
  BY <1>1, <1>2 DEF EndInv, EndKept

(***************************************************************************)
(* A request that takes no step keeps what it has found and planned.       *)
(***************************************************************************)
LEMMA OthersStay ==
  ASSUME NEW r \in Requests, RequestInv(r), TablesGrow, tx'[r] = tx[r],
         clock \in Nat, clock' \in Nat, tx[r] \in Request
  PROVE  RequestInv(r)'
<1>1. TodoInv(r)'
  BY DEF RequestInv, TodoInv
<1>2. RowsInv(r)'
  <2>1. \A k : Secured(r, k) => Secured(r, k)'
    BY DEF Secured, TablesGrow
  <2> QED
    BY <2>1 DEF RequestInv, RowsInv, TablesGrow
<1>3. ASSUME NEW s \in VisibleSessions(r)
      PROVE  \E t \in VisibleSessions(r)' :
               t.acct = s.acct /\ Key(t) = Key(s) /\ (s.status # "draft" => t.status # "draft")
  BY <1>3 DEF VisibleSessions, TablesGrow
<1>4. SessionKnown(r) => SessionKnown(r)'
  BY <1>3 DEF SessionKnown
<1>5. AccountInv(r)'
  <2>1. tx[r].acct \in 0..MaxNumber /\ tx[r].at \in Nat /\ tx[r].ses.at \in Nat
    BY DEF Request
  <2>2. tx[r].at <= clock' /\ tx[r].ses.at <= clock'
    BY <2>1 DEF RequestInv, AccountInv, TablesGrow
  <2>3. tx[r].acct # 0 => tx[r].acct \in Numbers
    BY <2>1, OnboardingConstants DEF Numbers
  <2> QED
    BY <1>4, <2>2, <2>3 DEF RequestInv, AccountInv, TablesGrow
<1>6. EndInv(r)'
  BY <1>3 DEF RequestInv, EndInv
<1> QED
  BY <1>1, <1>2, <1>5, <1>6 DEF RequestInv

-----------------------------------------------------------------------------
(***************************************************************************)
(* A step of a running request that writes no table preserves the          *)
(* invariant if it leaves the request itself in order.                     *)
(***************************************************************************)
LEMMA Advance ==
  ASSUME IInv, NEW r \in Requests, UNCHANGED tables, seq' \in 1..(MaxNumber + 1),
         clock' \in Nat, clock <= clock', DOMAIN tx' = Requests,
         \A s \in Requests \ {r} : tx'[s] = tx[s], tx' = [s \in Requests |-> tx'[s]], tx'[r] \in Request,
         Running(r)', RequestInv(r)', Fresh'
  PROVE  IInv'
<1>1. TypeOK'
  <2>1. \A s \in Requests : tx'[s] \in Request
    BY DEF IInv, TypeOK
  <2>2. tx' \in [Requests -> Request]
    BY <2>1
  <2> QED
    BY <2>2 DEF IInv, TypeOK, tables
<1>2. Resting'
  BY DEF IInv, Resting, Running
<1>3. ReadyHasConsents' /\ Referential' /\ SessionsFollowAccounts'
  BY DEF IInv, ReadyHasConsents, Referential, SessionsFollowAccounts, tables, Existing, Key
<1>6. InTime'
  <2>1. \A s \in sessions : s.at \in Nat /\ s.at <= clock
    BY DEF IInv, TypeOK, Session, InTime
  <2> QED
    BY <2>1 DEF IInv, TypeOK, InTime, tables
<1>4. TablesGrow /\ clock \in Nat /\ clock' \in Nat
  BY DEF TablesGrow, tables, IInv, TypeOK
<1>5. ASSUME NEW s \in Requests, Running(s)' PROVE RequestInv(s)'
  <2>1. CASE s = r
    BY <2>1
  <2>2. CASE s # r
    <3>1. tx'[s] = tx[s] /\ Running(s) /\ tx[s] \in Request
      BY <1>5, <2>2 DEF Running, IInv, TypeOK
    <3> QED
      BY <1>4, <3>1, OthersStay DEF IInv
  <2> QED
    BY <2>1, <2>2
<1> QED
  BY <1>1, <1>2, <1>3, <1>5, <1>6 DEF IInv

(***************************************************************************)
(* Numbers stay unique if the request keeps its own.                       *)
(***************************************************************************)
LEMMA FreshKept ==
  ASSUME IInv, NEW r \in Requests, UNCHANGED <<acc, seq>>,
         \A s \in Requests \ {r} : tx'[s] = tx[s],
         tx'[r].acct = tx[r].acct, tx'[r].new = tx[r].new
  PROVE  Fresh'
<1>1. \A s \in Requests : tx'[s].acct = tx[s].acct /\ tx'[s].new = tx[s].new
  OBVIOUS
<1> QED
  BY <1>1 DEF IInv, Fresh

(***************************************************************************)
(* What IInv says of a request at a statement.                             *)
(***************************************************************************)
LEMMA AtInv ==
  ASSUME IInv, NEW r \in Requests, NEW step, At(r, step)
  PROVE  /\ TypeOK /\ tx[r] \in Request /\ Running(r) /\ tx[r].todo # <<>>
         /\ TodoInv(r) /\ RowsInv(r) /\ AccountInv(r) /\ EndInv(r)
  BY DEF IInv, TypeOK, At, RequestInv

(***************************************************************************)
(* Most steps leave the request on its account.                            *)
(***************************************************************************)
LEMMA KeepsOn ==
  ASSUME IInv, NEW r \in Requests, NEW step, At(r, step), UNCHANGED <<tables, seq, clock>>,
         \A s \in Requests \ {r} : tx'[s] = tx[s], tx' = [s \in Requests |-> tx'[s]],
         tx'[r] \in Request, Running(r)', TodoInv(r)', RowsInv(r)', AccountInv(r)', EndInv(r)',
         tx'[r].acct = tx[r].acct, tx'[r].new = tx[r].new
  PROVE  IInv'
<1>1. DOMAIN tx' = Requests /\ seq' \in 1..(MaxNumber + 1) /\ clock' \in Nat /\ clock <= clock'
  BY DEF IInv, TypeOK
<1>2. Fresh'
  BY FreshKept DEF tables
<1>3. RequestInv(r)'
  BY DEF RequestInv
<1> QED
  BY <1>1, <1>2, <1>3, Advance

(***************************************************************************)
(* Executing a statement that writes no row and finds no account or        *)
(* session.                                                                *)
(***************************************************************************)
LEMMA NeutralStep ==
  ASSUME IInv, NEW r \in Requests, NEW step \in {"validate", "welcome", "peek", "finish"},
         At(r, step)
  PROVE  /\ Head(tx[r].todo) = Do(step)
         /\ \A e \in RowSteps \cup AccountSteps :
              e \in Left(Rest(r)) <=> e \in Left(tx[r].todo)
<1> DEFINE h == Head(tx[r].todo)
<1>1. h \in Menu(tx[r].op) /\ tx[r].op \in AllOps /\ h[1] = step
      /\ Left(tx[r].todo) = {h} \cup Left(Rest(r))
  BY AtInv, AtFacts
<1> HIDE DEF h
<1>2. h = Do(step)
  BY <1>1, MenuShape
<1>3. h \notin RowSteps \cup AccountSteps
  BY <1>2 DEF RowSteps, AccountSteps, Do, Ensure, Rows, Policies, None
<1> QED
  BY <1>1, <1>2, <1>3 DEF h

(***************************************************************************)
(* The statements that only lead on: validation, peek and grant.           *)
(***************************************************************************)
LEMMA ValidStep ==
  ASSUME IInv, NEW r \in Requests, Valid(r)
  PROVE  IInv'
<1> DEFINE t == tx[r]
           u == [tx[r] EXCEPT !.todo = Rest(r)]
<1>1. At(r, "validate") /\ UNCHANGED <<tables, seq, clock>>
  BY DEF Valid, Stay
<1>2. t \in Request /\ TodoInv(r) /\ RowsInv(r) /\ AccountInv(r) /\ EndInv(r) /\ t.todo # <<>>
      /\ tx \in [Requests -> Request] /\ Running(r)
  BY <1>1, AtInv DEF TypeOK
<1>3. /\ tx'[r] = u /\ tx' = [s \in Requests |-> tx'[s]]
      /\ \A s \in Requests \ {r} : tx'[s] = tx[s]
  BY <1>2 DEF Valid
<1>4. RowsKept(r) /\ AccountKept(r) /\ EndKept(r) /\ tx'[r].res = t.res /\ tx'[r].todo = Rest(r)
  BY <1>2, <1>3 DEF Request, RowsKept, AccountKept, EndKept
<1>5. \A e \in RowSteps \cup AccountSteps : e \in Left(Rest(r)) <=> e \in Left(t.todo)
  BY <1>1, NeutralStep
<1>6. TodoInv(r)'
  BY <1>1, <1>2, <1>4, TodoNext DEF RowsKept
<1>7. RowsInv(r)' /\ AccountInv(r)' /\ EndInv(r)'
  BY <1>1, <1>2, <1>4, <1>5, RowsKeptStep, AccountKeptStep, EndKeptStep DEF tables
<1>8. u \in Request
  <2>1. Rest(r) \in Lists
    BY <1>1, <1>2, AtFacts, TodoTyped
  <2> QED
    BY <1>2, <2>1, FieldTypes
<1> QED
  BY <1>1, <1>2, <1>3, <1>4, <1>6, <1>7, <1>8, KeepsOn DEF Running, AccountKept

(***************************************************************************)
(* skip_and_open remembers whether there is a holder.                      *)
(***************************************************************************)
LEMMA PeekHolderStep ==
  ASSUME IInv, NEW r \in Requests, PeekHolder(r)
  PROVE  IInv'
<1> DEFINE t == tx[r]
           u == [tx[r] EXCEPT !.know = profile, !.todo = Rest(r)]
<1>1. At(r, "peek") /\ UNCHANGED <<tables, seq, clock>>
  BY DEF PeekHolder, Stay
<1>2. t \in Request /\ TodoInv(r) /\ RowsInv(r) /\ AccountInv(r) /\ EndInv(r) /\ t.todo # <<>>
      /\ tx \in [Requests -> Request] /\ Running(r)
  BY <1>1, AtInv DEF TypeOK
<1>3. /\ tx'[r] = u /\ tx' = [s \in Requests |-> tx'[s]]
      /\ \A s \in Requests \ {r} : tx'[s] = tx[s]
  BY <1>2 DEF PeekHolder
<1>4. RowsKept(r) /\ AccountKept(r) /\ EndKept(r) /\ tx'[r].res = t.res /\ tx'[r].todo = Rest(r)
  BY <1>2, <1>3 DEF Request, RowsKept, AccountKept, EndKept
<1>5. \A e \in RowSteps \cup AccountSteps : e \in Left(Rest(r)) <=> e \in Left(t.todo)
  BY <1>1, NeutralStep
<1>6. TodoInv(r)'
  BY <1>1, <1>2, <1>4, TodoNext DEF RowsKept
<1>7. RowsInv(r)' /\ AccountInv(r)' /\ EndInv(r)'
  BY <1>1, <1>2, <1>4, <1>5, RowsKeptStep, AccountKeptStep, EndKeptStep DEF tables
<1>8. u \in Request
  <2>1. Rest(r) \in Lists
    BY <1>1, <1>2, AtFacts, TodoTyped
  <2> QED
    BY <1>2, <2>1, FieldTypes DEF IInv, TypeOK
<1> QED
  BY <1>1, <1>2, <1>3, <1>4, <1>6, <1>7, <1>8, KeepsOn DEF Running, AccountKept

(***************************************************************************)
(* The lock of the welcome grant changes nothing else.                     *)
(***************************************************************************)
LEMMA LockForGrantStep ==
  ASSUME IInv, NEW r \in Requests, LockForGrant(r)
  PROVE  IInv'
<1> DEFINE t == tx[r]
           u == [tx[r] EXCEPT !.lock = ForUpdate, !.todo = Rest(r)]
<1>1. At(r, "welcome") /\ UNCHANGED <<tables, seq, clock>>
  BY DEF LockForGrant, Stay
<1>2. t \in Request /\ TodoInv(r) /\ RowsInv(r) /\ AccountInv(r) /\ EndInv(r) /\ t.todo # <<>>
      /\ tx \in [Requests -> Request] /\ Running(r)
  BY <1>1, AtInv DEF TypeOK
<1>3. /\ tx'[r] = u /\ tx' = [s \in Requests |-> tx'[s]]
      /\ \A s \in Requests \ {r} : tx'[s] = tx[s]
  BY <1>2 DEF LockForGrant
<1>4. RowsKept(r) /\ AccountKept(r) /\ EndKept(r) /\ tx'[r].res = t.res /\ tx'[r].todo = Rest(r)
  BY <1>2, <1>3 DEF Request, RowsKept, AccountKept, EndKept
<1>5. \A e \in RowSteps \cup AccountSteps : e \in Left(Rest(r)) <=> e \in Left(t.todo)
  BY <1>1, NeutralStep
<1>6. TodoInv(r)'
  BY <1>1, <1>2, <1>4, TodoNext DEF RowsKept
<1>7. RowsInv(r)' /\ AccountInv(r)' /\ EndInv(r)'
  BY <1>1, <1>2, <1>4, <1>5, RowsKeptStep, AccountKeptStep, EndKeptStep DEF tables
<1>8. u \in Request
  <2>1. Rest(r) \in Lists
    BY <1>1, <1>2, AtFacts, TodoTyped
  <2>2. ForUpdate \in 0..3
    BY DEF ForUpdate
  <2> QED
    BY <1>2, <2>1, <2>2, FieldTypes
<1> QED
  BY <1>1, <1>2, <1>3, <1>4, <1>6, <1>7, <1>8, KeepsOn DEF Running, AccountKept

(***************************************************************************)
(* Rows: what is selected is there, or will be inserted.                   *)
(***************************************************************************)
LEMMA SelectRowStep ==
  ASSUME IInv, NEW r \in Requests, SelectRow(r)
  PROVE  IInv'
<1> DEFINE t == tx[r]
           h == Head(tx[r].todo)
           k == h[2]
           X == IF k \in rows \cup t.ins THEN Rest(r) ELSE <<<<"insert", k>>>> \o Rest(r)
           u == [tx[r] EXCEPT !.todo = X]
<1>1. At(r, "ensure") /\ UNCHANGED <<tables, seq, clock>>
  BY DEF SelectRow, Stay
<1>2. t \in Request /\ TodoInv(r) /\ RowsInv(r) /\ AccountInv(r) /\ EndInv(r) /\ t.todo # <<>>
      /\ tx \in [Requests -> Request] /\ Running(r)
  BY <1>1, AtInv DEF TypeOK
<1>3. /\ tx'[r] = u /\ tx' = [s \in Requests |-> tx'[s]]
      /\ \A s \in Requests \ {r} : tx'[s] = tx[s]
  BY <1>2 DEF SelectRow
<1>4. RowsKept(r) /\ AccountKept(r) /\ EndKept(r) /\ tx'[r].res = t.res /\ tx'[r].todo = X
      /\ tx'[r].know = t.know
  BY <1>2, <1>3 DEF Request, RowsKept, AccountKept, EndKept
<1>5. /\ t.op \in AllOps /\ h \in Menu(t.op) /\ h[1] = "ensure"
      /\ Left(t.todo) = {h} \cup Left(Rest(r)) /\ Rest(r) \in Seq(Menu(t.op))
  BY <1>1, <1>2, AtFacts
<1>6. h = Ensure(k) /\ k \in {"user"} \cup Policies
  BY <1>5, MenuShape
<1> DEFINE d == <<"insert", k>>
<1>7. d \in Menu(t.op) /\ Stage(t.op, d) = Stage(t.op, h)
  <2>1. d \in Menu(t.op)
    BY <1>5, <1>6, MenuSteps
  <2>2. k # None /\ h[2] = k /\ d[2] = k
    BY <1>6 DEF None, Policies
  <2> QED
    BY <2>1, <2>2 DEF Stage
<1>8. <<d>> \o Rest(r) \in Seq(Menu(t.op)) /\ Left(<<d>> \o Rest(r)) = {d} \cup Left(Rest(r))
  BY <1>1, <1>2, <1>7, AtFacts
<1>9. TodoInv(r)'
  <2>1. CASE k \in rows \cup t.ins
    BY <1>1, <1>2, <1>4, <2>1, TodoNext DEF RowsKept
  <2>2. CASE k \notin rows \cup t.ins
    BY <1>1, <1>2, <1>4, <1>7, <2>2, TodoReplaced DEF RowsKept
  <2> QED
    BY <2>1, <2>2
<1>10. \/ k \in rows \cup t.ins /\ Left(X) = Left(Rest(r))
       \/ d \in Left(X) /\ Left(X) = {d} \cup Left(Rest(r))
  BY <1>8
<1>11. X \in Lists
  BY <1>5, <1>8, TodoTyped
<1> HIDE DEF X, h
<1>12. AccountInv(r)' /\ EndInv(r)'
  <2>1. h \notin AccountSteps /\ d \notin AccountSteps
    BY <1>6 DEF AccountSteps, Ensure, Do
  <2>2. \A e \in AccountSteps : e \in Left(X) <=> e \in Left(t.todo)
    BY <1>5, <1>10, <2>1
  <2> QED
    BY <1>1, <1>2, <1>4, <2>2, AccountKeptStep, EndKeptStep DEF tables
<1>13. RowsInv(r)'
  <2>1. \A e : e # h /\ e # d => (e \in Left(X) <=> e \in Left(t.todo))
    BY <1>5, <1>10
  <2>2. \A e \in HolderSteps \cup {Do("limit")} : e # h /\ e # d
    BY <1>6 DEF HolderSteps, Ensure, Do, None, Policies
  <2>3. ASSUME NEW q, Secured(r, q) PROVE Secured(r, q)'
    <3>1. CASE q = k
      BY <1>1, <1>4, <1>10, <3>1 DEF Secured, RowsKept, Writing, tables
    <3>2. CASE q # k
      <4>1. h \notin Writing(q) /\ d \notin Writing(q)
        BY <1>6, <3>2 DEF Writing, Ensure
      <4>2. Writing(q) \cap Left(X) = Writing(q) \cap Left(t.todo)
        BY <2>1, <4>1
      <4> QED
        BY <1>1, <1>4, <2>3, <4>2 DEF Secured, RowsKept, tables
    <3> QED
      BY <3>1, <3>2
  <2>4. /\ HolderSteps \cap Left(X) = HolderSteps \cap Left(t.todo)
        /\ {<<"insert", "holder">>, <<"update", "holder">>} \cap Left(X)
             = {<<"insert", "holder">>, <<"update", "holder">>} \cap Left(t.todo)
        /\ Do("limit") \in Left(X) <=> Do("limit") \in Left(t.todo)
    BY <2>1, <2>2 DEF HolderSteps
  <2> QED
    BY <1>1, <1>2, <1>4, <2>3, <2>4 DEF RowsInv, RowsKept, tables
<1>14. u \in Request
  BY <1>2, <1>11, FieldTypes
<1> QED
  BY <1>1, <1>2, <1>3, <1>4, <1>9, <1>12, <1>13, <1>14, KeepsOn DEF Running, AccountKept

(***************************************************************************)
(* The INSERT or UPDATE of row k leaves row k written.                     *)
(***************************************************************************)
LEMMA WriteStep ==
  ASSUME IInv, NEW r \in Requests, NEW step \in {"insert", "update"}, At(r, step),
         tx' = [tx EXCEPT ![r].ins = @ \cup {Head(tx[r].todo)[2]}, ![r].todo = Rest(r)],
         UNCHANGED <<tables, seq, clock>>
  PROVE  IInv'
<1> DEFINE t == tx[r]
           h == Head(tx[r].todo)
           k == h[2]
           u == [tx[r] EXCEPT !.ins = @ \cup {k}, !.todo = Rest(r)]
<1>2. t \in Request /\ TodoInv(r) /\ RowsInv(r) /\ AccountInv(r) /\ EndInv(r) /\ t.todo # <<>>
      /\ tx \in [Requests -> Request] /\ Running(r)
  BY AtInv DEF TypeOK
<1>3. /\ tx'[r] = u /\ tx' = [s \in Requests |-> tx'[s]]
      /\ \A s \in Requests \ {r} : tx'[s] = tx[s]
  BY <1>2
<1>4. /\ AccountKept(r) /\ EndKept(r) /\ tx'[r].res = t.res /\ tx'[r].todo = Rest(r)
      /\ tx'[r].ins = t.ins \cup {k} /\ tx'[r].prof = t.prof /\ tx'[r].know = t.know
  BY <1>2, <1>3 DEF Request, AccountKept, EndKept
<1>5. /\ t.op \in AllOps /\ h \in Menu(t.op) /\ h[1] = step
      /\ Left(t.todo) = {h} \cup Left(Rest(r)) /\ Rest(r) \in Seq(Menu(t.op))
  BY <1>2, AtFacts
<1>6. h = <<step, k>> /\ k \in Rows /\ (step = "update" => k = "holder")
  BY <1>5, MenuShape DEF Rows
<1>7. tx'[r].op = t.op
  BY <1>4 DEF AccountKept
<1>8. TodoInv(r)'
  <2>1. RowStage(t.op, k) = Stage(t.op, h)
    BY <1>6 DEF Stage, Rows, Policies, None
  <2> QED
    BY <1>2, <1>4, <1>7, <2>1, TodoNext
<1>9. u \in Request
  <2>1. Rest(r) \in Lists
    BY <1>5, TodoTyped
  <2>2. t.ins \cup {k} \in SUBSET Rows
    BY <1>2, <1>6 DEF Request
  <2> QED
    BY <1>2, <2>1, <2>2, FieldTypes
<1> HIDE DEF h, t
<1>10. AccountInv(r)' /\ EndInv(r)'
  <2>1. h \notin AccountSteps
    BY <1>6 DEF AccountSteps, Do
  <2>2. \A e \in AccountSteps : e \in Left(Rest(r)) <=> e \in Left(t.todo)
    BY <1>5, <2>1
  <2> QED
    BY <1>2, <1>4, <2>2, AccountKeptStep, EndKeptStep DEF tables, t
<1>11. RowsInv(r)'
  <2>1. \A e : e # h => (e \in Left(Rest(r)) <=> e \in Left(t.todo))
    BY <1>5
  <2>2. ASSUME NEW q \in {"user"} \cup Policies, Secured(r, q) PROVE Secured(r, q)'
    <3>1. CASE q = k
      BY <1>4, <3>1 DEF Secured
    <3>2. CASE q # k
      <4>1. h \notin Writing(q)
        BY <1>6, <3>2 DEF Writing, Ensure
      <4>2. Writing(q) \cap Left(Rest(r)) = Writing(q) \cap Left(t.todo)
        BY <2>1, <4>1
      <4> QED
        BY <1>4, <2>2, <4>2 DEF Secured, tables, t
    <3> QED
      BY <3>1, <3>2
  <2>3. Do("limit") \in Left(Rest(r)) <=> Do("limit") \in Left(t.todo)
    BY <1>6, <2>1 DEF Do
  <2>4. /\ t.op \in OpenOps => "holder" \in rows' \cup tx'[r].ins \/ HolderSteps \cap Left(Rest(r)) # {}
        /\ t.prof # None <=> \/ "holder" \in tx'[r].ins
                             \/ {<<"insert", "holder">>, <<"update", "holder">>} \cap Left(Rest(r)) # {}
    <3>0. /\ t.op \in OpenOps => "holder" \in rows \cup t.ins \/ HolderSteps \cap Left(t.todo) # {}
          /\ t.prof # None <=> \/ "holder" \in t.ins
                               \/ {<<"insert", "holder">>, <<"update", "holder">>} \cap Left(t.todo) # {}
      BY <1>2 DEF RowsInv, t
    <3>1. CASE k = "holder"
      <4>1. t.prof # None
        BY <1>5, <1>6, <3>0, <3>1
      <4> QED
        BY <1>4, <3>1, <4>1
    <3>2. CASE k # "holder"
      <4>1. h \notin HolderSteps
        BY <1>6, <3>2 DEF HolderSteps, Do, None, Rows, Policies
      <4>2. /\ HolderSteps \cap Left(Rest(r)) = HolderSteps \cap Left(t.todo)
            /\ {<<"insert", "holder">>, <<"update", "holder">>} \cap Left(Rest(r))
                 = {<<"insert", "holder">>, <<"update", "holder">>} \cap Left(t.todo)
        BY <2>1, <4>1 DEF HolderSteps
      <4>3. rows' = rows /\ ("holder" \in tx'[r].ins <=> "holder" \in t.ins)
        BY <1>4, <3>2 DEF tables
      <4> QED
        BY <3>0, <4>2, <4>3
    <3> QED
      BY <3>1, <3>2
  <2>5. {"TOS", "DD_SKIP"} \subseteq Policies /\ profile' = profile
    BY DEF Policies, tables
  <2> QED
    BY <1>2, <1>4, <1>7, <2>2, <2>3, <2>4, <2>5 DEF RowsInv, t
<1> QED
  BY <1>2, <1>3, <1>4, <1>8, <1>9, <1>10, <1>11, KeepsOn DEF Running, AccountKept, t

(***************************************************************************)
(* Below the limit there is a holder, and so a user.                       *)
(***************************************************************************)
LEMMA CheckLimitStep ==
  ASSUME IInv, NEW r \in Requests, At(r, "limit"), MayOpen,
         tx' = [tx EXCEPT ![r].todo = Rest(r)], UNCHANGED <<tables, seq, clock>>
  PROVE  IInv'
<1> DEFINE t == tx[r]
           h == Head(tx[r].todo)
           u == [tx[r] EXCEPT !.todo = Rest(r)]
<1>2. t \in Request /\ TodoInv(r) /\ RowsInv(r) /\ AccountInv(r) /\ EndInv(r) /\ t.todo # <<>>
      /\ tx \in [Requests -> Request] /\ Running(r)
  BY AtInv DEF TypeOK
<1>3. /\ tx'[r] = u /\ tx' = [s \in Requests |-> tx'[s]]
      /\ \A s \in Requests \ {r} : tx'[s] = tx[s]
  BY <1>2
<1>4. /\ AccountKept(r) /\ EndKept(r) /\ tx'[r].res = t.res /\ tx'[r].todo = Rest(r) /\ RowsKept(r)
      /\ tx'[r].know = t.know
  BY <1>2, <1>3 DEF Request, AccountKept, EndKept, RowsKept
<1>5. /\ t.op \in AllOps /\ h \in Menu(t.op) /\ h[1] = "limit"
      /\ Left(t.todo) = {h} \cup Left(Rest(r)) /\ Rest(r) \in Seq(Menu(t.op))
  BY <1>2, AtFacts
<1>6. h = Do("limit")
  BY <1>5, MenuShape
<1>7. TodoInv(r)'
  BY <1>2, <1>4, TodoNext DEF RowsKept
<1>8. u \in Request
  <2>1. Rest(r) \in Lists
    BY <1>5, TodoTyped
  <2> QED
    BY <1>2, <2>1, FieldTypes
<1> HIDE DEF h, t
<1>9. AccountInv(r)' /\ EndInv(r)'
  <2>1. h \notin AccountSteps
    BY <1>6 DEF AccountSteps, Do
  <2>2. \A e \in AccountSteps : e \in Left(Rest(r)) <=> e \in Left(t.todo)
    BY <1>5, <2>1
  <2> QED
    BY <1>2, <1>4, <2>2, AccountKeptStep, EndKeptStep DEF tables, t
<1>10. RowsInv(r)'
  <2>1. \A e : e # h => (e \in Left(Rest(r)) <=> e \in Left(t.todo))
    BY <1>5
  <2>2. "user" \in rows
    BY DEF MayOpen, IInv, Referential
  <2>3. \A q \in Rows : h \notin Writing(q)
    BY <1>6 DEF Writing, Ensure, Do
  <2>4. \A q \in Rows : Writing(q) \cap Left(Rest(r)) = Writing(q) \cap Left(t.todo)
    BY <2>1, <2>3
  <2>5. \A q \in Rows : Secured(r, q)' <=> Secured(r, q)
    BY <1>4, <2>4 DEF Secured, tables, RowsKept, t
  <2>6. h \notin HolderSteps
    BY <1>6 DEF HolderSteps, Do
  <2>7. /\ HolderSteps \cap Left(Rest(r)) = HolderSteps \cap Left(t.todo)
        /\ {<<"insert", "holder">>, <<"update", "holder">>} \cap Left(Rest(r))
             = {<<"insert", "holder">>, <<"update", "holder">>} \cap Left(t.todo)
    BY <2>1, <2>6 DEF HolderSteps
  <2>8. {"user", "TOS", "DD_SKIP"} \subseteq Rows /\ Secured(r, "user")'
    BY <2>2 DEF Rows, Policies, Secured, tables
  <2> QED
    BY <1>2, <1>4, <2>5, <2>7, <2>8 DEF RowsInv, RowsKept, tables, t
<1> QED
  BY <1>2, <1>3, <1>4, <1>7, <1>8, <1>9, <1>10, KeepsOn DEF Running, AccountKept, t

(***************************************************************************)
(* The holder is there, or its INSERT or UPDATE comes next.                *)
(***************************************************************************)
LEMMA UpsertHolderStep ==
  ASSUME IInv, NEW r \in Requests, UpsertHolder(r)
  PROVE  IInv'
<1> DEFINE t == tx[r]
           h == Head(tx[r].todo)
           u == tx'[r]
<1>1. At(r, "holder") /\ UNCHANGED <<tables, seq, clock>>
  BY DEF UpsertHolder, Stay
<1>2. t \in Request /\ TodoInv(r) /\ RowsInv(r) /\ AccountInv(r) /\ EndInv(r) /\ t.todo # <<>>
      /\ tx \in [Requests -> Request] /\ Running(r)
  BY <1>1, AtInv DEF TypeOK
<1>3. /\ t.op \in AllOps /\ h \in Menu(t.op) /\ h[1] = "holder"
      /\ Left(t.todo) = {h} \cup Left(Rest(r)) /\ Rest(r) \in Seq(Menu(t.op))
      /\ \A d \in Menu(t.op) : Stage(t.op, d) = Stage(t.op, h) =>
              /\ <<d>> \o Rest(r) \in Seq(Menu(t.op))
              /\ Left(<<d>> \o Rest(r)) = {d} \cup Left(Rest(r))
  BY <1>1, <1>2, AtFacts
<1>4. h = Do("holder")
  BY <1>3, MenuShape
<1>5. HolderData(r) \in {"basic", "full"} /\ HolderData(r) # None
  BY DEF HolderData, None
<1>6. profile # None => "holder" \in rows
  BY DEF IInv, Referential
<1>7. CASE /\ t.know # None \/ profile = HolderData(r)
           /\ tx' = [tx EXCEPT ![r].todo = Rest(r)]
  <2>1. /\ u = [tx[r] EXCEPT !.todo = Rest(r)] /\ tx' = [s \in Requests |-> tx'[s]]
        /\ \A s \in Requests \ {r} : tx'[s] = tx[s]
    BY <1>2, <1>7
  <2>2. /\ AccountKept(r) /\ EndKept(r) /\ u.res = t.res /\ u.todo = Rest(r) /\ RowsKept(r)
        /\ u.know = t.know
    BY <1>2, <2>1 DEF Request, AccountKept, EndKept, RowsKept
  <2>3. TodoInv(r)'
    BY <1>1, <1>2, <2>2, TodoNext DEF RowsKept
  <2>4. u \in Request
    <3>1. Rest(r) \in Lists
      BY <1>3, TodoTyped
    <3>2. [tx[r] EXCEPT !.todo = Rest(r)] \in Request
      BY <1>2, <3>1, FieldTypes
    <3> QED
      BY <2>1, <3>2
  <2> HIDE DEF h, t, u
  <2>5. \A e : e # h => (e \in Left(Rest(r)) <=> e \in Left(t.todo))
    BY <1>3
  <2>6. AccountInv(r)' /\ EndInv(r)'
    <3>1. h \notin AccountSteps
      BY <1>4 DEF AccountSteps, Do
    <3>2. \A e \in AccountSteps : e \in Left(Rest(r)) <=> e \in Left(t.todo)
      BY <2>5, <3>1
    <3> QED
      BY <1>1, <1>2, <2>2, <3>2, AccountKeptStep, EndKeptStep DEF tables, t, u
  <2>7. RowsInv(r)'
    <3>1. "holder" \in rows
      BY <1>2, <1>5, <1>6, <1>7 DEF RowsInv, t
    <3>2. \A q \in Rows : h \notin Writing(q)
      BY <1>4 DEF Writing, Ensure, Do
    <3>3. \A q \in Rows : Writing(q) \cap Left(Rest(r)) = Writing(q) \cap Left(t.todo)
      BY <2>5, <3>2
    <3>4. \A q \in Rows : Secured(r, q)' <=> Secured(r, q)
      BY <1>1, <2>2, <3>3 DEF Secured, tables, RowsKept, t, u
    <3>5. h \notin {<<"insert", "holder">>, <<"update", "holder">>, Do("limit")}
      BY <1>4 DEF Do
    <3>6. /\ {<<"insert", "holder">>, <<"update", "holder">>} \cap Left(Rest(r))
               = {<<"insert", "holder">>, <<"update", "holder">>} \cap Left(t.todo)
          /\ Do("limit") \in Left(Rest(r)) <=> Do("limit") \in Left(t.todo)
      BY <2>5, <3>5
    <3>7. {"user", "TOS", "DD_SKIP"} \subseteq Rows /\ "holder" \in rows' /\ profile' = profile
      BY <1>1, <3>1 DEF Rows, Policies, tables
    <3> QED
      BY <1>2, <2>2, <3>4, <3>6, <3>7 DEF RowsInv, RowsKept, t, u
  <2> QED
    BY <1>1, <1>2, <2>1, <2>2, <2>3, <2>4, <2>6, <2>7, KeepsOn DEF Running, AccountKept, t, u
<1>8. ASSUME NEW d \in {<<"insert", "holder">>, <<"update", "holder">>},
             tx' = [tx EXCEPT ![r].prof = HolderData(r), ![r].todo = <<d>> \o Rest(r)]
      PROVE  IInv'
  <2> DEFINE c == <<d>> \o Rest(r)
  <2>1. /\ u = [tx[r] EXCEPT !.prof = HolderData(r), !.todo = c] /\ tx' = [s \in Requests |-> tx'[s]]
        /\ \A s \in Requests \ {r} : tx'[s] = tx[s]
    BY <1>2, <1>8
  <2>2. /\ AccountKept(r) /\ EndKept(r) /\ u.res = t.res /\ u.todo = c
        /\ u.prof = HolderData(r) /\ u.know = t.know /\ u.ins = t.ins
    BY <1>2, <2>1 DEF Request, AccountKept, EndKept
  <2>3. d \in Menu(t.op) /\ Stage(t.op, d) = Stage(t.op, h)
    <3>1. HolderSteps \subseteq Menu(t.op)
      <4>1. HolderSteps \cap Menu(t.op) # {}
        BY <1>3, <1>4 DEF HolderSteps
      <4> QED
        BY <1>3, <4>1, MenuSteps
    <3>2. d[2] = "holder" /\ "holder" # None /\ d \in HolderSteps
      BY DEF None, HolderSteps
    <3>3. Stage(t.op, d) = 12
      BY <3>2 DEF Stage, RowStage
    <3>4. Stage(t.op, h) = 12
      BY <1>4 DEF Stage, DoStage, Do
    <3> QED
      BY <3>1, <3>2, <3>3, <3>4
  <2>4. c \in Seq(Menu(t.op)) /\ Left(c) = {d} \cup Left(Rest(r))
    BY <1>3, <2>3
  <2>5. u.op = t.op
    BY <2>2 DEF AccountKept
  <2>6. TodoInv(r)'
    BY <1>1, <1>2, <2>2, <2>3, <2>5, TodoReplaced
  <2>7. u \in Request
    <3>1. c \in Lists
      BY <1>3, <2>4, TodoTyped
    <3>2. [tx[r] EXCEPT !.prof = HolderData(r)] \in Request
      BY <1>2, <1>5, FieldTypes
    <3>3. [tx[r] EXCEPT !.prof = HolderData(r), !.todo = c] \in Request
      BY <3>1, <3>2, FieldTypes
    <3> QED
      BY <2>1, <3>3
  <2> HIDE DEF h, t, u, c
  <2>8. \A e : e # h /\ e # d => (e \in Left(c) <=> e \in Left(t.todo))
    BY <1>3, <2>4
  <2>9. AccountInv(r)' /\ EndInv(r)'
    <3>1. h \notin AccountSteps /\ d \notin AccountSteps
      BY <1>4 DEF AccountSteps, Do
    <3>2. \A e \in AccountSteps : e \in Left(c) <=> e \in Left(t.todo)
      BY <2>8, <3>1
    <3> QED
      BY <1>1, <1>2, <2>2, <3>2, AccountKeptStep, EndKeptStep DEF tables, t, u
  <2>10. RowsInv(r)'
    <3>1. \A q \in {"user"} \cup Policies : h \notin Writing(q) /\ d \notin Writing(q)
      BY <1>4 DEF Writing, Ensure, Do, Policies
    <3>2. \A q \in {"user"} \cup Policies : Writing(q) \cap Left(c) = Writing(q) \cap Left(t.todo)
      BY <2>8, <3>1
    <3>3. \A q \in {"user"} \cup Policies : Secured(r, q)' <=> Secured(r, q)
      BY <1>1, <2>2, <3>2 DEF Secured, tables, t, u
    <3>4. Do("limit") # h /\ Do("limit") # d
      BY <1>4 DEF Do
    <3>5. Do("limit") \in Left(c) <=> Do("limit") \in Left(t.todo)
      BY <2>8, <3>4
    <3>6. /\ {<<"insert", "holder">>, <<"update", "holder">>} \cap Left(c) # {}
          /\ HolderSteps \cap Left(c) # {}
      BY <2>4 DEF HolderSteps
    <3>7. {"TOS", "DD_SKIP"} \subseteq Policies /\ profile' = profile /\ u.prof # None
      BY <1>1, <1>5, <2>2 DEF Policies, tables
    <3> QED
      BY <1>2, <2>2, <2>5, <3>3, <3>5, <3>6, <3>7 DEF RowsInv, t, u
  <2> QED
    BY <1>1, <1>2, <2>1, <2>2, <2>6, <2>7, <2>9, <2>10, KeepsOn DEF Running, AccountKept, t, u
<1> QED
  BY <1>7, <1>8 DEF UpsertHolder

(***************************************************************************)
(* resolve_onboarding_account: an account that is there, or none yet.      *)
(***************************************************************************)
LEMMA ResolveShape ==
  ASSUME IInv, NEW r \in Requests, NEW step \in {"resolve", "create", "session"}, At(r, step)
  PROVE  /\ Head(tx[r].todo) = Do(step)
         /\ Left(tx[r].todo) = {Do(step)} \cup Left(Rest(r)) /\ Do(step) \notin Left(Rest(r))
         /\ \A e \in RowSteps : e \in Left(Rest(r)) <=> e \in Left(tx[r].todo)
         /\ Do("resolve") \notin Left(Rest(r)) /\ Do("create") \notin Left(Rest(r))
<1> DEFINE h == Head(tx[r].todo)
           op == tx[r].op
<1>1. /\ h \in Menu(op) /\ op \in AllOps /\ h[1] = step
      /\ Left(tx[r].todo) = {h} \cup Left(Rest(r))
      /\ \A f \in Left(Rest(r)) : Stage(op, h) < Stage(op, f)
  BY AtInv, AtFacts
<1> HIDE DEF h, op
<1>2. h = Do(step)
  BY <1>1, MenuShape
<1>3. h \notin RowSteps
  BY <1>2 DEF RowSteps, Do, Ensure, Rows, Policies, None
<1>4. /\ Stage(op, Do("resolve")) = 7 /\ Stage(op, Do("create")) = 7 /\ Stage(op, Do("session")) = 8
  BY DEF Stage, DoStage, Do
<1>5. Stage(op, h) \in {7, 8}
  BY <1>2, <1>4
<1>6. Do("resolve") \notin Left(Rest(r)) /\ Do("create") \notin Left(Rest(r))
  BY <1>1, <1>4, <1>5
<1>7. h \notin Left(Rest(r))
  BY <1>1, <1>5
<1> QED
  BY <1>1, <1>2, <1>3, <1>6, <1>7 DEF h

(***************************************************************************)
(* A request looking for an account has none, and has made none.           *)
(***************************************************************************)
LEMMA NotNew ==
  ASSUME IInv, NEW r \in Requests, NEW step \in {"resolve", "create"}, At(r, step)
  PROVE  tx[r].new = FALSE
<1>1. AccountInv(r) /\ tx[r] \in Request
  BY AtInv
<1>2. {Do("resolve"), Do("create")} \cap Left(tx[r].todo) # {}
  BY ResolveShape
<1>3. ~tx[r].new
  BY <1>1, <1>2 DEF AccountInv
<1>4. tx[r].new \in BOOLEAN
  BY <1>1 DEF Request
<1> QED
  BY <1>3, <1>4

(***************************************************************************)
(* The account the request names is one that is there.                     *)
(***************************************************************************)
LEMMA UseAccountStep ==
  ASSUME IInv, NEW r \in Requests, UseAccount(r)
  PROVE  IInv'
<1> DEFINE t == tx[r]
           a == tx[r].target
           u == [tx[r] EXCEPT !.acct = a, !.seen = acc[a], !.todo = Rest(r)]
<1>1. At(r, "resolve") /\ UNCHANGED <<tables, seq, clock>> /\ a \in Numbers /\ acc[a] # None
  BY DEF UseAccount, Stay, Existing
<1>2. t \in Request /\ TodoInv(r) /\ RowsInv(r) /\ AccountInv(r) /\ EndInv(r) /\ t.todo # <<>>
      /\ tx \in [Requests -> Request] /\ Running(r) /\ TypeOK
  BY <1>1, AtInv DEF TypeOK
<1>3. /\ tx'[r] = u /\ tx' = [s \in Requests |-> tx'[s]]
      /\ \A s \in Requests \ {r} : tx'[s] = tx[s]
  BY <1>2 DEF UseAccount
<1>4. /\ RowsKept(r) /\ EndKept(r) /\ tx'[r].res = t.res /\ tx'[r].todo = Rest(r)
      /\ tx'[r].op = t.op /\ tx'[r].acct = a /\ tx'[r].seen = acc[a] /\ tx'[r].at = t.at
      /\ tx'[r].new = t.new /\ tx'[r].mine = t.mine /\ tx'[r].ses = t.ses
  BY <1>2, <1>3 DEF Request, RowsKept, EndKept
<1>5. /\ Left(t.todo) = {Do("resolve")} \cup Left(Rest(r))
      /\ \A e \in RowSteps : e \in Left(Rest(r)) <=> e \in Left(t.todo)
      /\ {Do("resolve"), Do("create")} \cap Left(Rest(r)) = {}
  BY <1>1, ResolveShape
<1>6. TodoInv(r)'
  BY <1>1, <1>2, <1>4, TodoNext DEF RowsKept
<1>7. RowsInv(r)' /\ EndInv(r)'
  BY <1>1, <1>2, <1>4, <1>5, RowsKeptStep, EndKeptStep DEF tables
<1>8. a \in 0..MaxNumber /\ a # 0 /\ acc[a] \in Statuses
  BY <1>1, <1>2, OnboardingConstants DEF TypeOK, Numbers
<1>9. u \in Request
  <2>1. Rest(r) \in Lists
    BY <1>1, <1>2, AtFacts, TodoTyped
  <2>2. acc[a] \in Statuses \cup {None}
    BY <1>8
  <2>3. [tx[r] EXCEPT !.acct = a] \in Request
    BY <1>2, <1>8, FieldTypes
  <2>4. [tx[r] EXCEPT !.acct = a, !.seen = acc[a]] \in Request
    BY <2>2, <2>3, FieldTypes
  <2> QED
    BY <2>1, <2>4, FieldTypes
<1>10. tx[r].new = FALSE
  BY <1>1, NotNew
<1>11. AccountInv(r)'
  <2>1. SessionKnown(r)' \/ Do("session") \in Left(Rest(r)) \/ t.op \in {"status", "consent"}
    <3>1. t.acct = 0 \/ t.op \in {"status", "consent"}
      BY <1>2, <1>5 DEF AccountInv
    <3>2. Do("session") \in Left(t.todo) \/ t.op \in {"status", "consent"}
      BY <1>2, <3>1 DEF AccountInv
    <3>3. Do("session") # Do("resolve")
      BY DEF Do
    <3> QED
      BY <1>5, <3>2, <3>3
  <2>2. /\ t.mine => t.ses.acct # 0 /\ Do("session") \notin Left(Rest(r))
        /\ t.at <= clock /\ t.ses.at <= clock
    BY <1>2, <1>5 DEF AccountInv
  <2>3. acc' = acc /\ clock' = clock
    BY <1>1 DEF tables
  <2> QED
    BY <1>1, <1>4, <1>5, <1>8, <1>10, <2>1, <2>2, <2>3 DEF AccountInv
<1>12. Fresh'
  <2>1. a < seq
    BY <1>1, <1>2, <1>8 DEF IInv, Fresh, TypeOK, Numbers
  <2>2. ~tx'[r].new /\ tx'[r].acct < seq
    BY <1>4, <1>10, <2>1
  <2>3. acc' = acc /\ seq' = seq
    BY <1>1 DEF tables
  <2> QED
    BY <1>3, <2>2, <2>3 DEF IInv, Fresh
<1> QED
  <2>1. DOMAIN tx' = Requests /\ seq' \in 1..(MaxNumber + 1) /\ clock' \in Nat /\ clock <= clock'
    BY <1>1, <1>2, <1>3 DEF TypeOK
  <2>2. RequestInv(r)' /\ Running(r)' /\ tx'[r] \in Request
    BY <1>2, <1>3, <1>4, <1>6, <1>7, <1>9, <1>11 DEF RequestInv, Running
  <2> QED
    BY <1>1, <1>3, <1>12, <2>1, <2>2, Advance

(***************************************************************************)
(* Nothing follows the end of a handler, nor the account of a status.      *)
(***************************************************************************)
LEMMA LastStep ==
  ASSUME IInv, NEW r \in Requests, NEW step, At(r, step),
         step = "finish" \/ (step = "resolve" /\ tx[r].op = "status")
  PROVE  Rest(r) = <<>>
<1> DEFINE h == Head(tx[r].todo)
           op == tx[r].op
<1>1. /\ h \in Menu(op) /\ op \in AllOps /\ h[1] = step /\ Rest(r) \in Seq(Menu(op))
      /\ \A f \in Left(Rest(r)) : f \in Menu(op) /\ Stage(op, h) < Stage(op, f)
  BY AtInv, AtFacts
<1>2. h = Do(step)
  BY <1>1, MenuShape
<1> HIDE DEF h
<1>3. CASE step = "finish"
  <2>1. Stage(op, h) = 14
    BY <1>2, <1>3 DEF Stage, DoStage, Do
  <2>2. \A f : Stage(op, f) \in 1..14
    BY MenuStages
  <2>3. Left(Rest(r)) = {}
    <3> HIDE DEF op
    <3> QED
      BY <1>1, <2>1, <2>2
  <2> QED
    BY <1>1, <2>3, EmptyLeft
<1>4. CASE step = "resolve" /\ op = "status"
  <2>1. Stage(op, h) = 7
    BY <1>2, <1>4 DEF Stage, DoStage, Do
  <2>2. \A f \in Menu(op) : Stage(op, f) \in {1, 7}
    BY <1>4 DEF Menu, Writing, Ensure, Do, Stage, RowStage, DoStage, None
  <2>3. Left(Rest(r)) = {}
    <3> HIDE DEF op
    <3> QED
      BY <1>1, <2>1, <2>2
  <2> QED
    BY <1>1, <2>3, EmptyLeft
<1> QED
  BY <1>3, <1>4

(***************************************************************************)
(* Without an account a draft is made next, except by status.              *)
(***************************************************************************)
LEMMA NoAccountYetStep ==
  ASSUME IInv, NEW r \in Requests, NoAccountYet(r)
  PROVE  IInv'
<1> DEFINE t == tx[r]
           d == Do("create")
           X == IF t.op = "status" THEN <<>> ELSE <<d>> \o Rest(r)
           u == [tx[r] EXCEPT !.todo = X]
<1>1. At(r, "resolve") /\ UNCHANGED <<tables, seq, clock>>
  BY DEF NoAccountYet, Stay
<1>2. t \in Request /\ TodoInv(r) /\ RowsInv(r) /\ AccountInv(r) /\ EndInv(r) /\ t.todo # <<>>
      /\ tx \in [Requests -> Request] /\ Running(r) /\ TypeOK
  BY <1>1, AtInv DEF TypeOK
<1>3. /\ tx'[r] = u /\ tx' = [s \in Requests |-> tx'[s]]
      /\ \A s \in Requests \ {r} : tx'[s] = tx[s]
  BY <1>2 DEF NoAccountYet
<1>4. RowsKept(r) /\ AccountKept(r) /\ EndKept(r) /\ tx'[r].res = t.res /\ tx'[r].todo = X
  BY <1>2, <1>3 DEF Request, RowsKept, EndKept, AccountKept
<1>5. /\ Left(t.todo) = {Do("resolve")} \cup Left(Rest(r)) /\ Head(t.todo) = Do("resolve")
      /\ \A e \in RowSteps : e \in Left(Rest(r)) <=> e \in Left(t.todo)
  BY <1>1, ResolveShape
<1>6. CASE t.op = "status"
  <2>1. X = Rest(r)
    BY <1>1, <1>6, LastStep
  <2>2. TodoInv(r)'
    BY <1>1, <1>2, <1>4, <2>1, TodoNext DEF RowsKept
  <2>3. RowsInv(r)' /\ EndInv(r)'
    BY <1>1, <1>2, <1>4, <1>5, <2>1, RowsKeptStep, EndKeptStep DEF tables
  <2>4. AccountInv(r)'
    <3>1. Do("session") \notin Left(t.todo) => Do("session") \notin Left(Rest(r))
      BY <1>5
    <3>2. tx'[r].op \in {"status", "consent"}
      BY <1>4, <1>6 DEF AccountKept
    <3> QED
      BY <1>1, <1>2, <1>4, <2>1, <3>1, <3>2 DEF AccountInv, AccountKept, tables
  <2>5. u \in Request
    <3>1. Rest(r) \in Lists
      BY <1>1, <1>2, AtFacts, TodoTyped
    <3> QED
      BY <1>2, <2>1, <3>1, FieldTypes
  <2> QED
    BY <1>1, <1>2, <1>3, <1>4, <2>2, <2>3, <2>4, <2>5, KeepsOn DEF Running, AccountKept
<1>7. CASE t.op # "status"
  <2>1. d \in Menu(t.op) /\ Stage(t.op, d) = Stage(t.op, Head(t.todo))
    <3>1. Do("resolve") \in Menu(t.op) /\ t.op \in AllOps
      BY <1>1, <1>2, <1>5, AtFacts
    <3>2. d \in Menu(t.op)
      BY <1>7, <3>1, MenuSteps
    <3>3. Stage(t.op, d) = Stage(t.op, Do("resolve"))
      BY DEF Stage, DoStage, Do
    <3> QED
      BY <1>5, <3>2, <3>3
  <2>2. /\ X = <<d>> \o Rest(r) /\ X \in Seq(Menu(t.op)) /\ t.op \in AllOps
        /\ Left(X) = {d} \cup Left(Rest(r))
    BY <1>1, <1>2, <1>7, <2>1, AtFacts
  <2>3. TodoInv(r)'
    BY <1>1, <1>2, <1>4, <2>1, <2>2, TodoReplaced DEF RowsKept
  <2>4. u \in Request
    <3>1. X \in Lists
      BY <2>2, TodoTyped
    <3> QED
      BY <1>2, <3>1, FieldTypes
  <2> HIDE DEF X
  <2>5. RowsInv(r)' /\ EndInv(r)'
    <3>1. d \notin RowSteps
      BY DEF RowSteps, Do, Ensure, Rows, Policies, None
    <3>2. \A e \in RowSteps : e \in Left(X) <=> e \in Left(t.todo)
      BY <1>5, <2>2, <3>1
    <3> QED
      BY <1>1, <1>2, <1>4, <3>2, RowsKeptStep, EndKeptStep DEF tables
  <2>6. AccountInv(r)'
    <3>1. Do("session") \in Left(X) <=> Do("session") \in Left(t.todo)
      BY <1>5, <2>2 DEF Do
    <3>2. /\ {Do("resolve"), Do("create")} \cap Left(X) # {}
          /\ {Do("resolve"), Do("create")} \cap Left(t.todo) # {}
      BY <1>5, <2>2
    <3>3. SessionKnown(r)' <=> SessionKnown(r)
      BY <1>1, <1>4 DEF SessionKnown, VisibleSessions, AccountKept, Key, tables
    <3> QED
      BY <1>1, <1>2, <1>4, <3>1, <3>2, <3>3 DEF AccountInv, AccountKept, tables
  <2> QED
    BY <1>1, <1>2, <1>3, <1>4, <2>3, <2>4, <2>5, <2>6, KeepsOn DEF Running, AccountKept
<1> QED
  BY <1>6, <1>7

(***************************************************************************)
(* The number a draft is given is above all that were drawn.               *)
(***************************************************************************)
LEMMA CreateDraftStep ==
  ASSUME IInv, NEW r \in Requests, CreateDraft(r)
  PROVE  IInv'
<1> DEFINE t == tx[r]
           u == [tx[r] EXCEPT !.acct = seq, !.seen = "in_progress", !.new = TRUE, !.todo = Rest(r)]
<1>1. At(r, "create") /\ UNCHANGED <<tables, clock>> /\ seq <= MaxNumber /\ seq' = seq + 1
  BY DEF CreateDraft, NextNumber
<1>2. t \in Request /\ TodoInv(r) /\ RowsInv(r) /\ AccountInv(r) /\ EndInv(r) /\ t.todo # <<>>
      /\ tx \in [Requests -> Request] /\ Running(r) /\ TypeOK
  BY <1>1, AtInv DEF TypeOK
<1>3. /\ tx'[r] = u /\ tx' = [s \in Requests |-> tx'[s]]
      /\ \A s \in Requests \ {r} : tx'[s] = tx[s]
  BY <1>2 DEF CreateDraft, NextNumber
<1>4. /\ RowsKept(r) /\ EndKept(r) /\ tx'[r].res = t.res /\ tx'[r].todo = Rest(r)
      /\ tx'[r].op = t.op /\ tx'[r].acct = seq /\ tx'[r].seen = "in_progress" /\ tx'[r].at = t.at
      /\ tx'[r].mine = t.mine /\ tx'[r].ses = t.ses
  BY <1>2, <1>3 DEF Request, RowsKept, EndKept
<1>5. tx'[r].new = TRUE
  BY <1>2, <1>3 DEF Request
<1>6. /\ Left(t.todo) = {Do("create")} \cup Left(Rest(r)) /\ Head(t.todo) = Do("create")
      /\ \A e \in RowSteps : e \in Left(Rest(r)) <=> e \in Left(t.todo)
      /\ {Do("resolve"), Do("create")} \cap Left(Rest(r)) = {}
  BY <1>1, ResolveShape
<1>7. TodoInv(r)'
  BY <1>1, <1>2, <1>4, TodoNext DEF RowsKept
<1>8. RowsInv(r)' /\ EndInv(r)'
  BY <1>1, <1>2, <1>4, <1>6, RowsKeptStep, EndKeptStep DEF tables
<1>9. seq \in 0..MaxNumber /\ seq # 0 /\ seq \in Numbers /\ seq' \in 1..(MaxNumber + 1)
  BY <1>1, <1>2, OnboardingConstants DEF TypeOK, Numbers
<1>10. u \in Request
  <2>1. Rest(r) \in Lists
    BY <1>1, <1>2, AtFacts, TodoTyped
  <2>2. "in_progress" \in Statuses \cup {None}
    BY DEF Statuses, INCOMPLETE_STATUSES
  <2>3. [tx[r] EXCEPT !.acct = seq] \in Request
    BY <1>2, <1>9, FieldTypes
  <2>4. [tx[r] EXCEPT !.acct = seq, !.seen = "in_progress"] \in Request
    BY <2>2, <2>3, FieldTypes
  <2>5. [tx[r] EXCEPT !.acct = seq, !.seen = "in_progress", !.new = TRUE] \in Request
    BY <2>4, FieldTypes
  <2> QED
    BY <2>1, <2>5, FieldTypes
<1>11. AccountInv(r)'
  <2>1. t.op \notin {"status", "consent"}
    <3>1. Do("create") \in Menu(t.op) /\ t.op \in AllOps
      BY <1>1, <1>2, <1>6, AtFacts
    <3> QED
      BY <3>1, MenuSteps
  <2>2. Do("session") \in Left(Rest(r)) /\ ~t.mine
    <3>1. t.acct = 0
      BY <1>2, <1>6, <2>1 DEF AccountInv
    <3>2. Do("session") \in Left(t.todo)
      BY <1>2, <2>1, <3>1 DEF AccountInv
    <3>3. Do("session") # Do("create")
      BY DEF Do
    <3> QED
      BY <1>2, <1>6, <3>2, <3>3 DEF AccountInv
  <2>3. t.at <= clock /\ t.ses.at <= clock
    BY <1>2 DEF AccountInv
  <2>4. clock' = clock /\ "in_progress" # None
    BY <1>1 DEF None
  <2> QED
    BY <1>4, <1>5, <1>6, <1>9, <2>1, <2>2, <2>3, <2>4 DEF AccountInv
<1>12. Fresh'
  <2>1. acc' = acc /\ acc[seq] = None
    BY <1>1, <1>9 DEF tables, IInv, Fresh
  <2>2. \A s \in Requests : tx[s].acct \in 0..MaxNumber
    BY <1>2 DEF Request
  <2>3. \A s \in Requests \ {r} : tx'[s].acct < seq /\ tx'[s].acct # seq /\ tx'[s].acct < seq'
    BY <1>1, <1>3, <1>9, <2>2 DEF IInv, Fresh
  <2>4. \A a \in Numbers : a >= seq' => acc'[a] = None
    BY <1>1, <1>9, <2>1 DEF IInv, Fresh, Numbers
  <2>5. tx'[r].acct < seq' /\ acc'[tx'[r].acct] = None
    BY <1>1, <1>4, <1>9, <2>1
  <2>6. \A s \in Requests \ {r} : tx'[s].new => acc'[tx'[s].acct] = None
    BY <1>3, <2>1 DEF IInv, Fresh
  <2>7. \A s, q \in Requests : tx'[s].new /\ tx'[q].new /\ tx'[s].acct = tx'[q].acct => s = q
    <3>1. \A s \in Requests \ {r} : tx'[s].acct # tx'[r].acct
      BY <1>4, <2>3
    <3> QED
      BY <1>3, <3>1 DEF IInv, Fresh
  <2> QED
    BY <2>3, <2>4, <2>5, <2>6, <2>7 DEF Fresh
<1> QED
  <2>1. DOMAIN tx' = Requests /\ clock' \in Nat /\ clock <= clock'
    BY <1>1, <1>2, <1>3 DEF TypeOK
  <2>2. RequestInv(r)' /\ Running(r)' /\ tx'[r] \in Request
    BY <1>2, <1>3, <1>4, <1>7, <1>8, <1>10, <1>11 DEF RequestInv, Running
  <2> QED
    BY <1>1, <1>3, <1>9, <1>12, <2>1, <2>2, Advance

-----------------------------------------------------------------------------
(***************************************************************************)
(* A finite set of naturals has a greatest element.                        *)
(***************************************************************************)
LEMMA Greatest ==
  ASSUME NEW G, G \subseteq Nat, IsFiniteSet(G), G # {}
  PROVE  \E a \in G : \A b \in G : b <= a
<1> DEFINE Above(a) == {b \in G : b > a}
           T == {Above(a) : a \in G}
<1>1. IsWellFoundedOn(StrictSubsetOrdering(G), FiniteSubsetsOf(G))
  BY FS_StrictSubsetOrderingWellFounded
<1>2. T \subseteq FiniteSubsetsOf(G)
  BY FS_FiniteSubsetsOfFinite
<1>3. T # {}
  OBVIOUS
<1> HIDE DEF T
<1>4. PICK x \in T : \A y \in T : ~(<<y, x>> \in StrictSubsetOrdering(G))
  BY <1>1, <1>2, <1>3, WFMin
<1>5. PICK a \in G : x = Above(a)
  BY <1>4 DEF T
<1>6. ASSUME NEW b \in G, b > a PROVE FALSE
  <2>1. Above(b) \in T
    BY DEF T
  <2>2. a \in Nat /\ b \in Nat /\ \A c \in G : c \in Nat
    BY <1>5, <1>6
  <2>3. \A c \in G : c > b => c > a
    BY <1>6, <2>2
  <2>4. Above(b) \subseteq Above(a) /\ b \in Above(a) /\ b \notin Above(b)
    <3>1. b > a /\ ~(b > b)
      BY <1>6, <2>2
    <3> QED
      BY <1>6, <2>3, <3>1, Zenon
  <2>5. <<Above(b), Above(a)>> \in StrictSubsetOrdering(G)
    BY <2>4 DEF StrictSubsetOrdering
  <2> QED
    BY <1>4, <1>5, <2>1, <2>5
<1> QED
  BY <1>6

(***************************************************************************)
(* The sessions a request sees are sessions, none from the future, so      *)
(* that an account that has any has a latest one.                          *)
(***************************************************************************)
LEMMA VisibleFacts ==
  ASSUME IInv, NEW r \in Requests, Running(r)
  PROVE  /\ VisibleSessions(r) \subseteq Session
         /\ \A v \in VisibleSessions(r) : v.at <= clock /\ Key(v) \in [acct : 0..MaxNumber, at : Nat]
         /\ tx[r].mine => [acct |-> tx[r].ses.acct, at |-> tx[r].ses.at, status |-> "draft"]
                            \in VisibleSessions(r)
<1> DEFINE own == [acct |-> tx[r].ses.acct, at |-> tx[r].ses.at, status |-> "draft"]
<1>1. sessions \subseteq Session /\ tx[r] \in Request /\ AccountInv(r) /\ InTime
  BY DEF IInv, TypeOK, RequestInv
<1>2. tx[r].ses \in [acct : 0..MaxNumber, at : Nat] /\ tx[r].ses.at <= clock
  BY <1>1 DEF Request, AccountInv
<1>3. tx[r].mine => tx[r].ses.acct # 0
  BY <1>1 DEF AccountInv
<1>4. tx[r].ses.acct # 0 => own \in Session
  BY <1>2, OnboardingConstants DEF Session, Numbers
<1>5. own.at <= clock
  BY <1>2
<1>6. \A v \in VisibleSessions(r) : v \in sessions \/ (tx[r].mine /\ v = own)
  BY DEF VisibleSessions
<1>7. tx[r].mine => own \in VisibleSessions(r)
  BY DEF VisibleSessions
<1> HIDE DEF own
<1>8. \A v \in VisibleSessions(r) : v \in Session /\ v.at <= clock
  BY <1>1, <1>3, <1>4, <1>5, <1>6 DEF InTime
<1>9. \A v \in Session : Key(v) \in [acct : 0..MaxNumber, at : Nat]
  BY OnboardingConstants DEF Session, Key, Numbers
<1> QED
  BY <1>7, <1>8, <1>9 DEF own

(***************************************************************************)
(* An account with a session has a latest one.                             *)
(***************************************************************************)
LEMMA LatestExists ==
  ASSUME IInv, NEW r \in Requests, Running(r), NEW a, \E v \in VisibleSessions(r) : v.acct = a
  PROVE  Latest(r, a) # {}
<1> DEFINE V == {v \in VisibleSessions(r) : v.acct = a}
           G == {v.at : v \in V}
<1>1. \A v \in VisibleSessions(r) : v \in Session /\ v.at <= clock
  BY VisibleFacts
<1>2. clock \in Nat
  BY DEF IInv, TypeOK
<1>3. G \subseteq Nat /\ G # {} /\ \A b \in G : b <= clock
  BY <1>1 DEF Session
<1> HIDE DEF G
<1>4. IsFiniteSet(G)
  BY <1>2, <1>3, FS_BoundedSetOfNaturals
<1>5. PICK m \in G : \A b \in G : b <= m
  BY <1>3, <1>4, Greatest
<1>6. PICK v \in V : v.at = m
  BY <1>5 DEF G
<1>7. \A w \in VisibleSessions(r) : w.acct = a => w.at <= v.at
  BY <1>5, <1>6 DEF G
<1>8. v \in Latest(r, a)
  BY <1>6, <1>7 DEF Latest
<1> QED
  BY <1>8

(***************************************************************************)
(* ensure_session: the request's session is one of its account.            *)
(***************************************************************************)
LEMMA EnsureSessionStep ==
  ASSUME IInv, NEW r \in Requests, EnsureSession(r)
  PROVE  IInv'
<1> DEFINE t == tx[r]
           open == {s \in Latest(r, tx[r].acct) : s.status = "draft"}
           v == [acct |-> tx[r].acct, at |-> tx[r].at]
<1>1. At(r, "session") /\ UNCHANGED <<tables, seq, clock>>
  BY DEF EnsureSession, Stay
<1>2. t \in Request /\ TodoInv(r) /\ RowsInv(r) /\ AccountInv(r) /\ EndInv(r) /\ t.todo # <<>>
      /\ tx \in [Requests -> Request] /\ Running(r) /\ TypeOK
  BY <1>1, AtInv DEF TypeOK
<1>3. /\ Left(t.todo) = {Do("session")} \cup Left(Rest(r)) /\ Head(t.todo) = Do("session")
      /\ Do("session") \notin Left(Rest(r))
      /\ \A e \in RowSteps : e \in Left(Rest(r)) <=> e \in Left(t.todo)
      /\ {Do("resolve"), Do("create")} \cap Left(Rest(r)) = {}
  BY <1>1, ResolveShape
<1>4. t.op \notin {"status", "consent"}
  <2>1. Do("session") \in Menu(t.op) /\ t.op \in AllOps
    BY <1>1, <1>2, <1>3, AtFacts
  <2> QED
    BY <2>1, MenuSteps
<1>5. {Do("resolve"), Do("create")} \cap Left(t.todo) = {}
  BY <1>3 DEF Do
<1>6. t.acct # 0 /\ ~t.mine
  <2>1. t.acct # 0
    BY <1>2, <1>4, <1>5 DEF AccountInv
  <2>2. ~t.mine
    BY <1>2, <1>3 DEF AccountInv
  <2> QED
    BY <2>1, <2>2
<1>7. Rest(r) \in Lists
  BY <1>1, <1>2, AtFacts, TodoTyped
<1>8. /\ t.acct # 0 => t.seen # None /\ (acc[t.acct] # None \/ t.new)
      /\ t.new => t.acct # 0
      /\ t.at <= clock
  BY <1>2 DEF AccountInv
<1>9. CASE \E s \in open : tx' = [tx EXCEPT ![r].ses = Key(s), ![r].todo = Rest(r)]
  <2>1. PICK s \in open : tx' = [tx EXCEPT ![r].ses = Key(s), ![r].todo = Rest(r)]
    BY <1>9
  <2>2. s \in VisibleSessions(r) /\ s.acct = t.acct
    BY DEF Latest
  <2>3. Key(s) \in [acct : 0..MaxNumber, at : Nat] /\ s.at <= clock
    BY <1>2, <2>2, VisibleFacts
  <2> DEFINE u == [tx[r] EXCEPT !.ses = Key(s), !.todo = Rest(r)]
  <2>4. /\ tx'[r] = u /\ tx' = [q \in Requests |-> tx'[q]]
        /\ \A q \in Requests \ {r} : tx'[q] = tx[q]
    BY <1>2, <2>1
  <2>5. /\ RowsKept(r) /\ EndKept(r) /\ tx'[r].res = t.res /\ tx'[r].todo = Rest(r)
        /\ tx'[r].op = t.op /\ tx'[r].acct = t.acct /\ tx'[r].seen = t.seen /\ tx'[r].at = t.at
        /\ tx'[r].mine = t.mine /\ tx'[r].ses = Key(s) /\ tx'[r].new = t.new
    BY <1>2, <2>4 DEF Request, RowsKept, EndKept
  <2>6. TodoInv(r)'
    BY <1>1, <1>2, <2>5, TodoNext DEF RowsKept
  <2>7. RowsInv(r)' /\ EndInv(r)'
    BY <1>1, <1>2, <1>3, <2>5, RowsKeptStep, EndKeptStep DEF tables
  <2>8. u \in Request
    <3>1. [tx[r] EXCEPT !.ses = Key(s)] \in Request
      BY <1>2, <2>3, FieldTypes
    <3> QED
      BY <1>7, <3>1, FieldTypes
  <2>9. SessionKnown(r)'
    <3>1. s \in sessions
      BY <1>6, <2>2 DEF VisibleSessions
    <3>2. s \in VisibleSessions(r)'
      BY <1>1, <3>1 DEF VisibleSessions, tables
    <3> QED
      BY <2>2, <2>5, <3>2 DEF SessionKnown, Key
  <2>10. AccountInv(r)'
    <3>1. Key(s).at <= clock
      BY <2>3 DEF Key
    <3>2. acc' = acc /\ clock' = clock
      BY <1>1 DEF tables
    <3>3. ~tx'[r].mine
      BY <1>6, <2>5
    <3> QED
      BY <1>3, <1>4, <1>6, <1>8, <2>5, <2>9, <3>1, <3>2, <3>3 DEF AccountInv
  <2> QED
    BY <1>1, <1>2, <2>4, <2>5, <2>6, <2>7, <2>8, <2>10, KeepsOn DEF Running
<1>10. CASE tx' = [tx EXCEPT ![r].ses = v, ![r].mine = TRUE, ![r].lock = KeyShare,
                             ![r].todo = Rest(r)]
  <2> DEFINE u == [tx[r] EXCEPT !.ses = v, !.mine = TRUE, !.lock = KeyShare, !.todo = Rest(r)]
  <2>1. /\ tx'[r] = u /\ tx' = [q \in Requests |-> tx'[q]]
        /\ \A q \in Requests \ {r} : tx'[q] = tx[q]
    BY <1>2, <1>10
  <2>2. /\ RowsKept(r) /\ EndKept(r) /\ tx'[r].res = t.res /\ tx'[r].todo = Rest(r)
        /\ tx'[r].op = t.op /\ tx'[r].acct = t.acct /\ tx'[r].seen = t.seen /\ tx'[r].at = t.at
        /\ tx'[r].ses = v /\ tx'[r].new = t.new
    BY <1>2, <2>1 DEF Request, RowsKept, EndKept
  <2>3. tx'[r].mine = TRUE
    BY <1>2, <2>1 DEF Request
  <2>4. TodoInv(r)'
    BY <1>1, <1>2, <2>2, TodoNext DEF RowsKept
  <2>5. RowsInv(r)' /\ EndInv(r)'
    BY <1>1, <1>2, <1>3, <2>2, RowsKeptStep, EndKeptStep DEF tables
  <2>6. u \in Request
    <3>1. v \in [acct : 0..MaxNumber, at : Nat]
      BY <1>2 DEF Request
    <3>2. [tx[r] EXCEPT !.ses = v] \in Request
      BY <1>2, <3>1, FieldTypes
    <3>3. [tx[r] EXCEPT !.ses = v, !.mine = TRUE] \in Request
      BY <3>2, FieldTypes
    <3>4. KeyShare \in 0..3
      BY DEF KeyShare
    <3>5. [tx[r] EXCEPT !.ses = v, !.mine = TRUE, !.lock = KeyShare] \in Request
      BY <3>3, <3>4, FieldTypes
    <3> QED
      BY <1>7, <3>5, FieldTypes
  <2>7. SessionKnown(r)'
    <3> DEFINE own == [acct |-> v.acct, at |-> v.at, status |-> "draft"]
    <3>1. own \in VisibleSessions(r)'
      BY <2>2, <2>3 DEF VisibleSessions
    <3>2. own.acct = t.acct /\ Key(own) = v
      BY DEF Key
    <3> QED
      BY <2>2, <3>1, <3>2 DEF SessionKnown, Key
  <2>8. AccountInv(r)'
    <3>1. v.at <= clock /\ v.acct # 0
      BY <1>6, <1>8
    <3>2. acc' = acc /\ clock' = clock
      BY <1>1 DEF tables
    <3> HIDE DEF v
    <3> QED
      BY <1>3, <1>4, <1>6, <1>8, <2>2, <2>3, <2>7, <3>1, <3>2 DEF AccountInv
  <2> QED
    BY <1>1, <1>2, <2>1, <2>2, <2>4, <2>5, <2>6, <2>8, KeepsOn DEF Running
<1> QED
  BY <1>9, <1>10 DEF EnsureSession

(***************************************************************************)
(* The end of a handler: a document writes a status only if it loaded      *)
(* not_started, and a status that makes the account ready comes with a     *)
(* session that is or will be finished.                                    *)
(***************************************************************************)
LEMMA StatusFacts ==
  ASSUME NEW r \in Requests, tx[r] \in Request, tx[r].seen # None, tx[r].op \in OnboardingOps,
         StatusWritten(r) # None
  PROVE  /\ StatusWritten(r) = NewStatus(tx[r].op)
         /\ tx[r].op = "document" => tx[r].seen = "not_started"
<1>1. StatusWritten(r) = NewStatus(tx[r].op) /\ tx[r].seen # NewStatus(tx[r].op)
  BY DEF StatusWritten, Change
<1>2. ASSUME tx[r].op = "document" PROVE tx[r].seen = "not_started"
  <2>1. tx[r].seen \in INCOMPLETE_STATUSES
    BY <1>2 DEF StatusWritten
  <2>2. NewStatus(tx[r].op) = "in_progress"
    BY <1>2 DEF NewStatus
  <2> QED
    BY <1>1, <2>1, <2>2 DEF INCOMPLETE_STATUSES
<1> QED
  BY <1>1, <1>2

(***************************************************************************)
(* The last statement of complete, skip, start and attach_document.        *)
(***************************************************************************)
LEMMA FinishStep ==
  ASSUME IInv, NEW r \in Requests, Finish(r)
  PROVE  IInv'
<1> DEFINE t == tx[r]
           st == StatusWritten(r)
           fin == Finished(r)
           lk == IF st # None THEN Strongest(t.lock, NoKeyUpdate) ELSE t.lock
           dc == t.op = "document"
           u == [tx[r] EXCEPT !.st = st, !.lock = lk, !.fin = fin, !.doc = dc, !.todo = Rest(r)]
<1>1. At(r, "finish") /\ UNCHANGED <<tables, seq, clock>>
  BY DEF Finish, Stay
<1>2. t \in Request /\ TodoInv(r) /\ RowsInv(r) /\ AccountInv(r) /\ EndInv(r) /\ t.todo # <<>>
      /\ tx \in [Requests -> Request] /\ Running(r)
  BY <1>1, AtInv DEF TypeOK
<1>3. /\ tx'[r] = u /\ tx' = [s \in Requests |-> tx'[s]]
      /\ \A s \in Requests \ {r} : tx'[s] = tx[s]
  BY <1>2 DEF Finish
<1>4. /\ RowsKept(r) /\ AccountKept(r) /\ tx'[r].res = t.res /\ tx'[r].todo = Rest(r)
      /\ tx'[r].st = st /\ tx'[r].fin = fin
  BY <1>2, <1>3 DEF Request, RowsKept, AccountKept
<1>5. tx'[r].doc = dc
  BY <1>2, <1>3 DEF Request
<1>6. /\ Head(t.todo) = Do("finish")
      /\ \A e \in RowSteps \cup AccountSteps : e \in Left(Rest(r)) <=> e \in Left(t.todo)
  BY <1>1, NeutralStep
<1>7. TodoInv(r)'
  BY <1>1, <1>2, <1>4, TodoNext DEF RowsKept
<1>8. RowsInv(r)' /\ AccountInv(r)'
  BY <1>1, <1>2, <1>4, <1>6, RowsKeptStep, AccountKeptStep DEF tables
<1>9. Rest(r) = <<>>
  BY <1>1, LastStep
<1>10. t.op \in OnboardingOps /\ t.op \notin {"status", "consent"}
  <2>1. Do("finish") \in Menu(t.op) /\ t.op \in AllOps
    BY <1>1, <1>2, <1>6, AtFacts
  <2>2. t.op \in OnboardingOps
    BY <2>1, MenuSteps
  <2> QED
    BY <2>2 DEF OnboardingOps, OpenOps
<1>11. \A e \in AccountSteps : e \notin Left(t.todo)
  <2>1. Left(Rest(r)) = {}
    BY <1>9 DEF Left
  <2> QED
    BY <1>6, <2>1
<1>12. t.acct # 0 /\ t.seen # None /\ SessionKnown(r)
  <2>1. {Do("resolve"), Do("create")} \cap Left(t.todo) = {} /\ Do("session") \notin Left(t.todo)
    BY <1>11 DEF AccountSteps
  <2> QED
    BY <1>2, <1>10, <2>1 DEF AccountInv
<1>13. st # None => st = NewStatus(t.op) /\ (t.op = "document" => t.seen = "not_started")
  BY <1>2, <1>10, <1>12, StatusFacts
<1> DEFINE s == CHOOSE w \in Latest(r, tx[r].acct) : TRUE
<1>14. s \in VisibleSessions(r) /\ s.acct = t.acct
  <2>1. Latest(r, tx[r].acct) # {}
    BY <1>2, <1>12, LatestExists DEF SessionKnown
  <2>2. s \in Latest(r, tx[r].acct)
    BY <2>1
  <2> QED
    BY <2>2 DEF Latest
<1>15. fin = IF t.op \in OpenOps /\ s.status # SessionStatus(t.op) THEN Key(s) ELSE NoSession
  BY DEF Finished
<1>16. u \in Request
  <2>1. Rest(r) \in Lists
    BY <1>1, <1>2, AtFacts, TodoTyped
  <2>2. st \in Statuses \cup {None}
    BY <1>13 DEF NewStatus, Statuses, READY_STATUSES, INCOMPLETE_STATUSES
  <2>3. lk \in 0..3
    <3>1. t.lock \in 0..3
      BY <1>2 DEF Request
    <3> QED
      BY <3>1 DEF Strongest, NoKeyUpdate
  <2>4. fin \in [acct : 0..MaxNumber, at : Nat]
    <3>1. Key(s) \in [acct : 0..MaxNumber, at : Nat]
      BY <1>2, <1>14, VisibleFacts
    <3>2. NoSession \in [acct : 0..MaxNumber, at : Nat]
      BY OnboardingConstants DEF NoSession
    <3> QED
      BY <1>15, <3>1, <3>2
  <2>5. dc \in BOOLEAN
    OBVIOUS
  <2> HIDE DEF st, lk, fin, dc
  <2>6. [tx[r] EXCEPT !.st = st] \in Request
    BY <1>2, <2>2, FieldTypes
  <2>7. [tx[r] EXCEPT !.st = st, !.lock = lk] \in Request
    BY <2>3, <2>6, FieldTypes
  <2>8. [tx[r] EXCEPT !.st = st, !.lock = lk, !.fin = fin] \in Request
    BY <2>4, <2>7, FieldTypes
  <2>9. [tx[r] EXCEPT !.st = st, !.lock = lk, !.fin = fin, !.doc = dc] \in Request
    BY <2>5, <2>8, FieldTypes
  <2> QED
    BY <2>1, <2>9, FieldTypes
<1>17. EndInv(r)'
  <2> HIDE DEF st, fin, s
  <2>1. /\ tx'[r].op = t.op /\ tx'[r].acct = t.acct /\ tx'[r].todo = <<>>
        /\ tx'[r].seen = t.seen
    BY <1>4, <1>9 DEF AccountKept
  <2>2. tx'[r].doc => t.op = "document"
    BY <1>5
  <2>3. ASSUME st \in READY_STATUSES
        PROVE  \E w \in VisibleSessions(r)' : w.acct = t.acct /\ (Key(w) = fin \/ w.status # "draft")
    <3>1. st # None
      BY <2>3 DEF READY_STATUSES, None
    <3>2. t.op \in OpenOps
      BY <1>13, <2>3, <3>1 DEF NewStatus, READY_STATUSES, OpenOps
    <3>3. Key(s) = fin \/ s.status # "draft"
      BY <1>15, <3>2 DEF SessionStatus
    <3>4. s \in VisibleSessions(r)'
      BY <1>1, <1>4, <1>14 DEF VisibleSessions, AccountKept, tables
    <3> QED
      BY <1>14, <3>3, <3>4
  <2> QED
    BY <1>4, <1>10, <1>13, <2>1, <2>2, <2>3 DEF EndInv, Key
<1> QED
  BY <1>1, <1>2, <1>3, <1>4, <1>7, <1>8, <1>16, <1>17, KeepsOn DEF Running, AccountKept

-----------------------------------------------------------------------------
(***************************************************************************)
(* A request that has not begun, or has ended.                             *)
(***************************************************************************)
LEMMA BlankTyped == Blank \in Request
<1>1. /\ "idle" \in {"idle", "running", "done", "failed"} /\ None \in AllOps \cup {None}
      /\ NoAccount \in Numbers \cup {NoAccount} /\ 0 \in Nat /\ 0 \in 0..MaxNumber /\ 0 \in 0..3
      /\ None \in Statuses \cup {None} /\ {} \in SUBSET Rows /\ None \in {None, "basic", "full"}
  BY OnboardingConstants
<1>2. NoSession \in [acct : 0..MaxNumber, at : Nat]
  BY OnboardingConstants DEF NoSession
<1>3. <<>> \in Seq({"ensure", "insert", "update", "resolve", "create", "session", "validate", "peek",
                    "holder", "welcome", "finish", "limit"} \X (Rows \cup {None}))
  OBVIOUS
<1> QED
  BY <1>1, <1>2, <1>3 DEF Blank, Request

(***************************************************************************)
(* A request begins with its handler's whole list.                         *)
(***************************************************************************)
LEMMA BeginStep ==
  ASSUME IInv, NEW r \in Requests, Begin(r)
  PROVE  IInv'
<1>1. PICK op \in Ops, a \in Numbers \cup {NoAccount}, p \in Policies :
        /\ tx[r].res = "idle"
        /\ op # "consent" => p = "TOS"
        /\ tx' = [tx EXCEPT ![r].res = "running", ![r].op = op, ![r].target = a,
                            ![r].todo = Program(op, p), ![r].at = clock]
        /\ clock' = clock + 1
        /\ UNCHANGED <<tables, seq>>
  BY DEF Begin
<1> DEFINE P == Program(op, p)
           u == [Blank EXCEPT !.res = "running", !.op = op, !.target = a, !.todo = P, !.at = clock]
<1>2. op \in AllOps
  BY OnboardingConstants
<1>3. /\ P \in Seq(Menu(op)) /\ Ordered(op, P)
      /\ op # "open_additional" => Ensure("user") \in Left(P)
      /\ op = "open_additional" => Do("limit") \in Left(P)
      /\ op \in OpenOps => Ensure("TOS") \in Left(P) /\ Do("holder") \in Left(P)
      /\ op = "skip" => Ensure("DD_SKIP") \in Left(P)
      /\ {<<"insert", "holder">>, <<"update", "holder">>} \cap Left(P) = {}
      /\ op \notin {"status", "consent"} =>
           {Do("resolve"), Do("create")} \cap Left(P) # {} /\ Do("session") \in Left(P)
  BY <1>1, <1>2, ProgramFacts
<1>4. tx[r] = Blank /\ TypeOK /\ tx \in [Requests -> Request] /\ clock \in Nat
  BY <1>1 DEF IInv, Resting, TypeOK
<1> HIDE DEF P
<1>5. /\ tx'[r] = u /\ tx' = [s \in Requests |-> tx'[s]]
      /\ \A s \in Requests \ {r} : tx'[s] = tx[s]
  BY <1>1, <1>4 DEF P
<1>6. u \in Request
  <2>1. P \in Lists
    BY <1>2, <1>3, TodoTyped
  <2>2. [Blank EXCEPT !.res = "running"] \in Request
    BY BlankTyped, FieldTypes
  <2>3. [Blank EXCEPT !.res = "running", !.op = op] \in Request
    BY <1>2, <2>2, FieldTypes
  <2>4. [Blank EXCEPT !.res = "running", !.op = op, !.target = a] \in Request
    BY <2>3, FieldTypes
  <2>5. [Blank EXCEPT !.res = "running", !.op = op, !.target = a, !.todo = P] \in Request
    BY <2>1, <2>4, FieldTypes
  <2> QED
    BY <1>4, <2>5, FieldTypes
<1>7. /\ tx'[r].res = "running" /\ tx'[r].op = op /\ tx'[r].todo = P /\ tx'[r].at = clock
      /\ tx'[r].acct = 0 /\ tx'[r].ins = {} /\ tx'[r].know = None /\ tx'[r].prof = None
      /\ tx'[r].ses = NoSession /\ tx'[r].st = None
  BY <1>5 DEF Blank
<1>8. tx'[r].new = FALSE /\ tx'[r].mine = FALSE /\ tx'[r].doc = FALSE
  BY <1>5 DEF Blank
<1>9. TodoInv(r)'
  BY <1>2, <1>3, <1>7 DEF TodoInv
<1>10. RowsInv(r)'
  <2>1. \A k : Ensure(k) \in Left(P) => Secured(r, k)'
    BY <1>7 DEF Secured, Writing
  <2>2. op \in OpenOps => HolderSteps \cap Left(P) # {}
    BY <1>3 DEF HolderSteps
  <2> QED
    BY <1>3, <1>7, <2>1, <2>2 DEF RowsInv
<1>11. AccountInv(r)'
  <2>1. clock <= clock' /\ NoSession.at <= clock'
    BY <1>1, <1>4 DEF NoSession
  <2> QED
    BY <1>3, <1>7, <1>8, <2>1 DEF AccountInv
<1>12. EndInv(r)'
  BY <1>7, <1>8 DEF EndInv, READY_STATUSES, None
<1>13. Fresh'
  <2>1. tx[r].acct = 0 /\ tx[r].new = FALSE
    BY <1>4 DEF Blank
  <2>2. acc' = acc /\ seq' = seq /\ tx'[r].acct = tx[r].acct
    BY <1>1, <1>7, <2>1 DEF tables
  <2>3. tx'[r].new = tx[r].new
    BY <1>8, <2>1
  <2> QED
    BY <1>5, <2>2, <2>3, FreshKept
<1> QED
  <2>1. RequestInv(r)' /\ Running(r)' /\ tx'[r] \in Request
    BY <1>5, <1>6, <1>7, <1>9, <1>10, <1>11, <1>12 DEF RequestInv, Running
  <2>2. /\ seq' \in 1..(MaxNumber + 1) /\ clock' \in Nat /\ clock <= clock' /\ DOMAIN tx' = Requests
        /\ UNCHANGED tables
    BY <1>1, <1>4, <1>5 DEF TypeOK
  <2> QED
    BY <1>5, <1>13, <2>1, <2>2, Advance

(***************************************************************************)
(* A request that ends: the others go on if the tables have only grown.    *)
(***************************************************************************)
LEMMA Ended ==
  ASSUME IInv, NEW r \in Requests, NEW res \in {"done", "failed"},
         tx' = [tx EXCEPT ![r] = [Blank EXCEPT !.res = res, !.op = tx[r].op]],
         TablesGrow, UNCHANGED <<seq, clock>>
  PROVE  /\ tx' \in [Requests -> Request] /\ Resting'
         /\ \A s \in Requests \ {r} : tx'[s] = tx[s]
         /\ tx'[r].acct = 0 /\ tx'[r].new = FALSE /\ tx'[r].res = res
         /\ \A s \in Requests : Running(s)' => RequestInv(s)'
<1> DEFINE u == [Blank EXCEPT !.res = res, !.op = tx[r].op]
<1>1. tx \in [Requests -> Request] /\ tx[r].op \in AllOps \cup {None} /\ clock \in Nat
  BY DEF IInv, TypeOK, Request
<1>2. tx'[r] = u /\ \A s \in Requests \ {r} : tx'[s] = tx[s]
  BY <1>1
<1>3. u \in Request
  <2>1. [Blank EXCEPT !.res = res] \in Request
    BY BlankTyped, FieldTypes
  <2> QED
    BY <1>1, <2>1, FieldTypes
<1>4. tx' \in [Requests -> Request]
  BY <1>1, <1>3
<1>5. u.acct = 0 /\ u.new = FALSE /\ u.res = res
  BY DEF Blank
<1>6. Resting'
  BY <1>2, <1>5 DEF IInv, Resting, Running
<1>7. ASSUME NEW s \in Requests, Running(s)' PROVE RequestInv(s)'
  <2>1. s # r
    BY <1>2, <1>5, <1>7 DEF Running
  <2>2. tx'[s] = tx[s] /\ Running(s) /\ tx[s] \in Request
    BY <1>1, <1>2, <1>7, <2>1 DEF Running
  <2>3. clock' \in Nat /\ RequestInv(s)
    BY <1>1, <2>2 DEF IInv
  <2> QED
    BY <1>1, <2>2, <2>3, OthersStay
<1> QED
  BY <1>2, <1>4, <1>5, <1>6, <1>7

(***************************************************************************)
(* Nothing of a request that is rolled back remains.                       *)
(***************************************************************************)
LEMMA RollbackStep ==
  ASSUME IInv, NEW r \in Requests, Rollback(r)
  PROVE  IInv'
<1>1. /\ tx' = [tx EXCEPT ![r] = [Blank EXCEPT !.res = "failed", !.op = tx[r].op]]
      /\ UNCHANGED <<tables, seq, clock>>
  BY DEF Rollback
<1>2. TablesGrow
  BY <1>1 DEF TablesGrow, tables, IInv, TypeOK
<1>3. /\ tx' \in [Requests -> Request] /\ Resting'
      /\ \A s \in Requests \ {r} : tx'[s] = tx[s]
      /\ tx'[r].acct = 0 /\ tx'[r].new = FALSE
      /\ \A s \in Requests : Running(s)' => RequestInv(s)'
  BY <1>1, <1>2, Ended
<1>4. TypeOK' /\ InTime' /\ ReadyHasConsents' /\ Referential' /\ SessionsFollowAccounts'
  BY <1>1, <1>3 DEF IInv, TypeOK, InTime, ReadyHasConsents, Referential, SessionsFollowAccounts,
                    tables, Existing, Key
<1>5. Fresh'
  <2>1. 0 < seq
    BY DEF IInv, TypeOK
  <2>2. acc' = acc /\ seq' = seq
    BY <1>1 DEF tables
  <2> QED
    BY <1>3, <2>1, <2>2 DEF IInv, Fresh
<1> QED
  BY <1>3, <1>4, <1>5 DEF IInv

(***************************************************************************)
(* A request that commits has written what its operation needs, as nothing *)
(* of its list is left.                                                    *)
(***************************************************************************)
LEMMA CommitFacts ==
  ASSUME IInv, NEW r \in Requests, Running(r), tx[r].todo = <<>>
  PROVE  LET t == tx[r] IN
         /\ "user" \in rows \cup t.ins
         /\ t.op \in OpenOps => {"TOS", "holder"} \subseteq rows \cup t.ins
         /\ t.op = "skip" => "DD_SKIP" \in rows \cup t.ins
         /\ t.prof # None <=> "holder" \in t.ins
         /\ t.op \notin {"status", "consent"} => SessionKnown(r)
         /\ t.op \in {"status", "consent"} => t.st = None /\ t.new = FALSE
         /\ t.st # None => t.op \in OnboardingOps /\ t.st = NewStatus(t.op)
         /\ t.st # None /\ t.op = "document" => t.seen = "not_started"
         /\ t.doc => t.op = "document"
         /\ t.st \in READY_STATUSES =>
              \E s \in VisibleSessions(r) : s.acct = t.acct /\ (Key(s) = t.fin \/ s.status # "draft")
<1> DEFINE t == tx[r]
<1>1. RowsInv(r) /\ AccountInv(r) /\ EndInv(r) /\ t \in Request
  BY DEF IInv, RequestInv, TypeOK
<1>2. Left(t.todo) = {}
  BY DEF Left
<1>3. \A k : Secured(r, k) => k \in rows \cup t.ins
  BY <1>2 DEF Secured
<1>4. "user" \in rows \cup t.ins
  BY <1>1, <1>2, <1>3 DEF RowsInv
<1>5. /\ t.op \in OpenOps => {"TOS", "holder"} \subseteq rows \cup t.ins
      /\ t.op = "skip" => "DD_SKIP" \in rows \cup t.ins
      /\ t.prof # None <=> "holder" \in t.ins
  BY <1>1, <1>2, <1>3 DEF RowsInv
<1>6. t.op \notin {"status", "consent"} => SessionKnown(r)
  BY <1>1, <1>2 DEF AccountInv
<1>7. /\ t.st # None => t.op \in OnboardingOps /\ t.st = NewStatus(t.op)
      /\ t.st # None /\ t.op = "document" => t.seen = "not_started"
  BY <1>1 DEF EndInv
<1>8. t.op \in {"status", "consent"} => t.st = None
  BY <1>7 DEF OnboardingOps, OpenOps
<1>9. t.op \in {"status", "consent"} => t.new = FALSE
  <2>1. t.op \in {"status", "consent"} => ~t.new
    BY <1>1 DEF AccountInv
  <2>2. t.new \in BOOLEAN
    BY <1>1 DEF Request
  <2> QED
    BY <2>1, <2>2
<1>10. /\ t.doc => t.op = "document"
       /\ t.st \in READY_STATUSES =>
            \E s \in VisibleSessions(r) : s.acct = t.acct /\ (Key(s) = t.fin \/ s.status # "draft")
  BY <1>1 DEF EndInv
<1> QED
  BY <1>4, <1>5, <1>6, <1>7, <1>8, <1>9, <1>10

(***************************************************************************)
(* What a commit does to the sessions and to the accounts.                 *)
(***************************************************************************)
LEMMA CommitSessions ==
  ASSUME IInv, NEW r \in Requests, Commit(r)
  PROVE  /\ sessions' \subseteq Session /\ \A s \in sessions' : s.at <= clock
         /\ \A s \in VisibleSessions(r) : \E w \in sessions' :
              /\ w.acct = s.acct /\ Key(w) = Key(s)
              /\ s.status # "draft" \/ Key(s) = tx[r].fin => w.status # "draft"
<1> DEFINE t == tx[r]
           F(s) == IF Key(s) = t.fin THEN [s EXCEPT !.status = SessionStatus(t.op)] ELSE s
<1>1. sessions' = {F(s) : s \in VisibleSessions(r)}
  BY DEF Commit
<1>2. Running(r)
  BY DEF Commit
<1>3. \A s \in VisibleSessions(r) : s \in Session /\ s.at <= clock
  BY <1>2, VisibleFacts
<1>4. SessionStatus(t.op) \in {"skipped", "approved_demo"}
  BY DEF SessionStatus
<1>5. ASSUME NEW s \in Session
      PROVE  /\ F(s) \in Session /\ F(s).at = s.at /\ F(s).acct = s.acct /\ Key(F(s)) = Key(s)
             /\ s.status # "draft" \/ Key(s) = t.fin => F(s).status # "draft"
  <2>1. CASE Key(s) = t.fin
    BY <1>4, <2>1 DEF Session, Key
  <2>2. CASE Key(s) # t.fin
    BY <2>2
  <2> QED
    BY <2>1, <2>2
<1> HIDE DEF F
<1>6. sessions' \subseteq Session /\ \A s \in sessions' : s.at <= clock
  BY <1>1, <1>3, <1>5
<1>7. ASSUME NEW s \in VisibleSessions(r)
      PROVE  \E w \in sessions' :
              /\ w.acct = s.acct /\ Key(w) = Key(s)
              /\ s.status # "draft" \/ Key(s) = tx[r].fin => w.status # "draft"
  BY <1>1, <1>3, <1>5
<1> QED
  BY <1>6, <1>7

(***************************************************************************)
(* A commit changes no account but its own, to the status it has written   *)
(* or to that of a draft it has made.                                      *)
(***************************************************************************)
LEMMA CommitAccounts ==
  ASSUME IInv, NEW r \in Requests, Commit(r)
  PROVE  /\ acc' \in [Numbers -> Statuses \cup {None}]
         /\ \A a \in Numbers : acc[a] # None => acc'[a] # None
         /\ \A a \in Numbers : acc'[a] # acc[a] =>
              /\ a = tx[r].acct
              /\ \/ tx[r].st # None /\ acc'[a] = tx[r].st
                 \/ tx[r].st = None /\ tx[r].new = TRUE /\ acc'[a] = "in_progress"
<1> DEFINE t == tx[r]
<1>1. acc' = [a \in Numbers |-> IF a # t.acct THEN acc[a]
                               ELSE IF t.st # None THEN t.st
                               ELSE IF t.new THEN "in_progress" ELSE acc[a]]
  BY DEF Commit
<1>2. t.st \in Statuses \cup {None} /\ acc \in [Numbers -> Statuses \cup {None}]
  BY DEF IInv, TypeOK, Request
<1>3. t.new \in BOOLEAN
  BY DEF IInv, TypeOK, Request
<1>4. "in_progress" \in Statuses /\ "in_progress" # None
  BY DEF Statuses, INCOMPLETE_STATUSES, None
<1>5. ASSUME NEW a \in Numbers
      PROVE  /\ acc'[a] \in Statuses \cup {None}
             /\ acc[a] # None => acc'[a] # None
             /\ acc'[a] # acc[a] =>
                  /\ a = t.acct
                  /\ \/ t.st # None /\ acc'[a] = t.st
                     \/ t.st = None /\ t.new = TRUE /\ acc'[a] = "in_progress"
  <2> HIDE DEF t
  <2>1. CASE a # t.acct
    BY <1>1, <1>2, <2>1
  <2>2. CASE a = t.acct /\ t.st # None
    BY <1>1, <1>2, <2>2
  <2>3. CASE a = t.acct /\ t.st = None /\ t.new
    BY <1>1, <1>3, <1>4, <2>3
  <2>4. CASE a = t.acct /\ t.st = None /\ ~t.new
    BY <1>1, <1>2, <2>4
  <2> QED
    BY <2>1, <2>2, <2>3, <2>4
<1>6. acc' \in [Numbers -> Statuses \cup {None}]
  <2>1. DOMAIN acc' = Numbers /\ acc' = [a \in Numbers |-> acc'[a]]
    BY <1>1
  <2> HIDE DEF t
  <2> QED
    BY <1>5, <2>1
<1> QED
  BY <1>5, <1>6

(***************************************************************************)
(* A commit preserves the invariant.                                       *)
(***************************************************************************)
LEMMA CommitStep ==
  ASSUME IInv, NEW r \in Requests, Commit(r)
  PROVE  IInv'
<1> DEFINE t == tx[r]
<1>1. /\ Running(r) /\ t.todo = <<>> /\ rows' = rows \cup t.ins
      /\ profile' = IF t.prof # None THEN t.prof ELSE profile
      /\ docs' = IF t.doc THEN docs \cup {t.ses} ELSE docs
      /\ tx' = [tx EXCEPT ![r] = [Blank EXCEPT !.res = "done", !.op = tx[r].op]]
      /\ UNCHANGED <<seq, clock>>
  BY DEF Commit, CommittedRows
<1>2. /\ "user" \in rows'
      /\ t.op \in OpenOps => {"TOS", "holder"} \subseteq rows'
      /\ t.op = "skip" => "DD_SKIP" \in rows'
      /\ t.prof # None <=> "holder" \in t.ins
      /\ t.op \notin {"status", "consent"} => SessionKnown(r)
      /\ t.op \in {"status", "consent"} => t.st = None /\ t.new = FALSE
      /\ t.st # None => t.op \in OnboardingOps /\ t.st = NewStatus(t.op)
      /\ t.doc => t.op = "document"
      /\ t.st \in READY_STATUSES =>
           \E s \in VisibleSessions(r) : s.acct = t.acct /\ (Key(s) = t.fin \/ s.status # "draft")
  BY <1>1, CommitFacts
<1>3. /\ sessions' \subseteq Session /\ \A s \in sessions' : s.at <= clock
      /\ \A s \in VisibleSessions(r) : \E w \in sessions' :
           /\ w.acct = s.acct /\ Key(w) = Key(s)
           /\ s.status # "draft" \/ Key(s) = t.fin => w.status # "draft"
  BY CommitSessions
<1>4. /\ acc' \in [Numbers -> Statuses \cup {None}]
      /\ \A a \in Numbers : acc[a] # None => acc'[a] # None
      /\ \A a \in Numbers : acc'[a] # acc[a] =>
           /\ a = t.acct
           /\ \/ t.st # None /\ acc'[a] = t.st
              \/ t.st = None /\ t.new = TRUE /\ acc'[a] = "in_progress"
  BY CommitAccounts
<1>5. t \in Request /\ TypeOK /\ AccountInv(r) /\ sessions \subseteq VisibleSessions(r)
  BY <1>1 DEF IInv, TypeOK, RequestInv, VisibleSessions
<1>6. /\ t.prof \in {None, "basic", "full"} /\ t.ins \subseteq Rows
      /\ t.ses \in [acct : 0..MaxNumber, at : Nat] /\ t.acct \in 0..MaxNumber
      /\ profile \in {None, "basic", "full"} /\ clock \in Nat /\ rows \subseteq Rows
  BY <1>5 DEF Request, TypeOK
<1>7. TablesGrow
  <2>1. \A s \in sessions : \E w \in sessions' :
          w.acct = s.acct /\ Key(w) = Key(s) /\ (s.status # "draft" => w.status # "draft")
    BY <1>3, <1>5
  <2>2. rows \subseteq rows' /\ (profile # None => profile' # None) /\ clock <= clock'
    BY <1>1, <1>6
  <2> QED
    BY <1>4, <2>1, <2>2 DEF TablesGrow
<1>8. /\ tx' \in [Requests -> Request] /\ Resting'
      /\ \A s \in Requests \ {r} : tx'[s] = tx[s]
      /\ tx'[r].acct = 0 /\ tx'[r].new = FALSE
      /\ \A s \in Requests : Running(s)' => RequestInv(s)'
  BY <1>1, <1>7, Ended
<1>9. t.doc => t.ses \in [acct : Numbers, at : Nat] /\ \E w \in sessions' : Key(w) = t.ses
  <2>1. SUFFICES ASSUME t.doc
                 PROVE  t.ses \in [acct : Numbers, at : Nat] /\ \E w \in sessions' : Key(w) = t.ses
    OBVIOUS
  <2>2. SessionKnown(r)
    BY <1>2, <2>1
  <2>3. PICK w \in sessions' : Key(w) = t.ses
    BY <1>3, <2>2 DEF SessionKnown
  <2>4. Key(w) \in [acct : Numbers, at : Nat]
    BY <1>3 DEF Session, Key
  <2> QED
    BY <2>3, <2>4
<1>10. TypeOK'
  <2>1. rows' \subseteq Rows /\ profile' \in {None, "basic", "full"}
    BY <1>1, <1>6
  <2>2. docs' \subseteq [acct : Numbers, at : Nat]
    BY <1>1, <1>5, <1>9 DEF TypeOK
  <2>3. seq' \in 1..(MaxNumber + 1) /\ clock' \in Nat
    BY <1>1, <1>5 DEF TypeOK
  <2> QED
    BY <1>3, <1>4, <1>8, <2>1, <2>2, <2>3 DEF TypeOK
<1>11. InTime'
  BY <1>1, <1>3 DEF InTime
<1> HIDE DEF t
<1>12. \A a \in Numbers : acc'[a] \in READY_STATUSES =>
         \/ acc'[a] = acc[a]
         \/ a = t.acct /\ t.op \in OpenOps /\ acc'[a] = NewStatus(t.op) /\ t.st \in READY_STATUSES
  <2>1. \A op \in OnboardingOps : NewStatus(op) \in READY_STATUSES => op \in OpenOps
    BY DEF NewStatus, READY_STATUSES, OpenOps
  <2>2. "in_progress" \notin READY_STATUSES
    BY DEF READY_STATUSES
  <2> QED
    BY <1>2, <1>4, <2>1, <2>2
<1>13. ReadyHasConsents'
  <2> SUFFICES ASSUME NEW a \in Numbers
               PROVE  /\ acc'[a] \in READY_STATUSES => "TOS" \in rows'
                      /\ acc'[a] = "skipped" => "DD_SKIP" \in rows'
    BY DEF ReadyHasConsents
  <2>1. CASE acc'[a] = acc[a]
    BY <1>1, <2>1 DEF IInv, ReadyHasConsents
  <2>2. CASE acc'[a] # acc[a]
    <3>1. acc'[a] = "skipped" => acc'[a] \in READY_STATUSES
      BY DEF READY_STATUSES
    <3>2. NewStatus(t.op) = "skipped" => t.op = "skip"
      BY DEF NewStatus
    <3> QED
      BY <1>2, <1>12, <2>2, <3>1, <3>2
  <2> QED
    BY <2>1, <2>2
<1>14. Referential'
  <2>1. (\E a \in Numbers : acc'[a] \in READY_STATUSES) => "holder" \in rows'
    BY <1>1, <1>2, <1>12 DEF IInv, Referential
  <2>2. "holder" \in rows' <=> profile' # None
    BY <1>1, <1>2 DEF IInv, Referential
  <2>3. \A s \in sessions : \E w \in sessions' : Key(w) = Key(s)
    BY <1>3, <1>5
  <2>4. docs \subseteq {Key(w) : w \in sessions'}
    BY <2>3 DEF IInv, Referential
  <2>5. docs' \subseteq {Key(w) : w \in sessions'}
    BY <1>1, <1>9, <2>4
  <2> QED
    BY <1>2, <2>1, <2>2, <2>5 DEF Referential, Key
<1>15. SessionsFollowAccounts'
  <2> SUFFICES ASSUME NEW a \in Numbers, acc'[a] # None, acc'[a] # "not_started"
               PROVE  \E w \in sessions' :
                        w.acct = a /\ (acc'[a] \in READY_STATUSES => w.status # "draft")
    BY DEF SessionsFollowAccounts, Existing
  <2>1. CASE acc'[a] = acc[a]
    <3>1. PICK s \in sessions : s.acct = a /\ (acc[a] \in READY_STATUSES => s.status # "draft")
      BY <2>1 DEF IInv, SessionsFollowAccounts, Existing
    <3> QED
      BY <1>3, <1>5, <2>1, <3>1
  <2>2. CASE acc'[a] # acc[a] /\ acc'[a] \in READY_STATUSES
    <3>1. a = t.acct /\ t.st \in READY_STATUSES
      BY <1>12, <2>2
    <3> QED
      BY <1>2, <1>3, <3>1
  <2>3. CASE acc'[a] # acc[a] /\ acc'[a] \notin READY_STATUSES
    <3>1. a = t.acct /\ t.op \notin {"status", "consent"}
      BY <1>2, <1>4, <2>3
    <3>2. PICK s \in VisibleSessions(r) : s.acct = a
      BY <1>2, <3>1 DEF SessionKnown, t
    <3> QED
      BY <1>3, <2>3, <3>2
  <2> QED
    BY <2>1, <2>2, <2>3
<1>16. Fresh'
  <2>1. t.acct < seq /\ seq \in Nat /\ 0 < seq
    BY <1>5 DEF IInv, Fresh, TypeOK, t
  <2>2. \A a \in Numbers : a >= seq => acc'[a] = None
    BY <1>4, <1>6, <2>1 DEF IInv, Fresh, Numbers
  <2>3. ASSUME NEW s \in Requests \ {r}, tx[s].new
        PROVE  acc'[tx[s].acct] = None
    <3>1. Running(s) /\ AccountInv(s) /\ tx[s].acct \in 0..MaxNumber
      <4>1. Running(s)
        BY <2>3 DEF IInv, Resting
      <4> QED
        BY <4>1 DEF IInv, RequestInv, TypeOK, Request
    <3>2. tx[s].acct # 0 /\ acc[tx[s].acct] = None
      BY <2>3, <3>1 DEF AccountInv, IInv, Fresh
    <3>3. tx[s].acct \in Numbers
      BY <3>1, <3>2, OnboardingConstants DEF Numbers
    <3>4. tx[s].acct # t.acct
      <4>1. SUFFICES ASSUME tx[s].acct = t.acct PROVE FALSE
        OBVIOUS
      <4>2. t.new
        BY <1>5, <3>2, <4>1 DEF AccountInv, t
      <4> QED
        BY <2>3, <4>1, <4>2 DEF IInv, Fresh, t
    <3> QED
      BY <1>4, <3>2, <3>3, <3>4
  <2>4. seq' = seq
    BY <1>1
  <2> QED
    BY <1>8, <2>1, <2>2, <2>3, <2>4 DEF IInv, Fresh
<1> QED
  BY <1>8, <1>10, <1>11, <1>13, <1>14, <1>15, <1>16 DEF IInv

(***************************************************************************)
(* The state a subject may start with.                                     *)
(***************************************************************************)
LEMMA InitIInv ==
  ASSUME Init
  PROVE  IInv
<1>1. PICK past \in Pasts :
        LET had(st) == \E a \in DOMAIN past : past[a] = st
            left == {[acct |-> a, at |-> 0, status |-> LeftSession(past[a])] : a \in DOMAIN past}
        IN
        /\ acc = [a \in Numbers |-> IF a \in DOMAIN past THEN past[a] ELSE None]
        /\ rows \in {(IF past # <<>> THEN {"user"} ELSE u)
                       \cup (IF had("completed") \/ had("skipped") THEN {"holder", "TOS"} ELSE {})
                       \cup (IF had("skipped") THEN {"DD_SKIP"} ELSE {}) : u \in {{}, {"user"}}}
        /\ profile = IF had("completed") THEN "full" ELSE IF had("skipped") THEN "basic" ELSE None
        /\ sessions \in {left, {s \in left : past[s.acct] # "not_started"}}
        /\ docs = {}
        /\ seq = Len(past) + 1
        /\ clock = 1
        /\ tx = [r \in Requests |-> Blank]
  BY DEF Init
<1> DEFINE had(st) == \E a \in DOMAIN past : past[a] = st
           left == {[acct |-> a, at |-> 0, status |-> LeftSession(past[a])] : a \in DOMAIN past}
<1>2. /\ past \in Seq(Statuses) /\ Len(past) \in Nat /\ Len(past) <= MaxNumber /\ MaxNumber \in Nat
      /\ DOMAIN past = 1..Len(past) /\ DOMAIN past \subseteq Numbers
      /\ \A a \in DOMAIN past : past[a] \in Statuses
  BY OnboardingConstants DEF Numbers
<1>3. /\ acc = [a \in Numbers |-> IF a \in DOMAIN past THEN past[a] ELSE None]
      /\ sessions \subseteq left /\ \A s \in left : past[s.acct] # "not_started" => s \in sessions
      /\ docs = {} /\ seq = Len(past) + 1 /\ clock = 1 /\ tx = [r \in Requests |-> Blank]
      /\ profile = IF had("completed") THEN "full" ELSE IF had("skipped") THEN "basic" ELSE None
  BY <1>1
<1>4. /\ had("completed") \/ had("skipped") => {"holder", "TOS"} \subseteq rows
      /\ "holder" \in rows => had("completed") \/ had("skipped")
      /\ had("skipped") => "DD_SKIP" \in rows
      /\ past # <<>> => "user" \in rows
      /\ rows # {} => past # <<>> \/ "user" \in rows
      /\ rows \subseteq Rows
  BY <1>1 DEF Rows, Policies
<1> HIDE DEF had
<1>5. \A a \in Numbers : acc[a] # None => a \in DOMAIN past /\ acc[a] = past[a]
  BY <1>3
<1>6. TypeOK
  <2>1. profile \in {None, "basic", "full"}
    BY <1>3
  <2>2. acc \in [Numbers -> Statuses \cup {None}]
    BY <1>2, <1>3
  <2>3. sessions \subseteq Session
    <3>1. \A st : LeftSession(st) \in {"draft", "skipped", "approved_demo"}
      BY DEF LeftSession
    <3> QED
      BY <1>2, <1>3, <3>1 DEF Session
  <2>4. seq \in 1..(MaxNumber + 1) /\ clock \in Nat
    BY <1>2, <1>3
  <2>5. tx \in [Requests -> Request]
    BY <1>3, BlankTyped
  <2> QED
    BY <1>3, <1>4, <2>1, <2>2, <2>3, <2>4, <2>5 DEF TypeOK
<1>7. \A r \in Requests : tx[r] = Blank
  BY <1>3
<1>8. Blank.acct = 0 /\ Blank.new = FALSE /\ Blank.res = "idle"
  BY DEF Blank
<1>9. Resting /\ \A r \in Requests : Running(r) => RequestInv(r)
  BY <1>7, <1>8 DEF Resting, Running
<1>10. Fresh
  <2>1. \A a \in Numbers : a >= seq => acc[a] = None
    BY <1>2, <1>3 DEF Numbers
  <2>2. 0 < seq
    BY <1>2, <1>3
  <2> QED
    BY <1>7, <1>8, <2>1, <2>2 DEF Fresh
<1>11. InTime
  BY <1>3 DEF InTime
<1>12. \A a \in Numbers : /\ acc[a] \in READY_STATUSES => had("completed") \/ had("skipped")
                          /\ acc[a] = "skipped" => had("skipped")
  <2>1. None \notin READY_STATUSES /\ "skipped" # None
    BY DEF READY_STATUSES, None
  <2> QED
    BY <1>5, <2>1 DEF READY_STATUSES, had
<1>13. ReadyHasConsents
  BY <1>4, <1>12 DEF ReadyHasConsents
<1>14. Referential
  <2>1. Existing # {} => past # <<>>
    BY <1>2, <1>5 DEF Existing
  <2>2. "holder" \in rows <=> profile # None
    <3>1. "full" # None /\ "basic" # None
      BY DEF None
    <3> QED
      BY <1>3, <1>4, <3>1
  <2> QED
    BY <1>3, <1>4, <1>12, <2>1, <2>2 DEF Referential
<1>15. SessionsFollowAccounts
  <2> SUFFICES ASSUME NEW a \in Existing, acc[a] # "not_started"
               PROVE  \E s \in sessions : s.acct = a /\ (acc[a] \in READY_STATUSES => s.status # "draft")
    BY DEF SessionsFollowAccounts
  <2> DEFINE s == [acct |-> a, at |-> 0, status |-> LeftSession(past[a])]
  <2>1. a \in DOMAIN past /\ acc[a] = past[a] /\ s \in sessions
    BY <1>3, <1>5 DEF Existing
  <2>2. acc[a] \in READY_STATUSES => LeftSession(past[a]) # "draft"
    BY <2>1 DEF LeftSession, READY_STATUSES
  <2> QED
    BY <2>1, <2>2
<1> QED
  BY <1>6, <1>9, <1>10, <1>11, <1>13, <1>14, <1>15 DEF IInv

(***************************************************************************)
(* Every step preserves the invariant.                                     *)
(***************************************************************************)
LEMMA StepIInv ==
  ASSUME IInv, [Next]_vars
  PROVE  IInv'
<1>1. ASSUME NEW r \in Requests, Step(r) PROVE IInv'
  <2>1. CASE SelectRow(r)
    BY <2>1, SelectRowStep
  <2>2. CASE InsertRow(r)
    <3>1. CASE Rollback(r)
      BY <3>1, RollbackStep
    <3>2. CASE /\ tx' = [tx EXCEPT ![r].ins = @ \cup {Head(tx[r].todo)[2]}, ![r].todo = Rest(r)]
               /\ Stay
      BY <2>2, <3>2, WriteStep DEF InsertRow, Stay
    <3> QED
      BY <2>2, <3>1, <3>2 DEF InsertRow
  <2>3. CASE UseAccount(r)
    BY <2>3, UseAccountStep
  <2>4. CASE RefuseAccount(r)
    BY <2>4, RollbackStep DEF RefuseAccount
  <2>5. CASE NoAccountYet(r)
    BY <2>5, NoAccountYetStep
  <2>6. CASE CreateDraft(r)
    BY <2>6, CreateDraftStep
  <2>7. CASE CheckLimit(r)
    <3>1. CASE Rollback(r)
      BY <3>1, RollbackStep
    <3>2. CASE MayOpen /\ tx' = [tx EXCEPT ![r].todo = Rest(r)] /\ Stay
      BY <2>7, <3>2, CheckLimitStep DEF CheckLimit, Stay
    <3> QED
      BY <2>7, <3>1, <3>2 DEF CheckLimit
  <2>8. CASE EnsureSession(r)
    BY <2>8, EnsureSessionStep
  <2>9. CASE Valid(r)
    BY <2>9, ValidStep
  <2>10. CASE Invalid(r)
    BY <2>10, RollbackStep DEF Invalid
  <2>11. CASE PeekHolder(r)
    BY <2>11, PeekHolderStep
  <2>12. CASE UpsertHolder(r)
    BY <2>12, UpsertHolderStep
  <2>13. CASE UpdateHolder(r)
    <3>1. At(r, "update") /\ UNCHANGED <<tables, seq, clock>>
      BY <2>13 DEF UpdateHolder, Stay
    <3>2. TodoInv(r)
      BY <3>1, AtInv
    <3>3. Head(tx[r].todo)[2] = "holder"
      BY <3>1, <3>2, AtFacts, MenuShape
    <3>4. tx' = [tx EXCEPT ![r].ins = @ \cup {Head(tx[r].todo)[2]}, ![r].todo = Rest(r)]
      BY <2>13, <3>3 DEF UpdateHolder
    <3> QED
      BY <3>1, <3>4, WriteStep
  <2>14. CASE LockForGrant(r)
    BY <2>14, LockForGrantStep
  <2>15. CASE Finish(r)
    BY <2>15, FinishStep
  <2>16. CASE Commit(r)
    BY <2>16, CommitStep
  <2> QED
    BY <1>1, <2>1, <2>2, <2>3, <2>4, <2>5, <2>6, <2>7, <2>8, <2>9, <2>10, <2>11, <2>12, <2>13,
       <2>14, <2>15, <2>16 DEF Step
<1>2. ASSUME NEW r \in Requests, Begin(r) \/ Crash(r) \/ DeadlockVictim(r) PROVE IInv'
  BY <1>2, BeginStep, RollbackStep DEF Crash, DeadlockVictim
<1>3. CASE UNCHANGED vars
  <2>1. \A r \in Requests : RequestInv(r)' <=> RequestInv(r)
    BY <1>3 DEF vars, tables, RequestInv, TodoInv, RowsInv, Secured, AccountInv, SessionKnown,
                VisibleSessions, EndInv, Key
  <2> QED
    BY <1>3, <2>1 DEF IInv, TypeOK, Resting, Fresh, InTime, ReadyHasConsents, Referential,
                      SessionsFollowAccounts, Existing, Running, vars, tables, Key
<1> QED
  BY <1>1, <1>2, <1>3 DEF Next

-----------------------------------------------------------------------------
(***************************************************************************)
(* A request that has written row k and waits for row q writes in the      *)
(* handlers' common order, so q comes after k in it.                       *)
(***************************************************************************)
RowRank(k) ==
  CASE k = "user" -> 1 [] k = "DD_SKIP" -> 2 [] k = "DD" -> 3 [] k = "TOS" -> 4 [] OTHER -> 5

(***************************************************************************)
(* One order of rows agrees with the stages of all handlers.               *)
(***************************************************************************)
LEMMA RanksFollowStages ==
  ASSUME NEW op, NEW k \in Rows, NEW q \in Rows, RowStage(op, k) < RowStage(op, q)
  PROVE  RowRank(k) < RowRank(q)
  BY DEF RowRank, RowStage, Rows, Policies

(***************************************************************************)
(* Who waits for the row of the highest rank waits for no one waiting.     *)
(***************************************************************************)
LEMMA IInvNoRowCycle ==
  ASSUME IInv
  PROVE  NoRowCycle
<1> SUFFICES ASSUME NEW S \in SUBSET Requests, S # {},
                    \A r \in S : \E s \in S : WaitsForRow(r, s)
             PROVE  FALSE
  BY DEF NoRowCycle
<1> DEFINE Row(r) == Head(tx[r].todo)[2]
           G == {RowRank(Row(r)) : r \in S}
<1>1. ASSUME NEW r \in S
      PROVE  /\ Row(r) \in Rows
             /\ \A k \in tx[r].ins : RowRank(k) < RowRank(Row(r))
  <2>1. PICK step \in {"insert", "update"} : At(r, step)
    BY DEF WaitsForRow
  <2>2. TodoInv(r) /\ tx[r].ins \subseteq Rows
    BY <2>1, AtInv DEF Request
  <2> DEFINE op == tx[r].op
             h == Head(tx[r].todo)
  <2>3. op \in AllOps /\ h \in Menu(op) /\ h[1] = step /\ h \in Left(tx[r].todo)
    BY <2>1, <2>2, AtFacts
  <2>4. h[2] \in Rows /\ h[2] # None
    BY <2>3, MenuShape DEF Rows, Policies, None
  <2>5. Stage(op, h) = RowStage(op, h[2])
    BY <2>4 DEF Stage
  <2>6. \A k \in tx[r].ins : RowStage(op, k) < RowStage(op, h[2])
    BY <2>2, <2>3, <2>5 DEF TodoInv
  <2> QED
    BY <2>2, <2>4, <2>6, RanksFollowStages
<1>2. \A k : RowRank(k) \in Nat /\ RowRank(k) <= 5
  BY DEF RowRank
<1>3. G \subseteq Nat /\ G # {} /\ \A g \in G : g <= 5
  BY <1>2
<1>4. IsFiniteSet(G)
  <2> HIDE DEF G
  <2> QED
    BY <1>3, FS_BoundedSetOfNaturals
<1>5. PICK m \in G : \A g \in G : g <= m
  <2> HIDE DEF G
  <2> QED
    BY <1>3, <1>4, Greatest
<1>6. PICK r \in S : m = RowRank(Row(r))
  BY <1>5
<1>7. PICK s \in S : WaitsForRow(r, s)
  OBVIOUS
<1>8. Row(r) \in tx[s].ins
  BY <1>7 DEF WaitsForRow, Pending
<1>9. RowRank(Row(r)) < RowRank(Row(s)) /\ RowRank(Row(s)) \in G
  BY <1>1, <1>8
<1>10. RowRank(Row(r)) \in Nat /\ RowRank(Row(s)) \in Nat
  BY <1>2
<1> HIDE DEF G, Row
<1>11. RowRank(Row(s)) <= RowRank(Row(r))
  BY <1>5, <1>6, <1>9
<1> QED
  BY <1>9, <1>10, <1>11

(***************************************************************************)
(* A commit that takes an account out of a ready status is a start's, or a *)
(* document's that loaded not_started.                                     *)
(***************************************************************************)
LEMMA StepReopens ==
  ASSUME IInv, Next, NEW a \in Numbers, acc[a] \in READY_STATUSES, acc'[a] \notin READY_STATUSES
  PROVE  \E r \in Requests : Reopens(r) /\ tx[r].acct = a /\ tx'[r].res = "done"
<1>1. acc' # acc
  OBVIOUS
<1>2. PICK r \in Requests : Begin(r) \/ Step(r) \/ Crash(r) \/ DeadlockVictim(r)
  BY DEF Next
<1>3. Commit(r)
  BY <1>1, <1>2 DEF Begin, Step, Crash, DeadlockVictim, Rollback, Stay, tables, SelectRow, InsertRow,
       UseAccount, RefuseAccount, NoAccountYet, CreateDraft, CheckLimit, EnsureSession, Valid, Invalid,
       PeekHolder, UpsertHolder, UpdateHolder, LockForGrant, Finish
<1> DEFINE t == tx[r]
<1>4. Running(r) /\ t.todo = <<>>
  BY <1>3 DEF Commit
<1>5. /\ t.st # None => t.op \in OnboardingOps /\ t.st = NewStatus(t.op)
      /\ t.st # None /\ t.op = "document" => t.seen = "not_started"
  BY <1>4, CommitFacts
<1>6. /\ a = t.acct
      /\ \/ t.st # None /\ acc'[a] = t.st
         \/ t.st = None /\ t.new = TRUE /\ acc'[a] = "in_progress"
  <2>1. acc'[a] # acc[a]
    OBVIOUS
  <2> QED
    BY <1>3, <2>1, CommitAccounts
<1>7. t.new # TRUE
  <2>1. t.new => acc[t.acct] = None
    BY DEF IInv, Fresh
  <2>2. None \notin READY_STATUSES
    BY DEF None, READY_STATUSES
  <2> QED
    BY <1>6, <2>1, <2>2
<1>8. Reopens(r)
  <2>1. t.op \in OnboardingOps \ OpenOps /\ (t.op = "document" => t.seen = "not_started")
    BY <1>5, <1>6, <1>7 DEF NewStatus, READY_STATUSES, OpenOps
  <2> QED
    BY <2>1 DEF Reopens, OnboardingOps
<1>9. tx'[r].res = "done"
  <2>1. tx' = [tx EXCEPT ![r] = [Blank EXCEPT !.res = "done", !.op = t.op]] /\ tx \in [Requests -> Request]
    BY <1>3 DEF Commit, IInv, TypeOK
  <2>2. tx'[r] = [Blank EXCEPT !.res = "done", !.op = t.op]
    BY <2>1
  <2> QED
    BY <2>2 DEF Blank
<1> QED
  BY <1>6, <1>8, <1>9

-----------------------------------------------------------------------------
(***************************************************************************)
(* IInv is an invariant of the onboarding handlers.                        *)
(***************************************************************************)
THEOREM Inductive == Spec => []IInv
<1>1. Init => IInv
  BY InitIInv
<1>2. IInv /\ [Next]_vars => IInv'
  BY StepIInv
<1> QED
  BY <1>1, <1>2, PTL DEF Spec

(***************************************************************************)
(* Type correctness.                                                       *)
(***************************************************************************)
THEOREM TypeCorrect == Spec => []TypeOK
<1>1. IInv => TypeOK
  BY DEF IInv
<1> QED
  BY <1>1, Inductive, PTL

(***************************************************************************)
(* No account becomes ready without the subject's consents on record,      *)
(* whichever handlers ran at the same time and whichever were rolled back. *)
(***************************************************************************)
THEOREM ConsentsRecorded == Spec => []ReadyHasConsents
<1>1. IInv => ReadyHasConsents
  BY DEF IInv
<1> QED
  BY <1>1, Inductive, PTL

(***************************************************************************)
(* No row refers to one that is missing.                                   *)
(***************************************************************************)
THEOREM ReferencesHold == Spec => []Referential
<1>1. IInv => Referential
  BY DEF IInv
<1> QED
  BY <1>1, Inductive, PTL

(***************************************************************************)
(* Any number of requests: the rows of the subject cause no deadlock.      *)
(***************************************************************************)
THEOREM RowsNeverDeadlock == Spec => []NoRowCycle
<1>1. IInv => NoRowCycle
  BY IInvNoRowCycle
<1> QED
  BY <1>1, Inductive, PTL

(***************************************************************************)
(* Every account that was started has a session and every ready one a      *)
(* finished session.                                                       *)
(***************************************************************************)
THEOREM SessionsFollow == Spec => []SessionsFollowAccounts
<1>1. IInv => SessionsFollowAccounts
  BY DEF IInv
<1> QED
  BY <1>1, Inductive, PTL

(***************************************************************************)
(* Nothing but a committed start, or a document that had loaded            *)
(* not_started, takes an account out of a ready status.                    *)
(***************************************************************************)
THEOREM NothingElseReopens == Spec => OnlyStartReopensUnlessNotStarted
<1>1. IInv /\ [Next]_vars =>
        [\A a \in Numbers :
           acc[a] \in READY_STATUSES /\ acc'[a] \notin READY_STATUSES =>
             \E r \in Requests : Reopens(r) /\ tx[r].acct = a /\ tx'[r].res = "done"]_vars
  BY StepReopens
<1> QED
  BY <1>1, Inductive, PTL DEF Spec, OnlyStartReopensUnlessNotStarted

=============================================================================
