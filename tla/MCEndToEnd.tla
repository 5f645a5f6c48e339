---------------------------- MODULE MCEndToEnd ----------------------------
(***************************************************************************)
(* EndToEnd on a small instance: three users, of whom the third has not    *)
(* finished onboarding.                                                    *)
(***************************************************************************)
EXTENDS EndToEnd, TLC

CONSTANTS u1, u2, u3, h1, h2, x1

MCOwner == 1 :> u1 @@ 2 :> u2 @@ 3 :> u3
MCDocument == u1 :> "d1" @@ u2 :> "d2" @@ u3 :> "d2"

User(s) ==
  [sub |-> s, email |-> TRUE, service |-> FALSE, permissions |-> {"bank:demo"}, scope |-> {}]
Reader(s) == [User(s) EXCEPT !.permissions = {}, !.scope = {"openid"}]
Service == [sub |-> "bff", email |-> FALSE, service |-> TRUE, permissions |-> {}, scope |-> {}]
Direct == [trusted |-> FALSE, sub |-> None]
OnBehalfOf(s) == [trusted |-> TRUE, sub |-> s]

Withdraw1 ==
  [token |-> User(u1), forward |-> Direct, op |-> "withdraw", amount |-> 10, text |-> TRUE,
   dest |-> None, header |-> None, rid |-> None, stamp |-> 1, rest |-> "none"]

Transfer1 ==
  [Withdraw1 EXCEPT !.op = "transfer", !.header = h1, !.dest = [by |-> "number", account |-> 2]]

Skip3 == [Withdraw1 EXCEPT !.op = "skip", !.token = User(u3), !.amount = 0]

Withdrawals ==
  { Withdraw1,
    [Withdraw1 EXCEPT !.amount = 14, !.stamp = 2, !.rid = x1],
    [Withdraw1 EXCEPT !.text = FALSE],
    [Withdraw1 EXCEPT !.token = Reader(u1), !.amount = 0],
    [Withdraw1 EXCEPT !.token = None, !.amount = 35],
    [Withdraw1 EXCEPT !.token = Service, !.amount = 0],
    [Withdraw1 EXCEPT !.token = Service, !.forward = OnBehalfOf(None), !.amount = 5] }

Transfers ==
  { Transfer1,
    [Transfer1 EXCEPT !.amount = 15, !.rest = "memo"],
    [Transfer1 EXCEPT !.header = None],
    [Transfer1 EXCEPT !.header = h2, !.dest = [by |-> "document", document |-> "d2"]],
    [Transfer1 EXCEPT !.token = Service, !.forward = OnBehalfOf(u2),
                      !.dest = [by |-> "document", document |-> "d1"]] }

Onboardings ==
  { Skip3, [Skip3 EXCEPT !.header = h1], [Skip3 EXCEPT !.op = "start", !.header = h1] }

\* Requests are interchangeable.
Interchangeable == Permutations(Requests)

MCCalls == Withdrawals \cup Transfers \cup Onboardings
=============================================================================
