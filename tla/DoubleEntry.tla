---------------------------- MODULE DoubleEntry ----------------------------
(***************************************************************************)
(* What the ledger of the bank promises (app/services/ledger.py, "Append-  *)
(* only double-entry ledger."): a set of journal entries that only grows,  *)
(* at most one entry per idempotency key, every entry moving a positive    *)
(* amount from one ledger account to another in a single step.  Ledger.tla *)
(* shows how concurrent database transactions implement it.                *)
(***************************************************************************)
EXTENDS Integers

CONSTANTS LedgerAccounts,  \* customer accounts and sys_cash
          EntryKeys        \* values of journal_entries.idempotency_key

VARIABLES entries,  \* the committed journal_entries
          net       \* per ledger account, credits - debits of ledger_postings

(***************************************************************************)
(* What an entry adds to the net of ledger account x.                      *)
(***************************************************************************)
Delta(e, x) ==
  (IF e.credit = x THEN e.amount ELSE 0) - (IF e.debit = x THEN e.amount ELSE 0)

Init ==
  /\ net \in [LedgerAccounts -> Int]
  /\ \A e, f \in entries : e.key = f.key => e = f

(***************************************************************************)
(* One journal entry and its postings appear together, under a fresh key.  *)
(***************************************************************************)
Post ==
  \E e \in entries' :
    /\ \A f \in entries : f.key # e.key
    /\ e.key \in EntryKeys
    /\ e.amount > 0
    /\ e.debit \in LedgerAccounts /\ e.credit \in LedgerAccounts
    /\ e.debit # e.credit
    /\ entries' = entries \cup {e}
    /\ net' = [x \in LedgerAccounts |-> net[x] + Delta(e, x)]

Spec == Init /\ [][Post]_<<entries, net>>
=============================================================================
