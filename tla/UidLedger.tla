----------------------------- MODULE UidLedger -----------------------------
(***************************************************************************)
(* What a UID space promises (RFC 3501): a message carries at most one UID *)
(* at a time, and a UID that was ever handed out is never handed out       *)
(* again, neither to another message nor to the same one.                  *)
(***************************************************************************)
EXTENDS Naturals

CONSTANT Messages

VARIABLES
  uid,   \* the UID each message carries, 0 for none
  used   \* every UID handed out so far

Init ==
  /\ uid = [m \in Messages |-> 0]
  /\ used = {}

\* Some messages without a UID get UIDs nobody had, all different.
Assign(S) ==
  /\ \A m \in S : uid[m] = 0 /\ uid'[m] \in Nat \ (used \union {0})
  /\ \A m, n \in S : uid'[m] = uid'[n] => m = n
  /\ uid' = [m \in Messages |-> IF m \in S THEN uid'[m] ELSE uid[m]]
  /\ used' = used \union {uid'[m] : m \in S}

\* Some messages lose theirs.
Drop(S) ==
  /\ uid' = [m \in Messages |-> IF m \in S THEN 0 ELSE uid[m]]
  /\ UNCHANGED used

Next == \E S \in SUBSET Messages : Assign(S) \/ Drop(S)

Spec == Init /\ [][Next]_<<uid, used>>
============================================================================
