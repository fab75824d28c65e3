---------------------------- MODULE MCMailStore ----------------------------
(***************************************************************************)
(* What becomes of stored mail: its rows and bytes, and the purge of a     *)
(* whole mailbox, each on its own instance.  A behaviour is that of the    *)
(* part it begins with.                                                    *)
(***************************************************************************)
EXTENDS MailStore, MailboxPurge

CONSTANTS th, m1, m2, m3, p1, d1, d2, t1, t2, o1, o2, n1

MCThreads == {th}
MCMessages == {m1, m2, m3}
FewMessages == {m1, m2}
MCStored == {m1, m2}

MCPurges == {p1}
MCDeletes == {d1}
TwoDeletes == {d1, d2}
NoPurges == {}

MCTicks == {t1, t2}
MCOld == {o1, o2}
MCMail == {n1}
Both == {"empty", "delete"}

VARIABLE part

MCInit == part \in {"store", "purge"} /\ Init /\ PurgeInit

MCNext ==
  /\ UNCHANGED part
  /\ \/ part = "store" /\ Next /\ UNCHANGED purgeVars
     \/ part = "purge" /\ PurgeNext /\ UNCHANGED vars

\* What MailStore and MailboxPurge take to be fair, in their part.
MCSpec ==
  /\ MCInit /\ [][MCNext]_<<part, vars, purgeVars>>
  /\ \A p \in Purges : WF_vars(part = "store" /\ Purge(p))
  /\ \A t \in Ticks : WF_purgeVars(part = "purge" /\ Drain(t))
============================================================================
