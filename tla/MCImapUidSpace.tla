-------------------------- MODULE MCImapUidSpace --------------------------
(* Two sessions of one user and two messages.                              *)
EXTENDS ImapUidSpace

CONSTANTS s1, s2

MCSessions == {s1, s2}
TwoMessages == {1, 2}

\* The folder starts with the first message; the other one may arrive.
MCInit == Init /\ members = {1}

OneArrives ==
  MCInit /\ [][Next]_vars /\ \A s \in Sessions : WF_vars(SessionStep(s))

============================================================================
