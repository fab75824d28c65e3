------------------------------ MODULE MCPeople ------------------------------
(***************************************************************************)
(* Users, members, their keys and the senders they block, each on its own  *)
(* instance.  They share no state here: a behaviour is that of the one part*)
(* it begins with.                                                         *)
(***************************************************************************)
EXTENDS Accounts, MailboxAccess, Blocking, TLC

VARIABLE part

Symmetry == Permutations(Handlers) \cup Permutations(Emails)

OneDomain == [s |-> "d"]

MCInit ==
    /\ part \in {"accounts", "sharing", "keys", "blocking"}
    /\ AccountsInit /\ AccessInit /\ BlockingInit
    /\ mailbox.owner = CHOOSE p \in People : TRUE   \* people are alike
    /\ part # "sharing" => invited = <<>>   \* only sharing reads the invitations

MCNext ==
    /\ UNCHANGED part
    /\ \/ /\ part = "accounts" /\ AccountsNext
          /\ UNCHANGED <<accessVars, blockVars>>
       \/ /\ part = "sharing" /\ SharingNext
          /\ UNCHANGED <<accountVars, blockVars>>
       \/ /\ part = "keys" /\ KeysNext
          /\ UNCHANGED <<accountVars, blockVars>>
       \/ /\ part = "blocking" /\ BlockingNext
          /\ UNCHANGED <<accountVars, accessVars>>

MCVars == <<part, accountVars, accessVars, blockVars>>

MCSpec == MCInit /\ [][MCNext]_MCVars
=============================================================================
