-------------------------- MODULE MCThreadCounters --------------------------
(***************************************************************************)
(* What is stored: the counters of a thread, the deliveries to a           *)
(* conversation, the rows that hang from each other and what users make of *)
(* them, each on its own instance.  They share no state here: a behaviour  *)
(* is that of the one part it begins with.                                 *)
(***************************************************************************)
EXTENDS ThreadCounters, InboundDelivery, Organizing

Row(table, columns) == [table |-> table] @@ columns
Ided(table, id, columns) == [table |-> table, id |-> id] @@ columns
Box(id, owner, dom, name, purge) ==
    Ided("mailbox", id, [domainId |-> dom, localPart |-> name, ownerUserId |-> owner, pendingPurge |-> purge])
Seat(m, u, perms) == Row("mailboxMember", [mailboxId |-> m, userId |-> u, perms |-> perms])
Message(id, m, th) == Ided("message", id, [mailboxId |-> m, threadId |-> th])
Thread(id, m) == Ided("thread", id, [mailboxId |-> m, hidden |-> FALSE])
Folder(id, u) == Ided("folder", id, [userId |-> u, name |-> "a"])

Deployment == {
    Ided("user", "u1", [email |-> "e1"]), Ided("user", "u2", [email |-> "e2"]),
    Ided("domain", "d", [name |-> "d"]),
    Row("session", [userId |-> "u2", token |-> "t"]), Row("account", [userId |-> "u2"]),
    Row("twoFactor", [userId |-> "u1"]), Row("passkey", [userId |-> "u2"]),
    Row("userInvite", [invitedByUserId |-> "u1", token |-> "t", email |-> "e3"]),
    Row("domainGrant", [domainId |-> "d", userId |-> "u2"]),
    Box("m1", "u1", "d", "a", "no"), Box("m2", "u2", "d", "a", "delete"),
    Row("redirect", [domainId |-> "d", localPart |-> "b", targetMailboxId |-> "m1"]),
    Seat("m1", "u2", {"read"}), Row("contactKey", [mailboxId |-> "m2", email |-> "e3"]),
    Thread("t1", "m1"), Thread("t2", "m2"), Message("x1", "m1", "t1"), Message("x2", "m1", "t1"),
    Message("x3", "m2", "t2"),
    Row("attachment", [messageId |-> "x2"]), Row("threadSummary", [threadId |-> "t1"]),
    Row("mailboxSpamUsage", [mailboxId |-> "m1"]), Row("mailboxAiUsage", [mailboxId |-> "m2"]),
    Ided("label", "l1", [mailboxId |-> "m1", name |-> "a"]),
    Row("messageLabel", [messageId |-> "x1", labelId |-> "l1"]),
    Folder("f2", "u2"), Row("threadFolder", [userId |-> "u2", threadId |-> "t1", folderId |-> "f2"]),
    RuleRow("r1", "m1", "u1", "a", {"l1"}, "f2"),
    Row("ruleSendLog", [mailboxId |-> "m1", ruleId |-> "r1"]),
    Row("mailboxInvite", [mailboxId |-> "m1", email |-> "e3", invitedByUserId |-> "u1"]),
    Row("draft", [mailboxId |-> "m1", userId |-> "u2"]),
    Row("pushSubscription", [userId |-> "u2", endpoint |-> "p"]),
    Row("mailboxNotify", [mailboxId |-> "m1", userId |-> "u2"]),
    Row("blocklist", [type |-> "email", value |-> "e3", createdByUserId |-> "u1"]),
    Row("blockRequest", [messageId |-> "x3", mailboxId |-> "m2", requestedByUserId |-> "u1",
                         reviewedByUserId |-> "u2"]),
    Row("reminder", [userId |-> "u2", mailboxId |-> "m1", threadId |-> "t1", messageId |-> "x1"]),
    Row("shareToken", [mailboxId |-> "m2", createdByUserId |-> "u1"]),
    Row("appPassword", [userId |-> "u2", mailboxId |-> "m1"]),
    Ided("imapFolder", "i1", [userId |-> "u1", mailboxId |-> "m1", key |-> "inbox", folderId |-> Null]),
    Ided("imapFolder", "i2", [userId |-> "u2", mailboxId |-> "m1", key |-> "folder", folderId |-> "f2"]),
    Row("imapUid", [imapFolderId |-> "i1", uid |-> "1", messageId |-> "x1"]),
    Row("imapUid", [imapFolderId |-> "i2", uid |-> "1", messageId |-> "x2"])}

\* Two who share one mailbox, the second has one of their own beside it.
Office == {
    Ided("user", "u1", [email |-> "e1"]), Ided("user", "u2", [email |-> "e2"]),
    Ided("domain", "d", [name |-> "d"]),
    Box("m1", "u1", "d", "a", "no"), Box("m2", "u2", "d", "b", "no"),
    Seat("m1", "u2", {"read", "write"}),
    Thread("t1", "m1"), Thread("t2", "m2"), Message("x1", "m1", "t1"), Message("x2", "m2", "t2"),
    Ided("label", "l1", [mailboxId |-> "m1", name |-> "a"]),
    Ided("label", "l2", [mailboxId |-> "m2", name |-> "a"]),
    Folder("f1", "u1"), Folder("f2", "u2"), [Folder("f3", "u1") EXCEPT !.name = "b"],
    \* The labels and the folder of a rule may be anyone's.
    RuleRow("r1", "m1", "u2", "b", {"l1", "l2"}, "f2")}

MCDatabases == {{}, Deployment, Office}

------------------------------------------------------------------------------

CONSTANTS m1, m2, w1, w2

VARIABLE part

MCMessages == {m1, m2}
MCWriters == {w1, w2}
MCSymmetry == Permutations(MCMessages) \union Permutations(MCWriters)

Fact(envelope, header, spam, listed, auth, joins, actions) ==
  [envelope |-> envelope, header |-> header, spam |-> spam, listed |-> listed, auth |-> auth,
   joins |-> joins, rules |-> actions]
MailFacts ==
  {Fact("x", "y", "clean", FALSE, TRUE, "subject", {}),
   Fact("x", "x", "spam", FALSE, TRUE, "header", {}),
   Fact("z", "x", "spam", FALSE, FALSE, "header", {}),
   Fact("x", "x", "spam", TRUE, FALSE, "subject", {}),
   Fact("x", "x", "off", FALSE, FALSE, "subject", {"markSpam"}),
   Fact("x", "x", "clean", FALSE, TRUE, "header", {"markRead"}),
   Fact("x", "x", "off", FALSE, FALSE, "subject", {"reject"})}

MCInit ==
    /\ part \in {"counters", "delivery", "deletes", "organizing"}
    /\ Init /\ DeliveryInit /\ OrganizingInit
    /\ part # "delivery" => fact = [m \in Mails |-> CHOOSE f \in Facts : TRUE]
    /\ records = CASE part = "deletes" -> Deployment
                   [] part = "organizing" -> Office
                   [] OTHER -> {}

\* What is deleted beside the handlers: one row, and what hangs from it.
MeanwhileNext == deleted = {} /\ DeletesNext /\ UNCHANGED <<desks, given, work>>

MCNext ==
    /\ UNCHANGED part
    /\ \/ /\ part = "counters" /\ Next
          /\ UNCHANGED <<deliveryVars, organizingVars>>
       \/ /\ part = "delivery" /\ DeliveryNext
          /\ UNCHANGED <<vars, organizingVars>>
       \/ /\ part = "deletes" /\ DeletesNext
          /\ UNCHANGED <<vars, deliveryVars, desks, given, work>>
       \/ /\ part = "organizing" /\ (HandlersNext \/ MeanwhileNext)
          /\ UNCHANGED <<vars, deliveryVars>>

MCVars == <<part, vars, deliveryVars, organizingVars>>

MCSpec == MCInit /\ [][MCNext]_MCVars
=============================================================================
