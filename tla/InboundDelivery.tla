---------------------------- MODULE InboundDelivery ----------------------------
(***************************************************************************)
(* One delivery after another to a mailbox: apps/worker/src/mail/receive.ts*)
(* handleInbound once a mailbox has been chosen (module Addresses), and    *)
(* the decisions of ingest.ts.  Mails overlap; an error thrown on the way  *)
(* fails the attempt and the sending server, which is not part of the      *)
(* repository, tries again.                                                *)
(*                                                                         *)
(* All the mails belong to one conversation.                               *)
(***************************************************************************)
EXTENDS Naturals, FiniteSets, TLC

CONSTANTS
    Mails,       \* mails on their way
    Facts,       \* what a mail may be like
    MaxFailures, \* bound: attempts that fail, of each mail
    MaxBlocks    \* bound: times an administrator blocks or unblocks the sender

\* Nothing refuses as spam where the evaluation is off.
ASSUME FactsAssumption ==
    \A f \in Facts : /\ f.rules \subseteq {"markSpam", "markRead", "reject"}
                     /\ f.spam = "off" => ~f.listed
ASSUME DeliveryBoundsAssumption == MaxFailures \in Nat /\ MaxBlocks \in Nat

\* A fact: from, by the envelope and by the header; spam, the verdict or "off"; listed,
\* whether the evaluation refuses it; auth; joins, how it finds its thread; rules, what
\* the matching rules do.
VARIABLES
    fact,      \* mail -> what it is like
    blocked,   \* senders on the blocklist
    blocks,    \* changes of the blocklist so far
    conversation,    \* [count, spam]
    progress,  \* mail -> where its delivery is, and what it has read
    deferred,  \* work handed to waitUntil: <<mail, what>>
    chronicle  \* history, see Untouched

deliveryVars == <<fact, blocked, blocks, conversation, progress, deferred, chronicle>>

NotYet == [pc |-> "sender", new |-> FALSE]

\* copies, failures: so far.  late: attempts that failed after the mail was stored.
\* known: the conversation had mail when the attempt began.  outcast: the senders that
\* have been on the blocklist since before.  effects: deferred work that was done.
\* wrongs: what must not happen and did.
Untouched == [copies |-> 0, failures |-> 0, late |-> 0, known |-> FALSE, outcast |-> {},
              effects |-> {}, wrongs |-> {}]

DeliveryInit ==
    /\ fact \in [Mails -> Facts]
    /\ blocked = {} /\ blocks = 0
    /\ conversation = [count |-> 0, spam |-> FALSE]
    /\ progress = [m \in Mails |-> NotYet]
    /\ deferred = {}
    /\ chronicle = [m \in Mails |-> Untouched]

Advance(m, pc) == progress' = [progress EXCEPT ![m].pc = pc]
Note(m, entry) == chronicle' = [chronicle EXCEPT ![m] = entry]

SendersOf(m) == {fact[m].envelope, fact[m].header}

Attempt(m) ==
    /\ progress[m].pc = "sender"
    /\ Advance(m, "envelope")
    /\ Note(m, [chronicle[m] EXCEPT !.known = conversation.count > 0,
                                    !.outcast = SendersOf(m) \cap blocked])
    /\ UNCHANGED <<fact, blocked, blocks, conversation, deferred>>

Refuse(m) == Advance(m, "refused")

\* "Checked on the envelope sender first (before the body is read), then on the header From
\* after parse so a spoofed From can't hide behind a clean envelope."
CheckEnvelope(m) ==
    /\ progress[m].pc = "envelope"
    /\ IF fact[m].envelope \in blocked THEN Refuse(m) ELSE Advance(m, "header")
    /\ UNCHANGED <<fact, blocked, blocks, conversation, deferred, chronicle>>

\* Mutant of CheckHeader: the header's sender is not looked up.
CheckNoHeader(m) ==
    /\ progress[m].pc = "header" /\ Advance(m, "evaluate")
    /\ UNCHANGED <<fact, blocked, blocks, conversation, deferred, chronicle>>
CheckHeader(m) ==
    /\ progress[m].pc = "header"
    /\ IF fact[m].header \in blocked THEN Refuse(m) ELSE Advance(m, "evaluate")
    /\ UNCHANGED <<fact, blocked, blocks, conversation, deferred, chronicle>>

\* PGP, the spam evaluation and the rules only read.
Evaluate(m) ==
    /\ progress[m].pc = "evaluate"
    /\ IF (fact[m].spam # "off" /\ fact[m].listed) \/ "reject" \in fact[m].rules
       THEN Refuse(m) ELSE Advance(m, "look")
    /\ UNCHANGED <<fact, blocked, blocks, conversation, deferred, chronicle>>

\* resolveThreadId has found the thread or made one: new is one without mail.
Look(m) ==
    /\ progress[m].pc = "look"
    /\ progress' = [progress EXCEPT ![m] = [pc |-> "insert", new |-> conversation.count = 0]]
    /\ UNCHANGED <<fact, blocked, blocks, conversation, deferred, chronicle>>

InsertMessage(m) ==
    /\ progress[m].pc = "insert"
    /\ Advance(m, "file")
    /\ Note(m, [chronicle[m] EXCEPT !.copies = @ + 1,
                     !.wrongs = IF chronicle[m].outcast # {} THEN @ \cup {"outcast"} ELSE @])
    /\ UNCHANGED <<fact, blocked, blocks, conversation, deferred>>

\* "never yank an existing legitimate conversation into the spam folder over a single
\* message. The one exception is a header-based join of unauthenticated mail"
FilesSpam(m) ==
    \/ "markSpam" \in fact[m].rules
    \/ /\ fact[m].spam = "spam"
       /\ progress[m].new \/ (fact[m].joins = "header" /\ ~fact[m].auth)

File(m) ==
    /\ progress[m].pc = "file"
    /\ conversation' = [conversation EXCEPT !.spam = @ \/ FilesSpam(m)]
    /\ Advance(m, "bump")
    /\ IF FilesSpam(m) /\ chronicle[m].known /\ ~("markSpam" \in fact[m].rules)
          /\ (fact[m].auth \/ fact[m].joins # "header")
       THEN Note(m, [chronicle[m] EXCEPT !.wrongs = @ \cup {"yanked"}]) ELSE UNCHANGED chronicle
    /\ UNCHANGED <<fact, blocked, blocks, deferred>>

Bump(m) ==
    /\ progress[m].pc = "bump"
    /\ conversation' = [conversation EXCEPT !.count = @ + 1]
    /\ Advance(m, "act")
    /\ UNCHANGED <<fact, blocked, blocks, deferred, chronicle>>

\* applyRuleActions is behind: what cancels the reminders of the thread and the sends of
\* the rules are put off.
Act(m) ==
    /\ progress[m].pc = "act"
    /\ deferred' = deferred \cup {<<m, "answers">>}
    /\ Advance(m, "members")
    /\ UNCHANGED <<fact, blocked, blocks, conversation, chronicle>>

\* "Don't push-notify mail filed straight into Spam, nor mail a rule already auto-read or
\* auto-filed to spam on the user's behalf."
WantsNotice(m) == fact[m].spam # "spam" /\ fact[m].rules \cap {"markSpam", "markRead"} = {}
WantsInsights(m) == fact[m].spam # "spam" /\ "markSpam" \notin fact[m].rules

\* The insights and then the push are one piece of work.
Members(m) ==
    /\ progress[m].pc = "members"
    /\ deferred' = deferred \cup (IF WantsNotice(m) \/ WantsInsights(m) THEN {<<m, "push">>} ELSE {})
    /\ Advance(m, "accepted")
    /\ UNCHANGED <<fact, blocked, blocks, conversation, chronicle>>

\* A statement, the parser or an unwrapped key throws: "sender" is what it comes back to.
Throws(m) ==
    /\ progress[m].pc \notin {"sender", "refused", "accepted"}
    /\ chronicle[m].failures < MaxFailures
    /\ Advance(m, "sender")
    /\ Note(m, [chronicle[m] EXCEPT !.failures = @ + 1,
           !.late = IF progress[m].pc \in {"file", "bump", "act", "members"} THEN @ + 1 ELSE @])
    /\ UNCHANGED <<fact, blocked, blocks, conversation, deferred>>

\* defer swallows what its work throws, and waitUntil may be cut off: it need not run.
RunDeferred(w) ==
    /\ w \in deferred
    /\ deferred' = deferred \ {w}
    /\ IF w[2] = "push" /\ ~WantsNotice(w[1]) THEN UNCHANGED chronicle
       ELSE Note(w[1], [chronicle[w[1]] EXCEPT !.effects = @ \cup {w[2]}])
    /\ UNCHANGED <<fact, blocked, blocks, conversation, progress>>

\* api/admin-block.ts
ChangeBlocklist(sender) ==
    /\ blocks < MaxBlocks /\ blocks' = blocks + 1
    /\ blocked' = IF sender \in blocked THEN blocked \ {sender} ELSE blocked \cup {sender}
    /\ chronicle' = [m \in Mails |-> [chronicle[m] EXCEPT !.outcast = @ \ {sender}]]
    /\ UNCHANGED <<fact, conversation, progress, deferred>>

DeliveryNext ==
    \/ \E m \in Mails :
        \/ Attempt(m) \/ CheckEnvelope(m) \/ CheckHeader(m) \/ Evaluate(m)
        \/ Look(m) \/ InsertMessage(m) \/ File(m) \/ Bump(m)
        \/ Act(m) \/ Members(m) \/ Throws(m)
        \/ \E sender \in SendersOf(m) : ChangeBlocklist(sender)
    \/ \E w \in deferred : RunDeferred(w)

DeliverySpec == DeliveryInit /\ [][DeliveryNext]_deliveryVars

----------------------------------------------------------------------------
\* receive.ts: an accepted mail is stored once, a refused one is not, but for the copies
\* of attempts that failed with the mail already stored.
AcceptedIsStored ==
    \A m \in Mails : progress[m].pc \in {"accepted", "refused", "sender"} =>
        chronicle[m].copies = chronicle[m].late + (IF progress[m].pc = "accepted" THEN 1 ELSE 0)

\* receive.ts, ingest.ts: a sender on the blocklist since before the attempt is not stored,
\* by whichever of its addresses; a conversation that had mail is not taken to the spam
\* folder by one message, but by a rule or by a join that anyone could forge.
NothingWrong == \A m \in Mails : chronicle[m].wrongs = {}

\* receive.ts: what is done about a mail is done about a stored one, and nobody is called
\* for mail that is spam, or that a rule has read or filed for them.
CalledForMail ==
    \A m \in Mails :
        /\ chronicle[m].effects # {} => chronicle[m].copies > 0
        /\ "push" \in chronicle[m].effects =>
              fact[m].spam # "spam" /\ fact[m].rules = {} /\ ~fact[m].listed

Delivered == AcceptedIsStored /\ NothingWrong /\ CalledForMail
=============================================================================
