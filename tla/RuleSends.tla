------------------------------ MODULE RuleSends ------------------------------
(***************************************************************************)
(* Forwards and vacation replies of rules (apps/worker/src/mail/           *)
(* rule-sends.ts), among mailboxes of the installation that may forward to *)
(* and answer each other.                                                  *)
(*                                                                         *)
(* runRuleSends is deferred off the delivery: a run counts the hour's log  *)
(* once, then sends and logs one action after the other, and may be cut    *)
(* off or fail to log.                                                     *)
(***************************************************************************)
EXTENDS Naturals, FiniteSets, Sequences

CONSTANTS
    RuleBoxes,  \* mailboxes with rules
    Outsider,   \* an address elsewhere
    ForwardTo,  \* mailbox -> sequence of addresses its rules forward to
    Answers,    \* mailboxes with a vacation reply
    Cap,        \* MAILBOX_HOURLY_CAP
    Hour,       \* HOUR_MS in ticks
    Away,       \* AUTO_REPLY_WINDOW_MS in ticks
    Runs,       \* deferred runs at once
    LastMoment, \* bound: the clock stops here
    MaxSent     \* bound: rule sends ever made

ASSUME RuleSendsAssumption ==
    Cap \in Nat \ {0} /\ Hour \in Nat \ {0} /\ Away \in Nat /\ Outsider \notin RuleBoxes

VARIABLES
    moment,
    inbox,     \* messages delivered and not yet run through: [to, from, auto]
    runs,      \* what each run has left to do
    sendLog,   \* rule_send_log: [box, kind, to, at, n], n an id
    sent       \* history: [all: the sends, loose: mailboxes the cap may fail for]

ruleVars == <<moment, inbox, runs, sendLog, sent>>

Quiet == [pc |-> "quiet"]

RuleSendsInit ==
    /\ moment = 0 /\ inbox = {} /\ sendLog = {}
    /\ runs = [r \in Runs |-> Quiet]
    /\ sent = [all |-> {}, loose |-> {}]

Later == moment < LastMoment /\ moment' = moment + 1 /\ UNCHANGED <<inbox, runs, sendLog, sent>>

\* A message of a person comes in.
Deliver(box) ==
    /\ inbox' = inbox \cup {[to |-> box, from |-> Outsider, auto |-> FALSE]}
    /\ inbox' # inbox
    /\ UNCHANGED <<moment, runs, sendLog, sent>>

Continue(r, step) == runs' = [runs EXCEPT ![r] = step]

(***************************************************************************)
(* A run: its budget, and the actions in order, forwards first.  No        *)
(* forward to itself; a reply only to somebody who is not a machine.       *)
(***************************************************************************)
InTheHour(box) == {s \in sendLog : s.box = box /\ s.at + Hour > moment}

ShouldAutoReply(m) == m.to \in Answers /\ m.from # m.to /\ ~m.auto

Actions(m) ==
    [i \in 1..Len(ForwardTo[m.to]) |-> [kind |-> "forward", to |-> ForwardTo[m.to][i]]]
    \o IF ShouldAutoReply(m) THEN <<[kind |-> "autoReply", to |-> m.from]>> ELSE <<>>

Begin(r, m) ==
    LET box == m.to
        todo == SelectSeq(Actions(m), LAMBDA a : a.to # box)
        used == Cardinality(InTheHour(box))
    IN  /\ runs[r] = Quiet
        /\ inbox' = inbox \ {m}
        /\ IF used >= Cap \/ todo = <<>> THEN UNCHANGED <<runs, sent>>
           ELSE /\ Continue(r, [pc |-> "send", box |-> box, todo |-> todo, budget |-> Cap - used])
                /\ sent' = IF \E q \in Runs : runs[q] # Quiet /\ runs[q].box = box
                           THEN [sent EXCEPT !.loose = @ \cup {box}] ELSE sent
        /\ UNCHANGED <<moment, sendLog>>

RepliedRecently(box, to) ==
    \E s \in sendLog : s.box = box /\ s.kind = "autoReply" /\ s.to = to /\ s.at + Away > moment

Skips(box, a) == a.kind = "autoReply" /\ RepliedRecently(box, a.to)

Rest(r) ==
    IF Len(runs[r].todo) = 1 \/ runs[r].budget = 0 THEN Quiet
    ELSE [pc |-> "send", box |-> runs[r].box, todo |-> Tail(runs[r].todo), budget |-> runs[r].budget]

Skip(r) ==
    /\ runs[r].pc = "send" /\ Skips(runs[r].box, Head(runs[r].todo))
    /\ Continue(r, Rest(r))
    /\ UNCHANGED <<moment, inbox, sendLog, sent>>

\* Mutant of Spent: a budget that is never used up.
SpentNever(budget) == budget
Spent(budget) == budget - 1

\* What arrives at a mailbox of ours carries Auto-Submitted, and so does not
\* get a vacation reply; it is forwarded on.
Send(r) ==
    LET me == runs[r]
        a == Head(me.todo)
        s == [box |-> me.box, kind |-> a.kind, to |-> a.to, at |-> moment, n |-> Cardinality(sent.all)]
    IN  /\ me.pc = "send" /\ me.budget > 0 /\ ~Skips(me.box, a)
        /\ Cardinality(sent.all) < MaxSent
        /\ sent' = [sent EXCEPT !.all = @ \cup {s}]
        /\ inbox' = IF a.to \in RuleBoxes
                    THEN inbox \cup {[to |-> a.to, from |-> me.box, auto |-> TRUE]} ELSE inbox
        /\ Continue(r, [pc |-> "log", box |-> me.box, todo |-> me.todo, budget |-> Spent(me.budget),
                        send |-> s])
        /\ UNCHANGED <<moment, sendLog>>

Row(s) == [box |-> s.box, kind |-> s.kind, to |-> s.to, at |-> moment, n |-> s.n]

Log(r) ==
    /\ runs[r].pc = "log"
    /\ sendLog' = sendLog \cup {Row(runs[r].send)}
    /\ Continue(r, Rest(r))
    /\ UNCHANGED <<moment, inbox, sent>>

\* The send or the log fails, each swallowed; or the run is cut off.
Fail(r) ==
    /\ runs[r] # Quiet
    /\ Continue(r, Rest(r)) \/ Continue(r, Quiet)
    /\ sent' = IF runs[r].pc = "log" THEN [sent EXCEPT !.loose = @ \cup {runs[r].box}] ELSE sent
    /\ UNCHANGED <<moment, inbox, sendLog>>

RuleSendsNext ==
    \/ Later
    \/ \E box \in RuleBoxes : Deliver(box)
    \/ \E r \in Runs : \/ Skip(r) \/ Send(r) \/ Log(r) \/ Fail(r)
                       \/ \E m \in inbox : Begin(r, m)

RuleSendsSpec == RuleSendsInit /\ [][RuleSendsNext]_ruleVars

-----------------------------------------------------------------------------
\* "A misconfigured rule can't turn a mailbox into a sender to arbitrary
\* addresses faster than this" (rule-sends.ts:12-14): no hour sees more sends
\* of a mailbox than the cap, even when mailboxes forward to each other in a
\* circle.  Not so when runs of the mailbox overlap, since each counted the
\* log before the other's sends, or when a send was not logged.
HourlyCapHolds ==
    \A box \in RuleBoxes \ sent.loose : \A t \in 0..moment :
        Cardinality({s \in sent.all : s.box = box /\ s.at >= t /\ s.at < t + Hour}) <= Cap

\* A sender gets one vacation reply per window, under the same proviso
\* (rule-sends.ts:66-77, 103-117).
OneReplyPerSender ==
    \A s, q \in sent.all :
        \/ s = q \/ s.kind # "autoReply" \/ q.kind # "autoReply"
        \/ s.box # q.box \/ s.to # q.to \/ s.at > q.at \/ s.at + Away <= q.at
        \/ s.box \in sent.loose

\* Rules send no more than they may.
SendLimitsHold == HourlyCapHolds /\ OneReplyPerSender
=============================================================================
