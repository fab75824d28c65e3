------------------------------ MODULE AiFeatures ------------------------------
(***************************************************************************)
(* The metered model calls of one mailbox (apps/worker/src/mail/ai.ts,     *)
(* classifyWithAI of mail/spam.ts) and the cached summary of a thread      *)
(* (POST /api/threads/:id/summary).                                        *)
(*                                                                         *)
(* Two meters: "ai" is charged in the month the answer comes in, "spam" in *)
(* the month the question was asked.  A call checks its meter, asks the    *)
(* model and charges, each with an await of its own.                       *)
(***************************************************************************)
EXTENDS Naturals, FiniteSets, FiniteSetsExt

CONSTANTS
    Calls,        \* calls in flight at once
    TokenCap,     \* mailbox.aiTokenCap
    Costs,        \* tokens a call may take
    LastMonth,    \* bound: the calendar stops here
    MaxSpent,     \* bound: tokens charged in a month
    MaxMessages   \* bound: messages that ever reach the thread

ASSUME AiFeaturesAssumption ==
    /\ TokenCap \in Nat \ {0} /\ LastMonth \in Nat
    /\ Costs \subseteq Nat \ {0} /\ Costs # {} /\ IsFiniteSet(Costs)

VARIABLES
    month,
    meter,     \* mailbox_ai_usage, mailbox_spam_usage: pool -> [period, tokens]
    calls,     \* what each call is about to do
    messages,  \* the thread: messages it ever had, and those it has
    summary,   \* its thread_summary: [of, count], {} for none
    told       \* history: the tokens charged, a refusal below the cap, a stale
               \* summary served, and the months in which calls overlapped

aiVars == <<month, meter, calls, messages, summary, told>>

Pools == {"ai", "spam"}
Features == {"insight", "summary", "verdict"}  \* generateMessageInsights and generateSmartReply, ...
PoolOf(feature) == IF feature = "verdict" THEN "spam" ELSE "ai"

\* asked: the month the question was put, of the spam meter's.  count, of,
\* thinned: of a summary, the thread as it was counted and gathered.
Fresh(step, feature, count) ==
    [pc |-> step, feature |-> feature, asked |-> 0, count |-> count, of |-> {}, thinned |-> FALSE]
NoCall == Fresh("none", "insight", 0)

AiInit ==
    /\ month = 0
    /\ meter = [p \in Pools |-> [period |-> 0, tokens |-> 0]]
    /\ calls = [c \in Calls |-> NoCall]
    /\ messages = [ever |-> 1, now |-> {1}]
    /\ summary = {}
    /\ told = [spent |-> [p \in Pools |-> [m \in 0..LastMonth |-> 0]],
               refused |-> FALSE, stale |-> FALSE, raced |-> {}]

MonthTurns ==
    /\ month < LastMonth /\ month' = month + 1
    /\ UNCHANGED <<meter, calls, messages, summary, told>>

Become(c, step) == calls' = [calls EXCEPT ![c] = step]

(***************************************************************************)
(* The thread, and its summary: an unchanged count means an unchanged      *)
(* thread.  "thinned" notes that a message was removed since the count.    *)
(***************************************************************************)
Arrives ==
    /\ messages.ever < MaxMessages
    /\ messages' = [ever |-> messages.ever + 1, now |-> messages.now \cup {messages.ever + 1}]
    /\ UNCHANGED <<month, meter, calls, summary, told>>

Removed(i) ==
    /\ messages' = [messages EXCEPT !.now = @ \ {i}]
    /\ summary' = {[s EXCEPT !.thinned = TRUE] : s \in summary}
    /\ calls' = [c \in Calls |-> IF calls[c].feature = "summary"
                                 THEN [calls[c] EXCEPT !.thinned = TRUE] ELSE calls[c]]
    /\ UNCHANGED <<month, meter, told>>

\* Mutant of Reusable: a summary is good for as long as the thread.
ReusableForever(s) == TRUE
Reusable(s) == s.count = Cardinality(messages.now)

OpenSummary(c) ==
    /\ calls[c] = NoCall
    /\ IF \E s \in summary : Reusable(s)
       THEN /\ told' = [told EXCEPT !.stale =
                          @ \/ \E s \in summary : ~s.thinned /\ s.of # messages.now]
            /\ UNCHANGED calls
       ELSE /\ Become(c, Fresh("gather", "summary", Cardinality(messages.now)))
            /\ UNCHANGED told
    /\ UNCHANGED <<month, meter, messages, summary>>

Gather(c) ==
    /\ calls[c].pc = "gather"
    /\ Become(c, [calls[c] EXCEPT !.pc = "check", !.of = messages.now])
    /\ UNCHANGED <<month, meter, messages, summary, told>>

(***************************************************************************)
(* aiBudgetExhausted, the model, recordAiUsage.                            *)
(***************************************************************************)
Exhausted(pool) == meter[pool].period = month /\ meter[pool].tokens >= TokenCap

Metered(c, call) ==
    LET pool == PoolOf(call.feature)
        others == {d \in Calls \ {c} : /\ calls[d].pc \in {"run", "charge"}
                                       /\ PoolOf(calls[d].feature) = pool}
    IN  /\ IF Exhausted(pool)
           THEN /\ Become(c, NoCall)
                /\ told' = [told EXCEPT !.refused =
                       @ \/ told.spent[pool][month] < TokenCap]
           ELSE /\ Become(c, [call EXCEPT !.pc = "run", !.asked = IF pool = "spam" THEN month ELSE 0])
                /\ told' = [told EXCEPT !.raced =
                       @ \cup {<<pool, m>> : m \in IF others = {} THEN {} ELSE month..LastMonth}]
        /\ UNCHANGED <<month, meter, messages, summary>>

Ask(c, feature) ==
    /\ calls[c] = NoCall /\ feature # "summary"
    /\ Metered(c, Fresh("check", feature, 0))

AskSummary(c) == calls[c].pc = "check" /\ Metered(c, calls[c])

Answer(c) ==
    /\ calls[c].pc = "run"
    /\ calls' = [calls EXCEPT ![c].pc = "charge"]
    /\ UNCHANGED <<month, meter, messages, summary, told>>

Charged(row, period, cost) ==
    [period |-> period, tokens |-> IF row.period = period THEN row.tokens + cost ELSE cost]

Charge(c, cost) ==
    LET pool == PoolOf(calls[c].feature)
        period == IF pool = "spam" THEN calls[c].asked ELSE month
    IN  /\ calls[c].pc = "charge"
        /\ told.spent[pool][period] + cost <= MaxSpent
        /\ meter' = [meter EXCEPT ![pool] = Charged(@, period, cost)]
        /\ told' = [told EXCEPT !.spent[pool][period] = @ + cost]
        /\ calls' = IF calls[c].feature = "summary" THEN [calls EXCEPT ![c].pc = "save"]
                    ELSE [calls EXCEPT ![c] = NoCall]
        /\ UNCHANGED <<month, messages, summary>>

\* Only a real result is kept.
Save(c) ==
    /\ calls[c].pc = "save"
    /\ summary' = {[of |-> calls[c].of, count |-> calls[c].count, thinned |-> calls[c].thinned]}
    /\ Become(c, NoCall)
    /\ UNCHANGED <<month, meter, messages, told>>

\* The model fails, or its answer is of no use.
GiveUp(c) ==
    /\ calls[c].pc \in {"run", "charge", "save"}
    /\ Become(c, NoCall)
    /\ UNCHANGED <<month, meter, messages, summary, told>>

MeterNext ==
    \/ MonthTurns
    \/ \E c \in Calls : \/ Answer(c) \/ GiveUp(c)
                        \/ \E f \in Features : Ask(c, f)
                        \/ \E cost \in Costs : Charge(c, cost)

SummaryNext ==
    \/ Arrives
    \/ \E i \in messages.now : Removed(i)
    \/ \E c \in Calls : \/ OpenSummary(c) \/ Gather(c) \/ AskSummary(c) \/ Save(c)
                        \/ Answer(c) \/ GiveUp(c) \/ \E cost \in Costs : Charge(c, cost)

AiNext == MeterNext \/ SummaryNext

AiSpec == AiInit /\ [][AiNext]_aiVars

-----------------------------------------------------------------------------
\* A mailbox is charged at most one call beyond its monthly cap
\* (mail/ai.ts:40-41), unless calls overlapped: each had checked the meter
\* before the other was charged.
MonthWithinCap ==
    \A p \in Pools, m \in 0..LastMonth :
        <<p, m>> \in told.raced \/ told.spent[p][m] < TokenCap + Max(Costs)

\* No feature is refused in a month that has tokens left (mail/ai.ts:52,
\* spam.ts:665), however calls of the old month are charged in the new one.
RefusedOnlyAtCap == ~told.refused

\* The cached summary is served only for the messages it was made of: "msgCount
\* moves on any add/remove, so a stale cache is simply ignored"
\* (api/threads.ts:253-260).  True while no message was removed since: one removed
\* and one arrived leave the count as it was.
SummaryIsCurrent == ~told.stale

\* The meter stops what it should and nothing else.
MeterHolds == MonthWithinCap /\ RefusedOnlyAtCap
=============================================================================
