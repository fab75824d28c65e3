------------------------------- MODULE Blocking -------------------------------
(***************************************************************************)
(* The deployment-wide blocklist: readers request a block                  *)
(* (apps/worker/src/api/messages.ts), administrators review requests, add  *)
(* and remove entries and protect domains (api/admin-block.ts), deliveries *)
(* and the composer look senders up (mail/blocklist.ts).                   *)
(*                                                                         *)
(* One D1 statement per step; a handler may die between two.               *)
(***************************************************************************)
EXTENDS Naturals, FiniteSets

CONSTANTS
    Senders,     \* addresses
    DomainOf,    \* sender -> its domain; parents are left out
    Readers,     \* users who request blocks
    Clerks,      \* handlers in flight at once
    MaxRequests  \* bound: requests ever made

\* No address is a domain.
ASSUME BlockingAssumption ==
    MaxRequests \in Nat /\ \A s, t \in Senders : DomainOf[s] # t

VARIABLES
    entries,      \* blocklist: senders and domains
    blockRequests,\* id -> [reader, value, status]
    asked,        \* ids drawn
    protected,    \* system_config protected_domains
    clerks,       \* what each handler is about to do
    ledger        \* history: [removed, straddled, doubled]

blockVars == <<entries, blockRequests, asked, protected, clerks, ledger>>

Domains == {DomainOf[s] : s \in Senders}
Off == [pc |-> "off"]

\* removed: senders an administrator took off the list.  straddled: domains
\* that became protected when they were already blocked or about to be.
\* doubled: readers of whom two submissions overlapped.
BlockingInit ==
    /\ entries = {} /\ blockRequests = <<>> /\ asked = 0 /\ protected = Domains
    /\ clerks = [c \in Clerks |-> Off]
    /\ ledger = [removed |-> {}, straddled |-> {}, doubled |-> {}]

Busy(c, step) == clerks' = [clerks EXCEPT ![c] = step]
Free(c) == Busy(c, Off)

(***************************************************************************)
(* POST messages/:id/block-request                                         *)
(***************************************************************************)
NonePending(u, v) ==
    ~\E r \in DOMAIN blockRequests : blockRequests[r] = [reader |-> u, value |-> v, status |-> "pending"]

CheckRequest(c, u, v) ==
    /\ clerks[c] = Off /\ v \notin entries /\ NonePending(u, v)
    /\ Busy(c, [pc |-> "submit", reader |-> u, value |-> v])
    /\ ledger' = IF \E d \in Clerks : clerks[d].pc = "submit" /\ clerks[d].reader = u
                 THEN [ledger EXCEPT !.doubled = @ \cup {u}] ELSE ledger
    /\ UNCHANGED <<entries, blockRequests, asked, protected>>

SubmitRequest(c) ==
    LET me == clerks[c] IN
    /\ me.pc = "submit" /\ asked < MaxRequests
    /\ asked' = asked + 1
    /\ blockRequests' = [r \in DOMAIN blockRequests \cup {asked + 1} |->
          IF r \in DOMAIN blockRequests THEN blockRequests[r]
          ELSE [reader |-> me.reader, value |-> me.value, status |-> "pending"]]
    /\ Free(c)
    /\ UNCHANGED <<entries, protected, ledger>>

(***************************************************************************)
(* Review.  Approving promotes the sender first and then closes the        *)
(* request; denying asks nothing and writes over any status.               *)
(***************************************************************************)
\* Mutant of Approval: the request is closed first.
ApprovalClosingFirst == <<"close", "promote">>
Approval == <<"promote", "close">>

BeginApprove(c, r) ==
    /\ clerks[c] = Off /\ r \in DOMAIN blockRequests /\ blockRequests[r].status = "pending"
    /\ Busy(c, [pc |-> Approval[1], request |-> r, value |-> blockRequests[r].value])
    /\ UNCHANGED <<entries, blockRequests, asked, protected, ledger>>

Onward(c) == IF clerks[c].pc = Approval[1] THEN Busy(c, [clerks[c] EXCEPT !.pc = Approval[2]])
             ELSE Free(c)

Promote(c) ==
    /\ clerks[c].pc = "promote"
    /\ entries' = entries \cup {clerks[c].value}
    /\ ledger' = [ledger EXCEPT !.removed = @ \ {clerks[c].value}]
    /\ Onward(c)
    /\ UNCHANGED <<blockRequests, asked, protected>>

SetStatus(r, status) ==
    blockRequests' = IF r \in DOMAIN blockRequests
                     THEN [blockRequests EXCEPT ![r].status = status] ELSE blockRequests

Close(c) ==
    /\ clerks[c].pc = "close"
    /\ SetStatus(clerks[c].request, "approved")
    /\ Onward(c)
    /\ UNCHANGED <<entries, asked, protected, ledger>>

Deny(r) ==
    /\ r \in DOMAIN blockRequests /\ SetStatus(r, "denied")
    /\ UNCHANGED <<entries, asked, protected, clerks, ledger>>

DeleteRequest(r) ==
    /\ r \in DOMAIN blockRequests
    /\ blockRequests' = [q \in DOMAIN blockRequests \ {r} |-> blockRequests[q]]
    /\ UNCHANGED <<entries, asked, protected, clerks, ledger>>

(***************************************************************************)
(* Entries and protected domains.                                          *)
(***************************************************************************)
MayBlock(v) == v \notin protected

CheckEntry(c, v) ==
    /\ clerks[c] = Off /\ MayBlock(v)
    /\ Busy(c, [pc |-> "entry", value |-> v])
    /\ UNCHANGED <<entries, blockRequests, asked, protected, ledger>>

InsertEntry(c) ==
    /\ clerks[c].pc = "entry"
    /\ entries' = entries \cup {clerks[c].value}
    /\ ledger' = [ledger EXCEPT !.removed = @ \ {clerks[c].value}]
    /\ Free(c)
    /\ UNCHANGED <<blockRequests, asked, protected>>

DeleteEntry(v) ==
    /\ v \in entries /\ entries' = entries \ {v}
    /\ ledger' = [ledger EXCEPT !.removed = @ \cup {v}]
    /\ UNCHANGED <<blockRequests, asked, protected, clerks>>

SetProtected(domains) ==
    /\ protected' = domains
    /\ ledger' = [ledger EXCEPT !.straddled =
                    (@ \cap domains) \cup {d \in domains \ protected :
                              d \in entries \/ \E c \in Clerks : clerks[c].pc = "entry"
                                                                 /\ clerks[c].value = d}]
    /\ UNCHANGED <<entries, blockRequests, asked, clerks>>

\* A handler dies where it is.
Vanish(c) ==
    /\ clerks[c] # Off /\ Free(c)
    /\ UNCHANGED <<entries, blockRequests, asked, protected, ledger>>

BlockingNext ==
    \/ \E c \in Clerks :
         \/ SubmitRequest(c) \/ Promote(c) \/ Close(c) \/ InsertEntry(c) \/ Vanish(c)
         \/ \E u \in Readers, v \in Senders : CheckRequest(c, u, v)
         \/ \E r \in 1..MaxRequests : BeginApprove(c, r)
         \/ \E v \in Senders \cup Domains : CheckEntry(c, v)
    \/ \E r \in 1..MaxRequests : Deny(r) \/ DeleteRequest(r)
    \/ \E v \in Senders \cup Domains : DeleteEntry(v)
    \/ \E domains \in SUBSET Domains : domains # protected /\ SetProtected(domains)

BlockingSpec == BlockingInit /\ [][BlockingNext]_blockVars

\* isSenderBlocked, blockedAddresses: the address or its domain is listed.
SenderBlocked(s) == s \in entries \/ DomainOf[s] \in entries

-----------------------------------------------------------------------------
\* An approved request has effect: its sender is refused until an
\* administrator takes it off the list, wherever approvals die and whatever
\* else is reviewed meanwhile (admin-block.ts:116-130).
ApprovedIsBlocked ==
    \A r \in DOMAIN blockRequests :
        blockRequests[r].status = "approved" =>
            SenderBlocked(blockRequests[r].value) \/ blockRequests[r].value \in ledger.removed

\* A protected domain is not blocked as a whole, unless it already was when
\* it became protected or an entry for it had passed the check
\* (admin-block.ts:48-66, 159-163).
ProtectedStayOpen == entries \cap protected \subseteq ledger.straddled

\* The queue holds one pending request of a reader for a sender, unless two
\* submissions overlapped (messages.ts:195-222).
QueueHasNoDuplicates ==
    \A q, r \in DOMAIN blockRequests :
        \/ q = r
        \/ blockRequests[q] # blockRequests[r]
        \/ blockRequests[q].status # "pending"
        \/ blockRequests[q].reader \in ledger.doubled

\* What was reviewed takes effect, and nothing that was not.
ReviewsTakeEffect == ApprovedIsBlocked /\ ProtectedStayOpen /\ QueueHasNoDuplicates
=============================================================================
