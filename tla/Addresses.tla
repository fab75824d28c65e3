------------------------------ MODULE Addresses ------------------------------
(***************************************************************************)
(* Who receives mail for an address of one domain: mailboxes and redirects *)
(* (apps/worker/src/api/admin.ts, api/mailboxes.ts, api/temp.ts,           *)
(* mailbox-access.ts) and the routing of an inbound message                *)
(* (mail/receive.ts, up to the point where a mailbox has been chosen).     *)
(*                                                                         *)
(* One D1 statement per step.  The unique index on a mailbox's address     *)
(* leaves out delete-pending rows; redirects cascade with their target.    *)
(***************************************************************************)
EXTENDS Naturals, FiniteSets

CONSTANTS
    LocalParts,    \* addresses of the domain; CatchAll is not among them
    CatchAll,      \* the redirect "*"
    Aliases,       \* local parts an administrator creates redirects at
    NoReply,       \* the local parts isNoReply recognises
    Workers,       \* admin requests and deliveries in flight at once
    MaxMailboxes   \* bound: mailbox rows ever inserted

ASSUME AddressesAssumption ==
    /\ CatchAll \notin LocalParts /\ Aliases \subseteq LocalParts \cup {CatchAll}
    /\ NoReply \subseteq LocalParts /\ MaxMailboxes \in Nat

VARIABLES
    mailboxes, \* id -> [local, kind, doomed]
    created,   \* ids drawn
    redirects, \* local part -> id of the target
    workers,   \* what each request or delivery is about to do
    notes      \* history the properties refer to

addressVars == <<mailboxes, created, redirects, workers, notes>>

\* Only a send-only service mailbox is told apart: it takes no mail.
Kinds == {"person", "service"}
AtRest == [pc |-> "rest"]

\* handed: local parts whose mailbox was deleted in favour of a redirect.
\* cleared: local parts that lost a redirect.  shadowed: local parts at which
\* a mailbox was created beside a redirect, or a handover stopped half way.
\* swallowed: mail stored in a mailbox that was marked before it arrived and
\* that the address itself led to.
AddressesInit ==
    /\ mailboxes = <<>> /\ created = 0 /\ redirects = <<>>
    /\ workers = [w \in Workers |-> AtRest]
    /\ notes = [handed |-> {}, cleared |-> {}, shadowed |-> {}, swallowed |-> FALSE]

Does(w, step) == workers' = [workers EXCEPT ![w] = step]
Rests(w) == Does(w, AtRest)

\* mailboxNotDeletePending
LiveAt(a) == {m \in DOMAIN mailboxes : mailboxes[m].local = a /\ ~mailboxes[m].doomed}
Doomed == {m \in DOMAIN mailboxes : mailboxes[m].doomed}

(***************************************************************************)
(* Creation.  authorizeMailboxCreate asks what the domain allows, which    *)
(* kinds, and for a user what the grant does; the unique index decides.    *)
(***************************************************************************)
Create(a, kind) ==
    /\ LiveAt(a) = {} /\ created < MaxMailboxes
    /\ created' = created + 1
    /\ mailboxes' = [m \in DOMAIN mailboxes \cup {created + 1} |->
                       IF m = created + 1 THEN [local |-> a, kind |-> kind, doomed |-> FALSE]
                       ELSE mailboxes[m]]
    /\ notes' = IF a \in DOMAIN redirects \/ \E w \in Workers :
                       workers[w].pc = "redirect" /\ workers[w].local = a
                THEN [notes EXCEPT !.shadowed = @ \cup {a}] ELSE notes
    /\ UNCHANGED <<redirects, workers>>

(***************************************************************************)
(* Redirects.                                                              *)
(***************************************************************************)
MayReceive(m) == m \in DOMAIN mailboxes /\ mailboxes[m].kind # "service"

Clash(a) == LiveAt(a) # {}

CheckRedirect(w, a, target) ==
    /\ workers[w] = AtRest /\ MayReceive(target) /\ ~Clash(a)
    /\ Does(w, [pc |-> "redirect", op |-> "create", local |-> a, target |-> target])
    /\ UNCHANGED <<mailboxes, created, redirects, notes>>

\* The target's row is gone: the foreign key refuses.
Points(a, target) ==
    redirects' = IF target \in DOMAIN mailboxes
                 THEN [b \in DOMAIN redirects \cup {a} |-> IF b = a THEN target ELSE redirects[b]]
                 ELSE redirects

UpsertRedirect(w) ==
    LET me == workers[w] IN
    /\ me.pc = "redirect" /\ me.op = "create"
    /\ Points(me.local, me.target)
    /\ Rests(w)
    /\ UNCHANGED <<mailboxes, created, notes>>

\* The kind of a target never changes and the foreign key refuses a dropped
\* one, so the check and the update are one step.
Retarget(a, target) ==
    /\ a \in DOMAIN redirects /\ MayReceive(target)
    /\ Points(a, target)
    /\ UNCHANGED <<mailboxes, created, workers, notes>>

DeleteRedirect(a) ==
    /\ a \in DOMAIN redirects
    /\ redirects' = [b \in DOMAIN redirects \ {a} |-> redirects[b]]
    /\ notes' = [notes EXCEPT !.cleared = @ \cup {a}]
    /\ UNCHANGED <<mailboxes, created, workers>>

(***************************************************************************)
(* Deletion.  An administrator may hand the address to another mailbox:    *)
(* the redirect is inserted first, and an insert that meets a redirect     *)
(* fails the request before anything is marked.                            *)
(***************************************************************************)
\* Mutant of Handover: the mailbox is marked before the redirect exists.
HandoverMarkingFirst == <<"mark", "redirect">>
Handover == <<"redirect", "mark">>

Deletion(step, m, target, a) ==
    [pc |-> step, op |-> "delete", mailbox |-> m, target |-> target, local |-> a]

RequestDelete(w, m, target) ==
    /\ workers[w] = AtRest /\ m \in DOMAIN mailboxes /\ target # m
    /\ target = 0 \/ MayReceive(target)
    /\ Does(w, Deletion(IF target = 0 THEN "mark" ELSE Handover[1], m, target, mailboxes[m].local))
    /\ UNCHANGED <<mailboxes, created, redirects, notes>>

\* The step after pc of a deletion, if it has one.
AfterStep(w) ==
    LET me == workers[w] IN
    IF me.target # 0 /\ me.pc = Handover[1]
    THEN Does(w, Deletion(Handover[2], me.mailbox, me.target, me.local)) ELSE Rests(w)

InsertRedirect(w) ==
    LET me == workers[w] IN
    /\ me.pc = "redirect" /\ me.op = "delete"
    /\ IF me.local \in DOMAIN redirects \/ me.target \notin DOMAIN mailboxes
       THEN Rests(w) /\ UNCHANGED <<redirects, notes>>
       ELSE /\ Points(me.local, me.target) /\ AfterStep(w)
            /\ notes' = [notes EXCEPT !.shadowed = @ \cup {me.local},
                                      !.cleared = @ \ {me.local}]
    /\ UNCHANGED <<mailboxes, created>>

\* markMailboxPurge.
MarkDelete(w) ==
    LET me == workers[w] IN
    /\ me.pc = "mark"
    /\ mailboxes' = IF me.mailbox \in DOMAIN mailboxes
                    THEN [mailboxes EXCEPT ![me.mailbox].doomed = TRUE] ELSE mailboxes
    /\ notes' = IF me.target = 0 THEN notes
                ELSE [notes EXCEPT !.handed = @ \cup {me.local}]
    /\ AfterStep(w)
    /\ UNCHANGED <<created, redirects>>

\* The sweep drops the row (module MailboxPurge), and the redirects to it.
Discard(m) ==
    /\ m \in Doomed
    /\ mailboxes' = [n \in DOMAIN mailboxes \ {m} |-> mailboxes[n]]
    /\ LET kept == {a \in DOMAIN redirects : redirects[a] # m} IN
         /\ redirects' = [a \in kept |-> redirects[a]]
         /\ notes' = [notes EXCEPT !.cleared = @ \cup (DOMAIN redirects \ kept)]
    /\ UNCHANGED <<created, workers>>

(***************************************************************************)
(* Routing.                                                                *)
(***************************************************************************)
Direct(a) == LiveAt(a)

Receive(w, a) ==
    /\ workers[w] = AtRest
    /\ \/ \E m \in Direct(a) : Does(w, [pc |-> "store", mailbox |-> m, doomed |-> m \in Doomed])
       \/ Direct(a) = {} /\ Does(w, [pc |-> "fallback", local |-> a])
    /\ UNCHANGED <<mailboxes, created, redirects, notes>>

\* The redirect of the address itself wins over the catch-all, which spares
\* the no-reply addresses.
Redirecting(a) ==
    IF a \in DOMAIN redirects THEN {redirects[a]}
    ELSE IF CatchAll \in DOMAIN redirects /\ a \notin NoReply THEN {redirects[CatchAll]} ELSE {}

Fallback(w) ==
    LET me == workers[w] IN
    /\ me.pc = "fallback"
    /\ \/ \E m \in Redirecting(me.local) :
            Does(w, [pc |-> "store", mailbox |-> m, doomed |-> FALSE])
       \/ Redirecting(me.local) = {} /\ Rests(w)
    /\ UNCHANGED <<mailboxes, created, redirects, notes>>

\* A send-only service mailbox and an expired one bounce; else the message is
\* stored where it was routed, if the row is still there.
Store(w) ==
    LET me == workers[w] IN
    /\ me.pc = "store"
    /\ notes' = [notes EXCEPT !.swallowed = @ \/ (/\ me.mailbox \in DOMAIN mailboxes
                                                  /\ mailboxes[me.mailbox].kind # "service"
                                                  /\ me.doomed)]
    /\ Rests(w)
    /\ UNCHANGED <<mailboxes, created, redirects>>

Perish(w) == workers[w] # AtRest /\ Rests(w) /\ UNCHANGED <<mailboxes, created, redirects, notes>>

AddressesNext ==
    \/ \E a \in LocalParts : \/ DeleteRedirect(a)
                             \/ \E kind \in Kinds : Create(a, kind)
    \/ DeleteRedirect(CatchAll)
    \/ \E m \in 1..MaxMailboxes :
         Discard(m) \/ \E a \in Aliases : Retarget(a, m)
    \/ \E w \in Workers :
         \/ UpsertRedirect(w) \/ InsertRedirect(w) \/ MarkDelete(w)
         \/ Fallback(w) \/ Store(w) \/ Perish(w)
         \/ \E a \in LocalParts : Receive(w, a)
         \/ \E m \in 1..MaxMailboxes :
              \/ \E a \in Aliases : CheckRedirect(w, a, m)
              \/ \E target \in 0..MaxMailboxes : RequestDelete(w, m, target)

AddressesSpec == AddressesInit /\ [][AddressesNext]_addressVars

-----------------------------------------------------------------------------
\* An address whose mailbox was deleted in favour of another keeps receiving
\* at every moment, the one between the statements included, until its
\* redirect is deleted or goes with its target (admin.ts:266-278).
HandedOverStillReceives ==
    \A a \in notes.handed \ notes.cleared : LiveAt(a) # {} \/ a \in DOMAIN redirects

\* No redirect is created that can never fire: one beside a live mailbox was
\* there before the mailbox, or is of a handover that has not finished or
\* died before marking (admin.ts:473-493, 269-278).
RedirectsCanFire ==
    \A a \in DOMAIN redirects \ notes.shadowed : LiveAt(a) = {}

\* Mail addressed to a mailbox never goes down with it once it is marked: it
\* falls through to the redirect or bounces.  Not promised of the redirect's
\* own target, which is loaded by its id alone (receive.ts:68-75, 107-110).
MarkedMailboxesRefuse == ~notes.swallowed

\* Mail to an address finds the mailbox or redirect it should, while either changes.
MailFindsItsWay == HandedOverStillReceives /\ RedirectsCanFire /\ MarkedMailboxesRefuse
=============================================================================
