---------------------------- MODULE MailboxAccess ----------------------------
(***************************************************************************)
(* Who may use a mailbox and with which keys: members and invitations      *)
(* (api/mailboxes.ts, invites.ts, permissions.ts), migration between       *)
(* personal and group (api/admin.ts), the mailbox's PGP keypair and the    *)
(* public key it holds of one correspondent (api/mailboxes.ts,             *)
(* api/messages.ts, mail/receive.ts, mail/send.ts).                        *)
(*                                                                         *)
(* One mailbox: nothing here relates two.  Each handler is authorised by   *)
(* resolveAccess and then runs one statement per step.                     *)
(***************************************************************************)
EXTENDS Naturals, FiniteSets

CONSTANTS
    People,       \* users, and the addresses they are invited by
    Handlers,     \* requests and inbound deliveries in flight at once
    Fingerprints  \* keys the correspondent may present

VARIABLES
    mailbox,  \* [owner, type, doomed, pgpMode, pgpKey]
    member,   \* person -> the permission bits
    invited,  \* person -> the bits of a pending invitation
    contact,  \* the key on file for the correspondent, or NoKey
    handlers, \* what each handler is about to do
    trail     \* history the properties refer to

accessVars == <<mailbox, member, invited, contact, handlers, trail>>

Bits == {"read", "write", "manage"}
Modes == {"off", "sign", "sign_encrypt"}
NoKey == [fingerprint |-> "none", source |-> "none", verified |-> FALSE]
Waiting == [pc |-> "waiting"]

\* revoked: people put out and not let in since.  doubled: people who may be
\* members beside an invitation of theirs, because a handler died between
\* the two or a manager added them without it.  overlapped: people put out
\* while in doubled, or while a handler that had selected their invitation
\* was still running.  joined: people were let in since the mailbox was last
\* made personal.  unkeyed: a key was removed under a handler that had seen
\* it.  confirmed: the fingerprint an owner has vouched for.  swapped: it was
\* no longer the one in the row.
Clean == [revoked |-> {}, overlapped |-> {}, joined |-> FALSE, unkeyed |-> FALSE,
          confirmed |-> "none", doubled |-> {}, swapped |-> FALSE]

\* Invitations are left by earlier releases: no handler writes them.
AccessInit ==
    /\ \E o \in People : mailbox = [owner |-> o, type |-> "group", doomed |-> FALSE,
                                    pgpMode |-> "off", pgpKey |-> FALSE]
    /\ member = <<>>
    /\ \E waiting \in SUBSET People : invited = [p \in waiting |-> Bits]
    /\ contact = NoKey
    /\ handlers = [h \in Handlers |-> Waiting]
    /\ trail = Clean

(***************************************************************************)
(* permissions.ts                                                          *)
(***************************************************************************)
ResolveAccess(p) ==
    IF mailbox.doomed THEN {}
    ELSE IF mailbox.owner = p THEN Bits
    ELSE IF p \in DOMAIN member THEN member[p] ELSE {}

RequirePerm(p, bit) == bit \in ResolveAccess(p)

Turn(h, step) == handlers' = [handlers EXCEPT ![h] = step]
Done(h) == Turn(h, Waiting)
Drop(f, p) == [x \in DOMAIN f \ {p} |-> f[x]]
Put(f, p, v) == [x \in DOMAIN f \cup {p} |-> IF x = p THEN v ELSE f[x]]

Authorize(h, p, bit) ==
    /\ handlers[h] = Waiting /\ RequirePerm(p, bit)
    /\ Turn(h, [pc |-> bit, seen |-> contact.fingerprint])
    /\ UNCHANGED <<mailbox, member, invited, contact, trail>>

(***************************************************************************)
(* Members and invitations.                                                *)
(***************************************************************************)
Admit(p, bits) == /\ member' = Put(member, p, bits)
                  /\ trail' = [trail EXCEPT !.joined = TRUE]

GrantMember(h, p, bits) ==
    /\ handlers[h].pc = "manage"
    /\ member' = Put(member, p, bits)
    /\ trail' = [trail EXCEPT !.joined = TRUE, !.revoked = @ \ {p}, !.overlapped = @ \ {p},
                              !.doubled = @ \cup ({p} \cap DOMAIN invited)]
    /\ Done(h)
    /\ UNCHANGED <<mailbox, invited, contact>>

\* People whose invitation a running handler has selected.
Selected == {p \in People : \E h \in Handlers : /\ handlers[h].pc \in {"join", "drop"}
                                                /\ handlers[h].who = p}

PutOut(p) == trail' = [trail EXCEPT !.revoked = @ \cup {p},
                                    !.overlapped = @ \cup ({p} \cap (Selected \cup trail.doubled))]

RemoveMember(h, p) ==
    /\ handlers[h].pc = "manage"
    /\ member' = Drop(member, p)
    /\ IF p \in DOMAIN member THEN PutOut(p) ELSE UNCHANGED trail
    /\ Done(h)
    /\ UNCHANGED <<mailbox, invited, contact>>

\* An invitation withdrawn says nothing of somebody already a member.
WithdrawInvite(h, p) ==
    /\ handlers[h].pc = "manage" /\ p \in DOMAIN invited
    /\ invited' = Drop(invited, p)
    /\ IF p \in DOMAIN member THEN UNCHANGED trail ELSE PutOut(p)
    /\ Done(h)
    /\ UNCHANGED <<mailbox, member, contact>>

\* materializeInvites runs at sign-in and when mailboxes are listed: select
\* the pending invitations, upsert the member, delete the invitation.
SelectInvites(h, p) ==
    /\ handlers[h] = Waiting /\ p \in DOMAIN invited
    /\ Turn(h, [pc |-> "join", who |-> p, bits |-> invited[p]])
    /\ UNCHANGED <<mailbox, member, invited, contact, trail>>

Join(h) ==
    /\ handlers[h].pc = "join"
    /\ Admit(handlers[h].who, handlers[h].bits)
    /\ Turn(h, [handlers[h] EXCEPT !.pc = "drop"])
    /\ UNCHANGED <<mailbox, invited, contact>>

\* Mutant of DeletesInvite: the invitation stays, it is upserted anyway.
DeletesNothing(p) == invited
DeletesInvite(p) == Drop(invited, p)

DropInvite(h) ==
    /\ handlers[h].pc = "drop"
    /\ invited' = DeletesInvite(handlers[h].who)
    /\ Done(h)
    /\ UNCHANGED <<mailbox, member, contact, trail>>

(***************************************************************************)
(* Owner and type.  An administrator migrates in two statements.           *)
(***************************************************************************)
\* A patch is the columns the read found different from the body.
MigrationPatches == {patch \in [owner : People] \cup [type : {"personal", "group"}]
                                \cup [owner : People, type : {"personal", "group"}] :
                        \A k \in DOMAIN patch : patch[k] # mailbox[k]}

BecomesPersonal(patch) == "type" \in DOMAIN patch /\ patch.type = "personal"

Sheds(patch) == BecomesPersonal(patch)

Migrate(h, patch) ==
    /\ handlers[h] = Waiting
    /\ member' = IF Sheds(patch) THEN <<>> ELSE member
    /\ trail' = IF BecomesPersonal(patch) THEN [trail EXCEPT !.joined = FALSE] ELSE trail
    /\ Turn(h, [pc |-> "migrate", patch |-> patch])
    /\ UNCHANGED <<mailbox, invited, contact>>

WriteMigration(h) ==
    /\ handlers[h].pc = "migrate"
    /\ LET patch == handlers[h].patch IN
         mailbox' = [mailbox EXCEPT
                       !.owner = IF "owner" \in DOMAIN patch THEN patch.owner ELSE @,
                       !.type = IF "type" \in DOMAIN patch THEN patch.type ELSE @]
    /\ Done(h)
    /\ UNCHANGED <<member, invited, contact, trail>>

MarkDeleted(p) ==
    /\ mailbox.owner = p /\ ~mailbox.doomed
    /\ mailbox' = [mailbox EXCEPT !.doomed = TRUE]
    /\ UNCHANGED <<member, invited, contact, handlers, trail>>

(***************************************************************************)
(* The keypair.  A mode other than off wants a key on file.                *)
(***************************************************************************)
StoreKeypair(h) ==
    /\ handlers[h].pc = "manage"
    /\ mailbox' = [mailbox EXCEPT !.pgpKey = TRUE]
    /\ Done(h)
    /\ UNCHANGED <<member, invited, contact, trail>>

Unkeyed == [mailbox EXCEPT !.pgpMode = "off", !.pgpKey = FALSE]

RemoveKeypair(h) ==
    /\ handlers[h].pc = "manage"
    /\ mailbox' = Unkeyed
    /\ trail' = [trail EXCEPT !.unkeyed = @ \/ \E g \in Handlers : handlers[g].pc = "mode"]
    /\ Done(h)
    /\ UNCHANGED <<member, invited, contact>>

CheckMode(h, mode) ==
    /\ handlers[h].pc = "manage" /\ (mode # "off" => mailbox.pgpKey)
    /\ Turn(h, [pc |-> "mode", mode |-> mode])
    /\ UNCHANGED <<mailbox, member, invited, contact, trail>>

WriteMode(h) ==
    /\ handlers[h].pc = "mode"
    /\ mailbox' = [mailbox EXCEPT !.pgpMode = handlers[h].mode]
    /\ Done(h)
    /\ UNCHANGED <<member, invited, contact, trail>>

(***************************************************************************)
(* The correspondent's key.  Owners import, confirm and delete it; a key   *)
(* found in a message or in the sender's Web Key Directory is kept only    *)
(* when there is none.                                                     *)
(***************************************************************************)
Key(f, source, verified) == [fingerprint |-> f, source |-> source, verified |-> verified]

ImportContact(h, f) ==
    /\ handlers[h].pc = "manage"
    /\ contact' = Key(f, "import", TRUE)
    /\ trail' = [trail EXCEPT !.confirmed = f, !.swapped = FALSE]
    /\ Done(h)
    /\ UNCHANGED <<mailbox, member, invited>>

\* The owner has compared the fingerprint the page showed; the handler marks
\* the row by its id, whatever key it holds by then.
VerifyContact(h, verified) ==
    /\ handlers[h].pc = "manage" /\ contact # NoKey
    /\ contact' = [contact EXCEPT !.verified = verified]
    /\ trail' = [trail EXCEPT !.confirmed = IF verified THEN handlers[h].seen ELSE "none",
                              !.swapped = verified /\ handlers[h].seen # contact.fingerprint]
    /\ Done(h)
    /\ UNCHANGED <<mailbox, member, invited>>

DeleteContact(h) ==
    /\ handlers[h].pc = "manage"
    /\ contact' = NoKey
    /\ trail' = [trail EXCEPT !.confirmed = "none"]
    /\ Done(h)
    /\ UNCHANGED <<mailbox, member, invited>>

\* POST pgp/trust-sender replaces a rotated key, unverified: the owner has
\* to compare fingerprints again.
\* Mutant of Trusted: the row keeps the mark of the key it replaces.
TrustedAsBefore(f, source) == Key(f, source, contact.verified)
Trusted(f, source) == Key(f, source, FALSE)

TrustSender(h, f, source) ==
    /\ handlers[h].pc = "manage"
    /\ contact' = Trusted(f, source)
    /\ Done(h)
    /\ UNCHANGED <<mailbox, member, invited, trail>>

\* A delivery or a send looks the key up, finds none and fetches one.
LookupKey(h, f, source) ==
    /\ handlers[h] = Waiting /\ contact = NoKey /\ mailbox.pgpKey
    /\ Turn(h, [pc |-> "discovered", key |-> Key(f, source, FALSE)])
    /\ UNCHANGED <<mailbox, member, invited, contact, trail>>

Keeps(key) == IF contact = NoKey THEN key ELSE contact

StoreDiscoveredKey(h) ==
    /\ handlers[h].pc = "discovered"
    /\ contact' = Keeps(handlers[h].key)
    /\ Done(h)
    /\ UNCHANGED <<mailbox, member, invited, trail>>

\* A handler dies where it is.
Abandon(h) ==
    /\ handlers[h] # Waiting
    /\ trail' = IF handlers[h].pc \in {"join", "drop"}
                THEN [trail EXCEPT !.doubled = @ \cup {handlers[h].who}] ELSE trail
    /\ Done(h)
    /\ UNCHANGED <<mailbox, member, invited, contact>>

\* A handler authorised for a change; or it dies where it is.
Enter(h) == Abandon(h) \/ \E p \in People : Authorize(h, p, "manage")

SharingNext ==
    \/ \E h \in Handlers :
         \/ Enter(h) \/ Join(h) \/ DropInvite(h) \/ WriteMigration(h)
         \/ \E p \in People : \/ SelectInvites(h, p) \/ RemoveMember(h, p) \/ WithdrawInvite(h, p)
                              \/ \E bits \in {{"read"}, Bits} : GrantMember(h, p, bits)
         \/ \E patch \in MigrationPatches : Migrate(h, patch)
    \/ \E p \in People : MarkDeleted(p)

KeysNext ==
    \E h \in Handlers :
       \/ Enter(h) \/ StoreKeypair(h) \/ RemoveKeypair(h) \/ WriteMode(h)
       \/ StoreDiscoveredKey(h) \/ DeleteContact(h)
       \/ \E mode \in Modes : CheckMode(h, mode)
       \/ \E f \in Fingerprints : \/ ImportContact(h, f)
                                  \/ \E s \in {"tofu", "wkd"} : LookupKey(h, f, s)
                                                                \/ TrustSender(h, f, s)
       \/ \E v \in BOOLEAN : VerifyContact(h, v)

AccessNext == SharingNext \/ KeysNext

AccessSpec == AccessInit /\ [][AccessNext]_accessVars

-----------------------------------------------------------------------------
\* Whoever a manager puts out stays out until a manager lets them in again,
\* although every listing of mailboxes materializes invitations.  Excepted are
\* a materialization that had selected the invitation before, and a member
\* whose invitation is still on file because a materialization died before
\* deleting it or the manager granted access beside it (invites.ts:20-39,
\* mailboxes.ts:591-660).
RevokedStayOut == \A p \in DOMAIN member : p \notin trail.revoked \ trail.overlapped

\* After a migration to personal nobody shares the mailbox, until somebody is
\* let in again: the members are shed before the type is written, so a grant
\* in between survives (admin.ts:152-156).
PersonalIsUnshared ==
    mailbox.type = "personal" /\ ~trail.joined => DOMAIN member = {}

\* A mailbox that signs has a key to sign with, unless the key was removed
\* after a change of mode had seen it (mailboxes.ts:257-300, 347-363).
ModeHasKey == mailbox.pgpMode # "off" => mailbox.pgpKey \/ trail.unkeyed

\* A key counts as verified only while it is the one an owner imported or
\* confirmed: discovery and rotation never inherit the mark, in whatever
\* order lookups, fetches and confirmations run.  Excepted is a confirmation
\* that reaches the row after its key was replaced: the request names the row,
\* not the fingerprint the owner compared (receive.ts:473-543,
\* send.ts:431-453, messages.ts:358-382, mailboxes.ts:440-454).
VerifiedWasConfirmed ==
    contact.verified => contact.fingerprint = trail.confirmed \/ trail.swapped

\* Who was put out, one by one or with a migration, stays out until let in again.
OutsidersStayOut == RevokedStayOut /\ PersonalIsUnshared

\* Keys are what the owner made them: a correspondent's verified one, one's own
\* behind a mode that needs it.
KeysAreTrusted == VerifiedWasConfirmed /\ ModeHasKey
=============================================================================
