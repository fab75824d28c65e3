----------------------------- MODULE ImapSession -----------------------------
(***************************************************************************)
(* One IMAP connection with a folder selected (imap/session.ts), its       *)
(* subscription to the user's hub (imap/hub-listener.ts) and what the      *)
(* client on the other end was told.  The client knows messages by         *)
(* sequence numbers, positions in a list it builds from the untagged       *)
(* EXISTS, EXPUNGE and FETCH responses; the session answers by positions   *)
(* in its own view.                                                        *)
(*                                                                         *)
(* loadView is one step here, ImapUidSpace takes it apart.  Other          *)
(* connections of the user load the folder as well; how their loads        *)
(* overlap is in ImapUidSpace.                                             *)
(***************************************************************************)
EXTENDS Integers, FiniteSets, SequencesExt

CONSTANTS
  Messages,    \* messages, numbered in loadView's sort order
  MaxChanges   \* bound on what other actors do to the folder and on failing loads

ASSUME MessagesAssumption == Messages \subseteq Nat /\ IsFiniteSet(Messages)
ASSUME BoundAssumption == MaxChanges \in Nat

VARIABLES
  members,   \* messages in the folder
  flagged,   \* messages flagged \Deleted
  uid,       \* imap_uid: the UID of each message, 0 without a row
  uidNext,   \* imap_folder.uid_next
  mailbox,   \* the mailbox: "live", marked by the cron ("pending"), or "gone"
  cmd,       \* what the session is doing
  then,      \* where it goes after a sync
  selected,  \* whether a folder is selected
  readOnly,  \* by EXAMINE
  view,      \* the selected FolderView's entries
  fresh,     \* entries loaded and not yet announced
  leaving,   \* positions of the view still to be announced as EXPUNGE
  client,    \* the client's list: what it knows of each sequence number
  dirty,     \* HubListener's latch
  expired,   \* whether mailbox_expired arrived
  frames,    \* hub events on their way
  missed,    \* history: a change the next wait() will not wake up for
  changes

folder == <<members, flagged, uid, uidNext, mailbox>>
session == <<cmd, then, selected, readOnly, view, fresh, leaving, client>>
hub == <<dirty, expired, frames, missed>>
vars == <<folder, session, hub, changes>>

Entry == [uid : Nat, msg : Messages, del : BOOLEAN]

\* What a client knows of a sequence number: a UID or 0, and the \Deleted flag or "?".
Known == [uid : Nat, del : {"yes", "no", "?"}]
Unknown == [uid |-> 0, del |-> "?"]
Told(e) == [uid |-> e.uid, del |-> IF e.del THEN "yes" ELSE "no"]

TypeOK ==
  /\ members \subseteq Messages
  /\ flagged \subseteq Messages
  /\ uid \in [Messages -> Nat]
  /\ uidNext \in Nat
  /\ mailbox \in {"live", "pending", "gone"}
  /\ cmd \in {"ready", "select", "greet", "load", "announce", "idle", "closed"}
  /\ then \in {"ready", "idle"}
  /\ selected \in BOOLEAN
  /\ readOnly \in BOOLEAN
  /\ view \in Seq(Entry)
  /\ fresh \in Seq(Entry)
  /\ leaving \subseteq 1..Len(view)
  /\ client \in Seq(Known)
  /\ dirty \in BOOLEAN
  /\ expired \in BOOLEAN
  /\ frames \subseteq {"mailbox_changed", "mailbox_expired"}
  /\ missed \in BOOLEAN
  /\ changes \in 0..MaxChanges
  /\ ~selected => view = << >>
  /\ \A i \in 1..Len(view) - 1 : view[i].uid < view[i + 1].uid

Init ==
  /\ members \in SUBSET Messages
  /\ flagged = {}
  /\ uid = [m \in Messages |-> 0]
  /\ uidNext = 1
  /\ mailbox = "live"
  /\ cmd = "ready"
  /\ then = "ready"
  /\ selected = FALSE
  /\ readOnly = FALSE
  /\ view = << >>
  /\ fresh = << >>
  /\ leaving = {}
  /\ client = << >>
  /\ dirty = FALSE
  /\ expired = FALSE
  /\ frames = {}
  /\ missed = FALSE
  /\ changes = 0

----------------------------------------------------------------------------
(***************************************************************************)
(* The folder, and the events about it.                                    *)
(***************************************************************************)
\* A closed connection is not followed any further.
MayChange == changes < MaxChanges /\ changes' = changes + 1 /\ mailbox # "gone" /\ cmd # "closed"

\* Not every change is broadcast to this user.
Broadcast ==
  \/ frames' = frames \union {"mailbox_changed"} /\ UNCHANGED <<dirty, expired, missed>>
  \/ missed' = TRUE /\ UNCHANGED <<dirty, expired, frames>>

Enter(m) ==
  /\ MayChange
  /\ m \notin members
  /\ members' = members \union {m}
  /\ Broadcast
  /\ UNCHANGED <<flagged, uid, uidNext, mailbox, session>>

\* Someone moves the message away, or trashes it, which clears the flag.
Leave(m) ==
  /\ MayChange
  /\ m \in members
  /\ members' = members \ {m}
  /\ flagged' \in {flagged, flagged \ {m}}
  /\ Broadcast
  /\ UNCHANGED <<uid, uidNext, mailbox, session>>

Flag(m) ==
  /\ MayChange
  /\ m \in members
  /\ flagged' = IF m \in flagged THEN flagged \ {m} ELSE flagged \union {m}
  /\ Broadcast
  /\ UNCHANGED <<members, uid, uidNext, mailbox, session>>

\* The cron marks the mailbox, whose time is over, for deletion, and tells its owner.
Expire ==
  /\ MayChange
  /\ mailbox = "live"
  /\ mailbox' = "pending"
  /\ \/ frames' = frames \union {"mailbox_expired"} /\ UNCHANGED missed
     \/ missed' = TRUE /\ UNCHANGED frames
  /\ UNCHANGED <<members, flagged, uid, uidNext, session, dirty, expired>>

\* It drops the mailbox with what is in it.
DropMailbox ==
  /\ mailbox = "pending" /\ cmd # "closed"
  /\ mailbox' = "gone"
  /\ members' = {}
  /\ flagged' = {}
  /\ UNCHANGED <<uid, uidNext, session, hub, changes>>

\* HubListener.onFrame.
Deliver(f) ==
  /\ f \in frames
  /\ cmd # "closed"
  /\ frames' = frames \ {f}
  /\ dirty' = TRUE
  /\ expired' = (expired \/ f = "mailbox_expired")
  /\ UNCHANGED <<folder, session, missed, changes>>

\* The stream broke, and its events with it.
Lose(f) ==
  /\ f \in frames
  /\ cmd # "closed"
  /\ frames' = frames \ {f}
  /\ missed' = TRUE
  /\ UNCHANGED <<folder, session, dirty, expired, changes>>

----------------------------------------------------------------------------
(***************************************************************************)
(* loadView: departed messages lose their UID, new ones get the next.      *)
(***************************************************************************)
New == {m \in members : uid[m] = 0}
Rank(m) == Cardinality({k \in New : k < m})

Numbered ==
  [m \in Messages |-> IF m \notin members THEN 0
                      ELSE IF m \in New THEN uidNext + Rank(m) ELSE uid[m]]

\* sort by UID.
Place(S, e) == Cardinality({d \in S : d.uid < e.uid})
ByUid(S) == [i \in 1..Cardinality(S) |-> CHOOSE e \in S : Place(S, e) = i - 1]

Renumbers == uid' = Numbered /\ uidNext' = uidNext + Cardinality(New)

Loads ==
  /\ mailbox # "gone"
  /\ Renumbers
  /\ fresh' = ByUid({[uid |-> Numbered[m], msg |-> m, del |-> m \in flagged] : m \in members})
  /\ missed' = FALSE
  /\ UNCHANGED <<members, flagged, mailbox, dirty, expired, frames, changes>>

\* Another connection of the user loads the folder.
PeerLoads ==
  /\ mailbox # "gone" /\ cmd # "closed"
  /\ Renumbers
  /\ UNCHANGED <<members, flagged, mailbox, session, hub, changes>>

\* Back to the command loop or to IDLE.
Return == cmd' = then /\ then' = "ready"

\* A statement fails, as every one does once the mailbox is gone; the view stays.
LoadFails ==
  /\ cmd \in {"select", "load"}
  /\ \/ mailbox = "gone" /\ UNCHANGED changes
     \/ changes < MaxChanges /\ changes' = changes + 1
  /\ Return
  /\ missed' = TRUE
  /\ UNCHANGED <<folder, selected, readOnly, view, fresh, leaving, client, dirty, expired, frames>>

----------------------------------------------------------------------------
(***************************************************************************)
(* SELECT, EXAMINE, UNSELECT, CLOSE.                                       *)
(***************************************************************************)
Deselected(ro) == selected' = FALSE /\ readOnly' = ro /\ view' = << >> /\ client' = << >>

Select(ro) ==
  /\ cmd = "ready"
  /\ cmd' = "select"
  /\ Deselected(ro)
  /\ UNCHANGED <<folder, then, fresh, leaving, hub, changes>>

SelectLoads ==
  /\ cmd = "select"
  /\ Loads
  /\ cmd' = "greet"
  /\ UNCHANGED <<leaving, then, selected, readOnly, view, client>>

\* "* n EXISTS" and the rest; the latch is taken after the load, so what arrived
\* since then wakes no wait().
Greet ==
  /\ cmd = "greet"
  /\ cmd' = "ready"
  /\ selected' = TRUE
  /\ view' = fresh
  /\ fresh' = << >>
  /\ client' = [i \in 1..Len(fresh) |-> Unknown]
  /\ dirty' = FALSE
  /\ missed' = (missed \/ dirty)
  /\ UNCHANGED <<folder, then, readOnly, leaving, expired, frames, changes>>

Unselect ==
  /\ cmd = "ready" /\ selected
  /\ Deselected(FALSE)
  /\ UNCHANGED <<folder, cmd, then, fresh, leaving, hub, changes>>

\* Doomed by the view: the flags it has, not those of the database.
Doomed == {view[i].msg : i \in {j \in 1..Len(view) : view[j].del}}

\* The messages leave for the Trash, or for good.
TakeOut(ms) ==
  /\ members' = members \ ms
  /\ flagged' = flagged \ ms
  /\ frames' = IF ms = {} THEN frames ELSE frames \union {"mailbox_changed"}
  /\ UNCHANGED <<uid, uidNext, mailbox, dirty, expired, missed, changes>>

Close ==
  /\ cmd = "ready" /\ selected
  /\ TakeOut(IF readOnly THEN {} ELSE Doomed)
  /\ Deselected(FALSE)
  /\ UNCHANGED <<cmd, then, fresh, leaving>>

----------------------------------------------------------------------------
(***************************************************************************)
(* sync: take the latch, load, announce the difference.                    *)
(***************************************************************************)
\* Without a selected folder only the latch is taken.
BeginSync(next) ==
  /\ IF selected THEN cmd' = "load" /\ then' = next
                 ELSE cmd' = next /\ UNCHANGED then
  /\ dirty' = FALSE

UidsOf(es) == {es[i].uid : i \in 1..Len(es)}

\* What was there and is no more.
Departed(old, new) == {i \in 1..Len(old) : old[i].uid \notin UidsOf(new)}

SyncLoads ==
  /\ cmd = "load"
  /\ Loads
  /\ cmd' = "announce"
  /\ leaving' = Departed(view, fresh')
  /\ UNCHANGED <<then, selected, readOnly, view, client>>

\* Whether "* n EXISTS" is sent.
Exists(old, new) ==
  \/ \E e \in UidsOf(new) : e \notin UidsOf(old)
  \/ Len(new) # Len(old) - Cardinality(Departed(old, new))

\* The client appends what it knows nothing of.
Grown(list, n) == list \o [i \in 1..n - Len(list) |-> Unknown]

\* Entries announced as FETCH (FLAGS ... UID ...), by their new position.
Changed(old, new) ==
  {i \in 1..Len(new) : \E j \in 1..Len(old) : old[j].uid = new[i].uid /\ old[j].del # new[i].del}

\* The client's list after EXISTS and the FETCHes.
Heard(list, old, new) ==
  LET grown == IF Exists(old, new) THEN Grown(list, Len(new)) ELSE list
  IN [i \in 1..Len(grown) |-> IF i \in Changed(old, new) THEN Told(new[i]) ELSE grown[i]]

\* "* i EXPUNGE": the client's positions from i on move up.
SendExpunge(i) ==
  /\ cmd = "announce"
  /\ leaving' = leaving \ {i}
  /\ client' = RemoveAt(client, i)
  /\ UNCHANGED <<folder, cmd, then, selected, readOnly, view, fresh, hub, changes>>

\* Mutant: sent from the start.
FirstComesFirst == \E i \in leaving : (\A j \in leaving : i <= j) /\ SendExpunge(i)

\* Sent from the end, so that the positions of those still to come stay what they are.
LastComesFirst == \E i \in leaving : (\A j \in leaving : j <= i) /\ SendExpunge(i)

\* Mutant: the latch is taken here, after the load.
AnnounceAndTake ==
  /\ cmd = "announce" /\ leaving = {}
  /\ Return
  /\ client' = Heard(client, view, fresh)
  /\ view' = fresh
  /\ fresh' = << >>
  /\ dirty' = FALSE
  /\ UNCHANGED <<folder, selected, readOnly, leaving, expired, frames, missed, changes>>

Announce ==
  /\ cmd = "announce" /\ leaving = {}
  /\ Return
  /\ client' = Heard(client, view, fresh)
  /\ view' = fresh
  /\ fresh' = << >>
  /\ UNCHANGED <<folder, selected, readOnly, leaving, hub, changes>>

----------------------------------------------------------------------------
(***************************************************************************)
(* Commands.                                                               *)
(***************************************************************************)
Noop ==
  /\ cmd = "ready"
  /\ BeginSync("ready")
  /\ UNCHANGED <<folder, selected, readOnly, view, fresh, leaving, client, expired, frames, missed, changes>>

\* Only the UID form of a command ends with a sync.
AndSync(byUid) ==
  \/ ~byUid /\ UNCHANGED <<cmd, then, dirty>>
  \/ byUid /\ BeginSync("ready")

\* FETCH 1:* (UID FLAGS): answered from the view, without a look at the database.
Fetch(byUid) ==
  /\ cmd = "ready" /\ selected
  /\ client' = [i \in 1..Len(view) |-> Told(view[i])]
  /\ AndSync(byUid)
  /\ UNCHANGED <<folder, selected, readOnly, view, fresh, leaving, expired, frames, missed, changes>>

\* STORE i (+|-)FLAGS \Deleted; the client is told, or, with .SILENT, assumes it.
Store(i, set, byUid) ==
  /\ cmd = "ready" /\ selected /\ ~readOnly
  /\ LET m == view[i].msg IN
       flagged' = IF set THEN flagged \union {m} ELSE flagged \ {m}
  /\ view' = [view EXCEPT ![i].del = set]
  /\ client' = [client EXCEPT ![i].del = IF set THEN "yes" ELSE "no"]
  /\ frames' = frames \union {"mailbox_changed"}
  /\ AndSync(byUid)
  /\ UNCHANGED <<members, uid, uidNext, mailbox, selected, readOnly, fresh, leaving, expired, missed, changes>>

\* EXPUNGE and MOVE end with a sync.
DropRows(ms) ==
  /\ cmd = "ready" /\ selected /\ ~readOnly
  /\ members' = members \ ms
  /\ flagged' = flagged \ ms
  /\ frames' = IF ms = {} THEN frames ELSE frames \union {"mailbox_changed"}
  /\ BeginSync("ready")
  /\ UNCHANGED <<uid, uidNext, mailbox, selected, readOnly, view, fresh, leaving, client, expired, missed, changes>>

\* UID EXPUNGE takes some of them.
Expunge == \E ms \in SUBSET Doomed : DropRows(ms)

\* MOVE to the folder itself does nothing; to Spam or a user's folder it takes the
\* whole thread.
Move(i) ==
  \/ DropRows({})
  \/ \E others \in SUBSET members : DropRows({view[i].msg} \union others)

\* APPEND to the selected folder.
AppendMessage(m) ==
  /\ cmd = "ready" /\ selected
  /\ MayChange
  /\ m \notin members
  /\ members' = members \union {m}
  /\ frames' = frames \union {"mailbox_changed"}
  /\ BeginSync("ready")
  /\ UNCHANGED <<flagged, uid, uidNext, mailbox, selected, readOnly, view, fresh, leaving, client, expired, missed>>

\* LOGOUT, an autologout or a lost connection.
Logout ==
  /\ cmd # "closed"
  /\ cmd' = "closed"
  /\ Deselected(FALSE)
  /\ then' = "ready"
  /\ fresh' = << >>
  /\ leaving' = {}
  /\ UNCHANGED <<folder, hub, changes>>

----------------------------------------------------------------------------
(***************************************************************************)
(* IDLE.                                                                   *)
(***************************************************************************)
Idle ==
  /\ cmd = "ready"
  /\ cmd' = "idle"
  /\ UNCHANGED <<folder, then, selected, readOnly, view, fresh, leaving, client, hub, changes>>

\* A wake-up: BYE if the mailbox is gone, a sync otherwise.
Woken ==
  IF expired
    THEN /\ cmd' = "closed"
         /\ Deselected(FALSE)
         /\ UNCHANGED <<then, dirty>>
    ELSE BeginSync("idle") /\ UNCHANGED <<selected, readOnly, view, client>>

Wake ==
  /\ cmd = "idle"
  /\ dirty
  /\ Woken
  /\ UNCHANGED <<folder, fresh, leaving, expired, frames, missed, changes>>

\* Mutant: no timer.
NeverTick == cmd = "idle" /\ FALSE /\ UNCHANGED vars

\* IDLE_POLL_MS have gone by.
Tick ==
  /\ cmd = "idle"
  /\ Woken
  /\ UNCHANGED <<folder, fresh, leaving, expired, frames, missed, changes>>

Done ==
  /\ cmd = "idle"
  /\ cmd' = "ready"
  /\ UNCHANGED <<folder, then, selected, readOnly, view, fresh, leaving, client, hub, changes>>

----------------------------------------------------------------------------
Others ==
  \/ \E m \in Messages : Enter(m) \/ Leave(m) \/ Flag(m)
  \/ Expire \/ DropMailbox \/ PeerLoads
  \/ \E f \in frames : Deliver(f) \/ Lose(f)

Client ==
  \/ \E b \in BOOLEAN : Select(b) \/ Fetch(b)
  \/ \E i \in 1..Len(view), s, b \in BOOLEAN : Store(i, s, b)
  \/ \E i \in 1..Len(view) : Move(i)
  \/ \E m \in Messages : AppendMessage(m)
  \/ Unselect \/ Close \/ Noop \/ Expunge \/ Idle \/ Done \/ Logout

Server == SelectLoads \/ Greet \/ SyncLoads \/ LastComesFirst \/ Announce \/ LoadFails \/ Wake \/ Tick

Next == Others \/ Client \/ Server

Spec == Init /\ [][Next]_vars

\* Statements are answered and the poll timer of IDLE fires.
FairSpec == Spec /\ WF_vars(Server)

----------------------------------------------------------------------------
(***************************************************************************)
(* Properties.                                                             *)
(***************************************************************************)

\* Positions of the view the client was told to be gone, and what it calls the others.
Gone == IF cmd = "announce" THEN Departed(view, fresh) \ leaving ELSE {}
Position(i) == i - Cardinality({k \in Gone : k < i})

\* After every response the client's list is the session's view without what it was told
\* to be gone, and agrees on the UID and the flag of every sequence number the client
\* knows something of: a command by sequence number reaches the message it is meant for.
SequenceNumbersAgree ==
  /\ Len(client) = Len(view) - Cardinality(Gone)
  /\ \A i \in (1..Len(view)) \ Gone :
       /\ client[Position(i)].uid \in {0, view[i].uid}
       /\ client[Position(i)].del \in {"?", Told(view[i]).del}

\* The view, as it would be loaded now.
Behind ==
  /\ mailbox # "gone"
  /\ {<<view[i].uid, view[i].msg, view[i].del>> : i \in 1..Len(view)}
       # {<<uid[m], m, m \in flagged>> : m \in members}

\* "Events are latched: one that arrives while nobody is waiting still wakes the next
\* wait()" (hub-listener.ts): an IDLE that waits behind the folder is about to be woken,
\* unless no event told of the change, the stream lost it, the load failed, or SELECT
\* took it.
LatchWakes ==
  cmd = "idle" /\ selected /\ Behind => dirty \/ frames # {} \/ missed

\* Whatever events were lost, an IDLE catches up with the folder or ends.
IdleCatchesUp ==
  (cmd = "idle" /\ selected /\ Behind) ~> (~Behind \/ cmd \notin {"idle", "load", "announce"})
=============================================================================
