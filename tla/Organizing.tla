------------------------------ MODULE Organizing ------------------------------
(***************************************************************************)
(* Labels, folders and rules (apps/worker/src/api/labels.ts, folders.ts,   *)
(* rules.ts) and what a matching rule does to a mail that was recorded      *)
(* (mail/receive.ts applyRuleActions).  Labels and rules are the           *)
(* mailbox's; folders, and what is filed in them, are the user's.          *)
(*                                                                         *)
(* A handler loads what it was given and asks for the permission in one    *)
(* step and runs its statement in another: what it saw may be gone by then.*)
(***************************************************************************)
EXTENDS Naturals, FiniteSets

CONSTANTS
    Null,
    Databases \* what the tables may hold to begin with

VARIABLES
    records, \* the rows of all tables: records of the table, the columns and the id, if any
    origin,  \* history: the rows there were at first
    deleted  \* history: the rows that were deleted for themselves

dbVars == <<records, origin, deleted>>

Cascade(to) == [to |-> to, onDelete |-> "cascade"]
SetNull(to) == [to |-> to, onDelete |-> "set null"]

\* The columns, or the tables, of two together; what the first has comes first.
With(f, g) == [x \in DOMAIN f \cup DOMAIN g |-> IF x \in DOMAIN f THEN f[x] ELSE g[x]]

\* keys: the sets of columns that are unique.  refs: column -> the row it refers to.
Table(keys, refs) == [keys |-> keys, refs |-> refs]
None == <<>>
OfUser == [userId |-> Cascade("user")]
OfMailbox == [mailboxId |-> Cascade("mailbox")]
OfMember == [userId |-> Cascade("user"), mailboxId |-> Cascade("mailbox")]
Once == {{"mailboxId", "userId"}}

AuthTables == [
    user |-> Table({{"email"}}, None),
    session |-> Table({{"token"}}, OfUser),
    account |-> Table({}, OfUser),
    twoFactor |-> Table({}, OfUser),
    passkey |-> Table({}, OfUser),
    userInvite |-> Table({{"token"}, {"email"}}, [invitedByUserId |-> Cascade("user")])]

MailboxTables == [
    domain |-> Table({{"name"}}, None),
    domainGrant |-> Table({{"domainId", "userId"}}, With(OfUser, [domainId |-> Cascade("domain")])),
    mailbox |-> Table({{"domainId", "localPart"}},
                      [domainId |-> Cascade("domain"), ownerUserId |-> Cascade("user")]),
    redirect |-> Table({{"domainId", "localPart"}},
                       [domainId |-> Cascade("domain"), targetMailboxId |-> Cascade("mailbox")]),
    mailboxMember |-> Table(Once, OfMember)]

ThreadTables == [
    contactKey |-> Table({{"mailboxId", "email"}}, OfMailbox),
    thread |-> Table({}, OfMailbox),
    message |-> Table({}, With(OfMailbox, [threadId |-> Cascade("thread")]))]

FilingTables == [
    attachment |-> Table({}, [messageId |-> Cascade("message")]),
    threadSummary |-> Table({{"threadId"}}, [threadId |-> Cascade("thread")]),
    mailboxSpamUsage |-> Table({{"mailboxId"}}, OfMailbox),
    mailboxAiUsage |-> Table({{"mailboxId"}}, OfMailbox),
    label |-> Table({{"mailboxId", "name"}}, OfMailbox),
    messageLabel |-> Table({{"messageId", "labelId"}},
                           [messageId |-> Cascade("message"), labelId |-> Cascade("label")]),
    folder |-> Table({{"userId", "name"}}, OfUser),
    threadFolder |-> Table({{"userId", "threadId"}},
        With(OfUser, [threadId |-> Cascade("thread"), folderId |-> Cascade("folder")]))]

WorkTables == [
    rule |-> Table({{"mailboxId", "name"}}, With(OfMailbox, [createdBy |-> Cascade("user")])),
    ruleSendLog |-> Table({}, With(OfMailbox, [ruleId |-> Cascade("rule")])),
    mailboxInvite |-> Table({{"mailboxId", "email"}},
                            With(OfMailbox, [invitedByUserId |-> Cascade("user")])),
    draft |-> Table({}, OfMember)]

NoticeTables == [
    pushSubscription |-> Table({{"endpoint"}}, OfUser),
    mailboxNotify |-> Table(Once, OfMember),
    blocklist |-> Table({{"type", "value"}}, [createdByUserId |-> SetNull("user")]),
    blockRequest |-> Table({}, [messageId |-> SetNull("message"), mailboxId |-> SetNull("mailbox"),
        requestedByUserId |-> Cascade("user"), reviewedByUserId |-> SetNull("user")]),
    reminder |-> Table({}, With(OfMember, [threadId |-> Cascade("thread"),
                                            messageId |-> SetNull("message")]))]

ImapTables == [
    shareToken |-> Table({}, With(OfMailbox, [createdByUserId |-> Cascade("user")])),
    appPassword |-> Table({}, OfMember),
    imapFolder |-> Table({{"userId", "mailboxId", "key"}}, With(OfMember, [folderId |-> Cascade("folder")])),
    imapUid |-> Table({{"imapFolderId", "uid"}, {"imapFolderId", "messageId"}},
        [imapFolderId |-> Cascade("imapFolder"), messageId |-> Cascade("message")])]

Tables == With(AuthTables, With(MailboxTables, With(ThreadTables, With(FilingTables,
          With(WorkTables, With(NoticeTables, ImapTables))))))

Refs(row) == Tables[row.table].refs
Of(table) == {row \in records : row.table = table}
There(table, id) == \E row \in records : row.table = table /\ row.id = id
The(table, id) == CHOOSE row \in Of(table) : row.id = id

\* The column of a row mentions that other row.
Mentions(row, column, other) == Refs(row)[column].to = other.table /\ row[column] = other.id

HangsFrom(row, other) ==
    \E c \in DOMAIN Refs(row) : Refs(row)[c].onDelete = "cascade" /\ Mentions(row, c, other)

\* SQLite follows the references until there is nothing left to delete.  A message of a
\* thread of a mailbox of a user has rows below it, and these have none: four steps do.
Below(db, some) == some \cup {row \in db : \E other \in some : HangsFrom(row, other)}
Cascaded(db, targets) == Below(db, Below(db, Below(db, Below(db, targets))))

Cleared(row, gone) ==
    [c \in DOMAIN row |->
        IF c \in DOMAIN Refs(row) /\ \E other \in gone : Mentions(row, c, other)
        THEN Null ELSE row[c]]

Without(db, gone) == {Cleared(row, gone) : row \in db \ gone}

DeleteRows(targets) ==
    /\ records' = Without(records, Cascaded(records, targets))
    /\ deleted' = deleted \cup targets
    /\ UNCHANGED origin

\* A foreign key that names nothing fails the statement, a null one does not.
Refers(row) == \A c \in DOMAIN Refs(row) : row[c] = Null \/ There(Refs(row)[c].to, row[c])

\* The address index leaves out mailboxes that are being deleted.
Indexed(row) == row.table = "mailbox" => row.pendingPurge # "delete"

Collide(row, other) ==
    /\ row.table = other.table /\ Indexed(row) /\ Indexed(other)
    /\ \E key \in Tables[row.table].keys : \A c \in key : row[c] = other[c]

----------------------------------------------------------------------------
\* What the handlers delete, where rows hang from it.

\* An admin deletes another user (api/users.ts).
DeleteUser(id) ==
    /\ There("user", id) /\ \E other \in Of("user") : other.id # id
    /\ DeleteRows({The("user", id)})

DeleteDomain(id) == There("domain", id) /\ DeleteRows({The("domain", id)})

\* The cron drops a mailbox once it has no threads left.
DropMailbox(id) ==
    /\ There("mailbox", id)
    /\ The("mailbox", id).pendingPurge = "delete"
    /\ \A th \in Of("thread") : th.mailboxId # id
    /\ DeleteRows({The("mailbox", id)})

DeleteThread(id) == There("thread", id) /\ DeleteRows({The("thread", id)})

\* The last message takes its thread along.
DeleteMessage(id) ==
    /\ There("message", id)
    /\ LET msg == The("message", id)
           rest == {m \in Of("message") : m.threadId = msg.threadId} \ {msg}
       IN  DeleteRows({msg} \cup IF rest = {} THEN {The("thread", msg.threadId)} ELSE {})

DeleteLabel(id) == There("label", id) /\ DeleteRows({The("label", id)})
DeleteFolder(id) == There("folder", id) /\ DeleteRows({The("folder", id)})
DeleteRule(id) == There("rule", id) /\ DeleteRows({The("rule", id)})

RemoveMember(seat) == DeleteRows({seat})

DeletesNext ==
    \/ \E seat \in Of("mailboxMember") : RemoveMember(seat)
    \/ \E id \in {row.id : row \in {r \in records : "id" \in DOMAIN r}} :
        \/ DeleteUser(id) \/ DeleteDomain(id) \/ DropMailbox(id)
        \/ DeleteThread(id) \/ DeleteMessage(id)
        \/ DeleteLabel(id) \/ DeleteFolder(id) \/ DeleteRule(id)

----------------------------------------------------------------------------
\* No row refers to one that is gone, whatever was deleted and in which order.
NothingDangles == \A row \in records : Refers(row)

\* schema.ts: a delete takes what hangs below it, through however many references, and
\* nothing else; what only mentions it stays and forgets it ("the block survives", "a
\* request stays reviewable after its message/mailbox is gone").  Several deletes, in
\* whichever order, do what one of all their rows would have done.
DeletesReachBelow == records = Without(origin, Cascaded(origin, origin \cap deleted))

------------------------------------------------------------------------------

CONSTANTS
    Desks,    \* handlers that may overlap
    Titles,   \* what labels, folders and rules may be called
    NewIds,   \* bound: the ids that are given out (they are random: never twice)
    MaxWork   \* bound: handlers that are run

ASSUME OrganizingAssumption == Null \notin NewIds

VARIABLES
    desks, \* handler -> the statement it is about to run, or Idle
    given, \* the ids given out
    work   \* handlers that were run

organizingVars == <<dbVars, desks, given, work>>

AtDesk == [do |-> "nothing"]

Perms(u, m) ==
    IF \E mb \in Of("mailbox") : mb.id = m /\ mb.ownerUserId = u
    THEN {"read", "write", "manage"}
    ELSE UNION {s.perms : s \in {x \in Of("mailboxMember") : x.mailboxId = m /\ x.userId = u}}

\* accessibleMailboxIds: owned or shared, whatever the bits.
Accessible(u) == {mb.id : mb \in {x \in Of("mailbox") :
    x.ownerUserId = u \/ \E s \in Of("mailboxMember") : s.mailboxId = x.id /\ s.userId = u}}

(***************************************************************************)
(* The statements.                                                         *)
(***************************************************************************)
Start(d, statement) ==
    /\ desks[d] = AtDesk /\ work < MaxWork
    /\ desks' = [desks EXCEPT ![d] = statement]
    /\ work' = work + 1
    /\ UNCHANGED dbVars

StartNew(d, id, statement) ==
    id \in NewIds \ given /\ given' = given \cup {id} /\ Start(d, statement)

Plain(d, statement) == Start(d, statement) /\ UNCHANGED given

\* onConflict: "refuse" it (wrapUnique), do "nothing", or "replace" what is there.
InsertRows(new, onConflict) == [do |-> "insert", new |-> new, onConflict |-> onConflict]
UpdateRows(table, id, patch) == [do |-> "update", table |-> table, id |-> id, patch |-> patch]
DropRows(table, where) == [do |-> "delete", table |-> table, where |-> where]

Clashing(new) == {row \in records : \E other \in new : Collide(row, other)}

\* One statement: all of it or, where a foreign key or a key fails, none.
Inserted(new, onConflict) ==
    IF \E row \in new : ~Refers(row) THEN records
    ELSE CASE onConflict = "refuse" -> IF Clashing(new) = {} THEN records \cup new ELSE records
           [] onConflict = "nothing" ->
                records \cup {row \in new : \A other \in records : ~Collide(row, other)}
           [] onConflict = "replace" -> (records \ Clashing(new)) \cup new

Updated(table, id, patch) ==
    LET now == {row \in Of(table) : row.id = id}
        new == {With(patch, row) : row \in now}
    IN  IF \E row \in new, other \in records \ now : Collide(row, other)
        THEN records ELSE (records \ now) \cup new

Matching(table, where) == {row \in Of(table) : \A c \in DOMAIN where : row[c] \in where[c]}

Run(d) ==
    /\ desks[d] # AtDesk
    /\ desks' = [desks EXCEPT ![d] = AtDesk]
    /\ LET s == desks[d]
       IN  records' = CASE s.do = "insert" -> Inserted(s.new, s.onConflict)
                     [] s.do = "update" -> Updated(s.table, s.id, s.patch)
                     [] s.do = "delete" -> Without(records, Cascaded(records, Matching(s.table, s.where)))
    /\ UNCHANGED <<origin, deleted, given, work>>

(***************************************************************************)
(* labels.ts                                                               *)
(***************************************************************************)
LabelRow(id, m, name) == [table |-> "label", id |-> id, mailboxId |-> m, name |-> name]

CreateLabel(d, u, m, name, id) ==
    /\ "write" \in Perms(u, m)
    /\ StartNew(d, id, InsertRows({LabelRow(id, m, name)}, "refuse"))

\* Without wrapUnique: a name that is taken is an error all the same.
RenameLabel(d, u, label, name) ==
    /\ "write" \in Perms(u, label.mailboxId)
    /\ Plain(d, UpdateRows("label", label.id, [name |-> name]))

RemoveLabel(d, u, label) ==
    /\ "write" \in Perms(u, label.mailboxId)
    /\ Plain(d, DropRows("label", [id |-> {label.id}]))

Stuck(label, ids) == {[table |-> "messageLabel", messageId |-> id, labelId |-> label.id] : id \in ids}

PutOrTake(d, label, ids) ==
    \/ Plain(d, InsertRows(Stuck(label, ids), "nothing"))
    \/ Plain(d, DropRows("messageLabel", [messageId |-> ids, labelId |-> {label.id}]))

\* loadLabelAndMessage
BelongTogether(label, msg) == msg.mailboxId = label.mailboxId

LabelMessage(d, u, label, msg) ==
    /\ BelongTogether(label, msg)
    /\ "write" \in Perms(u, msg.mailboxId)
    /\ PutOrTake(d, label, {msg.id})

\* loadLabelAndThread: of the thread, what is in the label's mailbox.
LabelThread(d, u, label, th) ==
    LET ids == {msg.id : msg \in {x \in Of("message") :
                    x.threadId = th.id /\ x.mailboxId = label.mailboxId}}
    IN  /\ "write" \in Perms(u, label.mailboxId)
        /\ ids # {} /\ PutOrTake(d, label, ids)

\* What /by-messages tells a user of any messages at all: who may read the label's
\* mailbox is told.
LabelsByMessages(u) ==
    {row \in Of("messageLabel") : "read" \in Perms(u, The("label", row.labelId).mailboxId)}

\* /by-threads: a label once for a thread, whichever of its messages have it.
LabelsByThreads(u) ==
    {[threadId |-> The("message", row.messageId).threadId, labelId |-> row.labelId] :
        row \in LabelsByMessages(u)}

(***************************************************************************)
(* folders.ts                                                              *)
(***************************************************************************)
CreateFolder(d, u, name, id) ==
    StartNew(d, id, InsertRows({[table |-> "folder", id |-> id, userId |-> u, name |-> name]}, "refuse"))

\* requireOwnFolder is in every handler of one folder.
UpdateFolder(d, u, folder, name) ==
    folder.userId = u /\ Plain(d, UpdateRows("folder", folder.id, [name |-> name]))

RemoveFolder(d, u, folder) ==
    folder.userId = u /\ Plain(d, DropRows("folder", [id |-> {folder.id}]))

Filed(u, id, f) == [table |-> "threadFolder", userId |-> u, threadId |-> id, folderId |-> f]

FileThread(d, u, folder, th) ==
    /\ folder.userId = u
    /\ "read" \in Perms(u, th.mailboxId)
    /\ Plain(d, InsertRows({Filed(u, th.id, folder.id)}, "replace"))

Unfile(d, u, folder, id) ==
    /\ folder.userId = u
    /\ Plain(d, DropRows("threadFolder", [userId |-> {u}, threadId |-> {id}, folderId |-> {folder.id}]))

\* Listed, and counted beside the folder's name: two queries.
FolderThreads(u, f) == {row \in Of("threadFolder") :
    /\ row.folderId = f /\ row.userId = u
    /\ The("thread", row.threadId).mailboxId \in Accessible(u)
    /\ ~The("thread", row.threadId).hidden}
FolderTotal(u, f) == Cardinality({row \in {x \in Of("threadFolder") : x.userId = u} :
    \E th \in Of("thread") : /\ th.id = row.threadId /\ th.mailboxId \in Accessible(u)
                             /\ ~th.hidden /\ row.folderId = f})

(***************************************************************************)
(* rules.ts, and the labels and folders of a rule that matched.            *)
(***************************************************************************)
RuleRow(id, m, u, name, labels, folder) ==
    [table |-> "rule", id |-> id, mailboxId |-> m, createdBy |-> u, name |-> name,
     labels |-> labels, folder |-> folder, clonedFrom |-> m]   \* clonedFrom is history

\* Nothing checks the labels and the folder the actions name.
CreateRule(d, u, m, name, labels, folder, id) ==
    /\ "manage" \in Perms(u, m)
    /\ StartNew(d, id, InsertRows({RuleRow(id, m, u, name, labels, folder)}, "refuse"))

UpdateRule(d, u, rule, name, labels) ==
    /\ "manage" \in Perms(u, rule.mailboxId)
    /\ Plain(d, UpdateRows("rule", rule.id, [name |-> name, labels |-> labels, clonedFrom |-> rule.mailboxId]))

RemoveRule(d, u, rule) ==
    /\ "manage" \in Perms(u, rule.mailboxId)
    /\ Plain(d, DropRows("rule", [id |-> {rule.id}]))

\* Labels of the other mailbox that have the names; what has none is dropped.
RemapLabels(from, to, labels) ==
    LET names == {row.name : row \in {x \in Of("label") : x.mailboxId = from /\ x.id \in labels}}
    IN  {row.id : row \in {x \in Of("label") : x.mailboxId = to /\ x.name \in names}}

CloneRule(d, u, rule, to, name, id) ==
    /\ "read" \in Perms(u, rule.mailboxId) /\ "manage" \in Perms(u, to)
    /\ LET labels == IF to = rule.mailboxId THEN rule.labels
                     ELSE RemapLabels(rule.mailboxId, to, rule.labels)
           copy == RuleRow(id, to, u, name, labels, rule.folder)
       IN  StartNew(d, id, InsertRows({[copy EXCEPT !.clonedFrom = rule.mailboxId]}, "refuse"))

\* Mutant of ValidLabels: of whichever mailbox.
LabelsNamed(m, labels) == {row \in Of("label") : row.id \in labels}

\* "a since-deleted label/folder (or one that no longer belongs to the rule's creator) is
\* silently skipped"
ValidLabels(m, labels) == {row \in Of("label") : row.mailboxId = m /\ row.id \in labels}

ApplyRule(d, rule, msg) ==
    /\ msg.mailboxId = rule.mailboxId
    /\ \/ \E label \in ValidLabels(msg.mailboxId, rule.labels) :
             Plain(d, InsertRows(Stuck(label, {msg.id}), "nothing"))
       \/ \E folder \in Of("folder") :
             /\ folder.id = rule.folder /\ folder.userId = rule.createdBy
             /\ Plain(d, InsertRows({Filed(rule.createdBy, msg.threadId, folder.id)}, "replace"))

HandlersNext ==
    \/ \E d \in Desks : Run(d)
    \/ \E d \in Desks, user \in Of("user"), name \in Titles, mb \in Of("mailbox"), id \in NewIds :
         \/ CreateLabel(d, user.id, mb.id, name, id)
         \/ CreateFolder(d, user.id, name, id)
         \/ \E labels \in {{row.id : row \in Of("label")}}, folder \in Of("folder") :
              CreateRule(d, user.id, mb.id, name, labels, folder.id, id)
         \/ \E rule \in Of("rule") : CloneRule(d, user.id, rule, mb.id, name, id)
    \/ \E d \in Desks, user \in Of("user"), label \in Of("label") :
         \/ \E name \in Titles : RenameLabel(d, user.id, label, name)
         \/ RemoveLabel(d, user.id, label)
         \/ \E msg \in Of("message") : LabelMessage(d, user.id, label, msg)
         \/ \E th \in Of("thread") : LabelThread(d, user.id, label, th)
    \/ \E d \in Desks, user \in Of("user"), folder \in Of("folder") :
         \/ \E name \in Titles : UpdateFolder(d, user.id, folder, name)
         \/ RemoveFolder(d, user.id, folder)
         \/ \E th \in Of("thread") : \/ FileThread(d, user.id, folder, th)
                                     \/ Unfile(d, user.id, folder, th.id)
    \/ \E d \in Desks, rule \in Of("rule") :
         \/ \E user \in Of("user") : \/ RemoveRule(d, user.id, rule)
                                     \/ \E name \in Titles : UpdateRule(d, user.id, rule, name, {})
         \/ \E msg \in Of("message") : ApplyRule(d, rule, msg)

OrganizingNext == HandlersNext \/ (DeletesNext /\ UNCHANGED <<desks, given, work>>)

----------------------------------------------------------------------------
\* labels.ts, receive.ts: a label is on messages of its own mailbox, whichever of the
\* handlers put it there and whatever became of either meanwhile.
LabelsStayHome ==
    \A row \in Of("messageLabel") :
        The("label", row.labelId).mailboxId = The("message", row.messageId).mailboxId

\* labels.ts /by-messages, /by-threads: who is told of a label may read the thread, though only the
\* label's mailbox is asked about.
LabelsShownAreReadable ==
    \A user \in Of("user") : \A shown \in LabelsByThreads(user.id) :
        "read" \in Perms(user.id, The("thread", shown.threadId).mailboxId)

\* schema.ts: "one person's filing never affects another's": a thread is filed in one
\* folder of a user's, and in the user's own.
FilingIsPersonal ==
    \A row \in Of("threadFolder") :
        /\ The("folder", row.folderId).userId = row.userId
        /\ \A other \in Of("threadFolder") : Collide(row, other) => row = other

\* folders.ts: the number beside a folder is that of the threads it lists.
CountsMatchLists ==
    \A folder \in Of("folder") :
        FolderTotal(folder.userId, folder.id) = Cardinality(FolderThreads(folder.userId, folder.id))

\* rules.ts: a rule that was copied into another mailbox applies no label of the old one.
ClonesFit ==
    \A rule \in Of("rule") : rule.clonedFrom # rule.mailboxId =>
        \A label \in Of("label") : label.id \in rule.labels => label.mailboxId = rule.mailboxId

OrganizedApart ==
    /\ LabelsStayHome /\ LabelsShownAreReadable
    /\ FilingIsPersonal /\ CountsMatchLists /\ ClonesFit

\* schema.ts, labels.ts, folders.ts, rules.ts: what is deleted takes along what hangs from
\* it, nothing dangles, and nobody's organizing reaches another mailbox or user.
RecordsHold ==
    /\ NothingDangles /\ OrganizedApart
    /\ work = 0 => DeletesReachBelow

----------------------------------------------------------------------------
\* The tables that others refer to have ids.
Named == {"user", "domain", "mailbox", "folder", "thread", "message", "label", "rule", "imapFolder"}

\* A row has the columns of its table; but for imapFolder.folderId what cascades is NOT NULL.
IsRow(row) ==
    /\ row = [c \in DOMAIN row |-> row[c]]
    /\ "table" \in DOMAIN row /\ row.table \in DOMAIN Tables /\ DOMAIN Refs(row) \subseteq DOMAIN row
    /\ row.table \in Named => "id" \in DOMAIN row /\ row.id # Null
    /\ row.table # "imapFolder" =>
          \A c \in DOMAIN Refs(row) : Refs(row)[c].onDelete = "cascade" => row[c] # Null

IdsAreUnique ==
    \A row \in records : row.table \in Named =>
        {other \in Of(row.table) : other.id = row.id} = {row}

\* ingest.ts: a message joins a thread of its own mailbox.
ThreadsStayHome ==
    \A msg \in Of("message"), th \in Of("thread") :
        th.id = msg.threadId => th.mailboxId = msg.mailboxId

\* No id that is going to be drawn is known yet.
IdsToCome ==
    /\ \A row \in records : row.table \in Named => row.id \notin NewIds
    /\ \A rule \in Of("rule") : rule.labels \cap NewIds = {}

OrganizingInit ==
    /\ records \in Databases /\ origin = records /\ deleted = {}
    /\ \A row \in records : IsRow(row)
    /\ IdsAreUnique /\ ThreadsStayHome /\ IdsToCome
    /\ NothingDangles /\ OrganizedApart
    /\ desks = [d \in Desks |-> AtDesk] /\ given = {} /\ work = 0

OrganizingSpec == OrganizingInit /\ [][OrganizingNext]_organizingVars
=============================================================================
