---------------------------- MODULE MatterService ----------------------------
(***************************************************************************)
(* The requests that change one matter, each served by a goroutine of its  *)
(* own.  A service method is a sequence of SQL statements, and only        *)
(* SetStatus runs them in a transaction: every other method reads the row, *)
(* checks the caller against what it read, and writes later, on a          *)
(* connection of its own.  Each statement is a step here, so that any two  *)
(* methods interleave between their statements as they do in the database. *)
(***************************************************************************)
EXTENDS Integers, Sequences, FiniteSets, Functions

CONSTANTS
    Request,            \* requests in flight, one operation each
    User,               \* uids
    Creator,            \* the uid in creator_id
    Caller,             \* callerUIDs of the requests: sequences of uids, actor first
    BotCaller,          \* the callers that carry no IM token
    Channel,            \* IM channels
    Value,              \* values of the editable columns
    Initial,            \* the value the columns are created with
    Field,              \* the editable columns in play
    InitialAssignee,    \* assignees the matter is created with
    Kind,               \* the operations in play
    None

Columns == {"title", "description", "deadline", "remind_at"}
Kinds == {"edit", "status", "delete", "add", "remove", "link", "unlink"}

ASSUME ServiceAssumption ==
    /\ Creator \in User
    /\ Caller \subseteq {c \in Seq(User) : c # <<>>}
    /\ BotCaller \subseteq Caller
    /\ Field \subseteq Columns
    /\ Initial \in Value
    /\ InitialAssignee \subseteq User
    /\ Kind \subseteq Kinds
    /\ None \notin Request

VARIABLES
    row,        \* the committed matters row
    lock,       \* the request that holds the row's exclusive lock, or None
    assignees,  \* matter_assignees: the users
    channels,   \* matter_channels: the linked channels
    activity,   \* matter_activities, in the order of the inserts
    pc,         \* the next statement of each request
    op,         \* what each request asks for
    snap,       \* the row a request last loaded
    todo,       \* the activities a request has still to record
    wrote,      \* has the request's own mutation changed the database?
    outcome,    \* what the request answered
    history     \* the committed status steps (ghost)

db      == <<row, lock, assignees, channels>>
local   == <<op, snap, todo>>
vars    == <<db, activity, pc, local, wrote, outcome, history>>

Life == INSTANCE MatterLifecycle

UIDs(c)      == Range(c)
IsCreator(c) == Creator \in UIDs(c)
Status       == {"open", "done", "archived"}
Edit         == UNION {[S -> Value] : S \in SUBSET Field}

CallerOf(r)  == op[r].caller
ByCreator(r) == IsCreator(CallerOf(r))

Goto(r, label)  == /\ pc' = [pc EXCEPT ![r] = label]
                   /\ UNCHANGED outcome
Finish(r, o)    == /\ pc' = [pc EXCEPT ![r] = "done"]
                   /\ outcome' = [outcome EXCEPT ![r] = o]
Owe(r, list)    == todo' = [todo EXCEPT ![r] = list]
Wrote(r)        == wrote' = [wrote EXCEPT ![r] = TRUE]

Entry(r, action, from, to) == [req |-> r, action |-> action, from |-> from, to |-> to]

-----------------------------------------------------------------------------
(* The statements of the repositories.                                     *)

\* A plain SELECT: it never waits for a lock and sees committed data only.
GetByID(r, found) ==
    /\ IF row.deleted THEN /\ Finish(r, "not_found")
                           /\ UNCHANGED snap
                      ELSE /\ snap' = [snap EXCEPT ![r] = row]
                           /\ found
    /\ UNCHANGED <<db, activity, op, todo, wrote, history>>

IsAssigneeAny(r) == UIDs(CallerOf(r)) \cap assignees # {}

\* UPDATE and the inserts of child rows need the matters row: they wait for a
\* transaction that holds it (the children through their foreign key).
\* Mutant: the statements do not wait for one another.
NoRowLock == TRUE

RowFree == lock = None

\* The whole editable part of the row is written, from the snapshot with the
\* request's fields laid over it.
MergedFields(r) ==
    [f \in Field |-> IF f \in DOMAIN op[r].set THEN op[r].set[f] ELSE snap[r].fields[f]]

\* One deferred activity per audited column whose new value differs from the
\* snapshot; the description's entry carries no old value.
Deferred(r, f, action, from) ==
    IF f \in DOMAIN op[r].set /\ op[r].set[f] # snap[r].fields[f]
    THEN <<Entry(r, action, from, op[r].set[f])>> ELSE <<>>

EditEntries(r) ==
    Deferred(r, "title", "title_changed", snap[r].fields["title"]) \o
    Deferred(r, "description", "description_changed", None) \o
    Deferred(r, "deadline", "deadline_changed", snap[r].fields["deadline"])

\* The write is over: record what is owed, or answer.
Record(r, entries) ==
    /\ Owe(r, entries)
    /\ IF entries = <<>> THEN Finish(r, "ok") ELSE Goto(r, "record")

\* MySQL counts the rows an UPDATE changes: an UPDATE that repeats the values of
\* the row, within the millisecond of the row's last write, counts none.
Unnoticed(r) == MergedFields(r) = row.fields /\ \E q \in Request \ {r} : wrote[q]

\* Mutant: the UPDATE lacks deleted_at IS NULL.
UpdateOfAnyRow(r) ==
    /\ RowFree
    /\ row' = [row EXCEPT !.fields = MergedFields(r)]
    /\ Wrote(r)
    /\ Record(r, EditEntries(r))
    /\ UNCHANGED <<lock, assignees, channels, activity, op, snap, history>>

\* Mutant: the number of rows the UPDATE changed is not looked at.
UpdateWithoutRowCount(r) ==
    /\ RowFree
    /\ IF row.deleted
       THEN UNCHANGED <<row, wrote>>
       ELSE /\ row' = [row EXCEPT !.fields = MergedFields(r)]
            /\ Wrote(r)
    /\ Record(r, EditEntries(r))
    /\ UNCHANGED <<lock, assignees, channels, activity, op, snap, history>>

Update(r) ==
    /\ RowFree
    /\ \/ /\ row.deleted \/ Unnoticed(r)
          /\ Finish(r, "not_found")
          /\ UNCHANGED <<row, todo, wrote>>
       \/ /\ ~row.deleted
          /\ row' = [row EXCEPT !.fields = MergedFields(r)]
          /\ Wrote(r)
          /\ Record(r, EditEntries(r))
    /\ UNCHANGED <<lock, assignees, channels, activity, op, snap, history>>

RepoSoftDelete(r) ==
    /\ RowFree
    /\ IF row.deleted
       THEN /\ Finish(r, "not_found")
            /\ UNCHANGED <<row, wrote, history>>
       ELSE /\ row' = [row EXCEPT !.deleted = TRUE]
            /\ history' = Append(history, [req |-> r, caller |-> CallerOf(r),
                                           from |-> row.status, to |-> "deleted"])
            /\ Wrote(r)
            /\ Finish(r, "ok")
    /\ UNCHANGED <<lock, assignees, channels, activity, local>>

\* uk_matter_user refuses a second row for the same user.
AssigneeCreate(r, u) ==
    /\ RowFree
    /\ IF u \in assignees
       THEN /\ Finish(r, "conflict")
            /\ UNCHANGED <<assignees, todo, wrote>>
       ELSE /\ assignees' = assignees \cup {u}
            /\ Wrote(r)
            /\ Record(r, <<Entry(r, "assignee_added", None, u)>>)
    /\ UNCHANGED <<row, lock, channels, activity, op, snap, history>>

\* Mutant: deleting no row is reported as success.
DeleteWithoutRowCount(r, u) ==
    /\ assignees' = assignees \ {u}
    /\ Wrote(r)
    /\ Record(r, <<Entry(r, "assignee_removed", u, None)>>)
    /\ UNCHANGED <<row, lock, channels, activity, op, snap, history>>

AssigneeDelete(r, u) ==
    /\ IF u \notin assignees
       THEN /\ Finish(r, "not_found")
            /\ UNCHANGED <<assignees, todo, wrote>>
       ELSE /\ assignees' = assignees \ {u}
            /\ Wrote(r)
            /\ Record(r, <<Entry(r, "assignee_removed", u, None)>>)
    /\ UNCHANGED <<row, lock, channels, activity, op, snap, history>>

\* A link that exists is left alone and reported as success.
ChannelCreate(r, c) ==
    /\ RowFree
    /\ channels' = channels \cup {c}
    /\ wrote' = [wrote EXCEPT ![r] = c \notin channels]
    /\ Record(r, <<Entry(r, "channel_linked", None, c)>>)
    /\ UNCHANGED <<row, lock, assignees, activity, op, snap, history>>

\* The number of deleted rows is not looked at.
ChannelDelete(r, c) ==
    /\ channels' = channels \ {c}
    /\ wrote' = [wrote EXCEPT ![r] = c \in channels]
    /\ Record(r, <<Entry(r, "channel_unlinked", c, None)>>)
    /\ UNCHANGED <<row, lock, assignees, activity, op, snap, history>>

\* An activity is inserted best-effort: a failed insert is logged and the
\* method goes on.
RecordActivity(r, next) ==
    /\ pc[r] = "record"
    /\ \/ /\ RowFree
          /\ activity' = Append(activity, Head(todo[r]))
       \/ UNCHANGED activity
    /\ Owe(r, Tail(todo[r]))
    /\ IF Len(todo[r]) > 1 THEN Goto(r, "record") ELSE next
    /\ UNCHANGED <<db, op, snap, wrote, history>>

Forbid(r) == /\ Finish(r, "forbidden")
             /\ UNCHANGED <<db, activity, local, wrote, history>>

Proceed(r, label) == /\ Goto(r, label)
                     /\ UNCHANGED <<db, activity, local, wrote, history>>

\* SELECT the row, then decide on the creator alone.
LoadForCreator(r, allowed) ==
    /\ pc[r] = "load"
    /\ GetByID(r, IF allowed THEN Goto(r, "write") ELSE Finish(r, "forbidden"))

\* SELECT the row, then, in a statement of its own, the caller's assignments.
LoadForMember(r) == pc[r] = "load" /\ GetByID(r, Goto(r, "authz"))

AuthorizeMember(r) ==
    /\ pc[r] = "authz"
    /\ IF ByCreator(r) \/ IsAssigneeAny(r) THEN Proceed(r, "write") ELSE Forbid(r)
-----------------------------------------------------------------------------
(* The service methods, behind their handlers.                             *)

\* The request arrives and is bound to its operation.
Arrive(r, o, label) ==
    /\ pc[r] = "idle"
    /\ o.kind \in Kind
    /\ op' = [op EXCEPT ![r] = o]
    /\ Goto(r, label)
    /\ UNCHANGED <<db, activity, snap, todo, wrote, history>>

\* PUT /matters/:id
UpdateMatter(r) ==
    \/ \E c \in Caller, e \in Edit :
         Arrive(r, [kind |-> "edit", caller |-> c, set |-> e], "load")
    \/ /\ op[r].kind = "edit"
       /\ \/ LoadForMember(r)
          \/ AuthorizeMember(r)
          \/ /\ pc[r] = "write"
             /\ Update(r)
          \/ \* a deadline or remind_at that is no RFC 3339 date
             /\ pc[r] = "write"
             /\ DOMAIN op[r].set \cap {"deadline", "remind_at"} # {}
             /\ Finish(r, "invalid")
             /\ UNCHANGED <<db, activity, local, wrote, history>>

\* The target is checked before any statement; an archiving request is checked
\* once more, against the unlocked row, before the transaction.
PreCheck(r) ==
    /\ pc[r] = "precheck"
    /\ GetByID(r, IF ByCreator(r) THEN Goto(r, "lock") ELSE Finish(r, "forbidden"))

\* Mutant: the transaction reads the row without FOR UPDATE.
PlainSelect(r) ==
    /\ pc[r] = "lock"
    /\ GetByID(r, Goto(r, "decide"))

\* SELECT ... FOR UPDATE; a missing row ends the transaction.
GetByIDForUpdate(r) ==
    /\ pc[r] = "lock"
    /\ RowFree
    /\ IF row.deleted
       THEN /\ Finish(r, "not_found")
            /\ UNCHANGED <<lock, snap>>
       ELSE /\ lock' = r
            /\ snap' = [snap EXCEPT ![r] = row]
            /\ Goto(r, "decide")
    /\ UNCHANGED <<row, assignees, channels, activity, op, todo, wrote, history>>

\* Mutant: only the target is looked at, as in the pre-check.
TargetArchived(r) == op[r].target = "archived"

InvolvesArchived(r) == "archived" \in {snap[r].status, op[r].target}

\* Mutant: an early return that forgets the rollback.
KeepLock(r, next) ==
    /\ next
    /\ UNCHANGED <<db, activity, local, wrote, history>>

\* End the transaction without a change.
Release(r, next) ==
    /\ lock' = None
    /\ next
    /\ UNCHANGED <<row, assignees, channels, activity, local, wrote, history>>

\* The decision inside the transaction.  An error of the assignee query is
\* ignored: the caller then counts as no assignee.
Decide(r) ==
    /\ pc[r] = "decide"
    /\ \E queryOK \in BOOLEAN :
         LET may == \/ ByCreator(r)
                    \/ ~InvolvesArchived(r) /\ queryOK /\ IsAssigneeAny(r)
         IN  \/ /\ ~may
                /\ Release(r, Finish(r, "forbidden"))
             \/ /\ may /\ snap[r].status = op[r].target
                /\ Release(r, Goto(r, "reply"))
             \/ /\ may /\ snap[r].status = "archived" /\ op[r].target = "done"
                /\ Release(r, Finish(r, "invalid"))
             \/ /\ may /\ snap[r].status # op[r].target
                /\ ~(snap[r].status = "archived" /\ op[r].target = "done")
                /\ Proceed(r, "commit")

\* Mutant: the transaction is never committed.
NeverCommit(r) ==
    /\ pc[r] = "commit"
    /\ lock' = None
    /\ Owe(r, <<Entry(r, "status_changed", snap[r].status, op[r].target)>>)
    /\ Goto(r, "record")
    /\ UNCHANGED <<row, assignees, channels, activity, op, snap, wrote, history>>

\* UPDATE the status and commit; the activity is recorded after the commit.
UpdateStatus(r) ==
    /\ pc[r] = "commit"
    /\ row' = [row EXCEPT !.status = op[r].target]
    /\ history' = Append(history, [req |-> r, caller |-> CallerOf(r),
                                   from |-> row.status, to |-> op[r].target])
    /\ lock' = None
    /\ Wrote(r)
    /\ Owe(r, <<Entry(r, "status_changed", snap[r].status, op[r].target)>>)
    /\ Goto(r, "record")
    /\ UNCHANGED <<assignees, channels, activity, op, snap>>

\* Mutant: the answer is read as GetMatter does, for those who may see the matter.
ReplyThroughAccess(r) ==
    /\ pc[r] = "reply"
    /\ GetByID(r, Finish(r, IF ByCreator(r) \/ IsAssigneeAny(r) THEN "ok" ELSE "forbidden"))

\* The answer is built from a fresh read of the row.
Reply(r) == pc[r] = "reply" /\ GetByID(r, Finish(r, "ok"))

\* PUT /matters/:id/status
SetStatus(r) ==
    \/ \E c \in Caller, s \in Status :
         Arrive(r, [kind |-> "status", caller |-> c, target |-> s],
                IF s = "archived" THEN "precheck" ELSE "lock")
    \/ /\ op[r].kind = "status"
       /\ \/ PreCheck(r)
          \/ GetByIDForUpdate(r)
          \/ Decide(r)
          \/ UpdateStatus(r)
          \/ RecordActivity(r, Goto(r, "reply"))
          \/ Reply(r)

\* DELETE /matters/:id
SoftDelete(r) ==
    \/ \E c \in Caller : Arrive(r, [kind |-> "delete", caller |-> c], "load")
    \/ /\ op[r].kind = "delete"
       /\ \/ LoadForCreator(r, ByCreator(r))
          \/ pc[r] = "write" /\ RepoSoftDelete(r)

\* POST /matters/:id/assignees
AddAssignee(r) ==
    \/ \E c \in Caller, u \in User :
         Arrive(r, [kind |-> "add", caller |-> c, user |-> u], "load")
    \/ /\ op[r].kind = "add"
       /\ \/ LoadForMember(r)
          \/ AuthorizeMember(r)
          \/ pc[r] = "write" /\ AssigneeCreate(r, op[r].user)

\* DELETE /matters/:id/assignees/:uid: the creator, or an assignee for itself.
RemoveAssignee(r) ==
    \/ \E c \in Caller, u \in User :
         Arrive(r, [kind |-> "remove", caller |-> c, user |-> u], "load")
    \/ /\ op[r].kind = "remove"
       /\ \/ LoadForCreator(r, ByCreator(r) \/ op[r].user \in UIDs(CallerOf(r)))
          \/ pc[r] = "write" /\ AssigneeDelete(r, op[r].user)

\* POST /matters/:id/channels: bots may not link, users must be in the channel,
\* which only the IM server knows.
ChannelGate(r) ==
    /\ pc[r] = "gate"
    /\ \/ CallerOf(r) \notin BotCaller /\ Proceed(r, "load")
       \/ Forbid(r)

LinkChannel(r) ==
    \/ \E c \in Caller, ch \in Channel :
         Arrive(r, [kind |-> "link", caller |-> c, channel |-> ch], "gate")
    \/ /\ op[r].kind = "link"
       /\ \/ ChannelGate(r)
          \/ LoadForMember(r)
          \/ AuthorizeMember(r)
          \/ pc[r] = "write" /\ ChannelCreate(r, op[r].channel)

\* DELETE /matters/:id/channels/:channel_id
UnlinkChannel(r) ==
    \/ \E c \in Caller, ch \in Channel :
         Arrive(r, [kind |-> "unlink", caller |-> c, channel |-> ch], "load")
    \/ /\ op[r].kind = "unlink"
       /\ \/ LoadForCreator(r, ByCreator(r))
          \/ pc[r] = "write" /\ ChannelDelete(r, op[r].channel)

\* A statement fails, the request times out, or its goroutine dies: what was
\* committed stays, an open transaction is rolled back, nothing more is done.
Fail(r) ==
    /\ pc[r] \notin {"idle", "done"}
    /\ lock' = IF lock = r THEN None ELSE lock
    /\ Finish(r, "internal")
    /\ UNCHANGED <<row, assignees, channels, activity, local, wrote, history>>

\* RecordActivity of the methods that answer right after their activities.
RecordAndAnswer(r) ==
    op[r].kind \notin {"none", "status"} /\ RecordActivity(r, Finish(r, "ok"))

\* Every request is answered; the server waits for the next one.
Quiet == (\A r \in Request : pc[r] = "done") /\ UNCHANGED vars
-----------------------------------------------------------------------------
Init ==
    /\ row = [status |-> "open", deleted |-> FALSE, fields |-> [f \in Field |-> Initial]]
    /\ lock = None
    /\ assignees = InitialAssignee
    /\ channels = {}
    /\ activity = <<>>
    /\ pc = [r \in Request |-> "idle"]
    /\ op = [r \in Request |-> [kind |-> "none"]]
    /\ snap = [r \in Request |-> row]
    /\ todo = [r \in Request |-> <<>>]
    /\ wrote = [r \in Request |-> FALSE]
    /\ outcome = [r \in Request |-> "none"]
    /\ history = <<>>

Serve(r) ==
    \/ UpdateMatter(r) \/ SetStatus(r) \/ SoftDelete(r)
    \/ AddAssignee(r) \/ RemoveAssignee(r)
    \/ LinkChannel(r) \/ UnlinkChannel(r)
    \/ RecordAndAnswer(r)

Next == (\E r \in Request : Serve(r) \/ Fail(r)) \/ Quiet

Spec == Init /\ [][Next]_vars

\* The Go scheduler runs every goroutine and the database answers every
\* statement, with a result or an error, or the request's deadline fires.
FairSpec == Spec /\ \A r \in Request : WF_vars(pc[r] # "idle" /\ Serve(r))
-----------------------------------------------------------------------------
Row           == [status : Status, deleted : BOOLEAN, fields : [Field -> Value]]
Subject       == Value \cup Status \cup User \cup Channel \cup {None}
Action        == {"title_changed", "description_changed", "deadline_changed",
                  "status_changed", "assignee_added", "assignee_removed",
                  "channel_linked", "channel_unlinked"}
ActivityEntry == [req : Request, action : Action, from : Subject, to : Subject]
HistoryEntry  == [req : Request, caller : Caller, from : Status,
                  to : Status \cup {"deleted"}]
Label         == {"idle", "gate", "load", "authz", "write", "precheck", "lock",
                  "decide", "commit", "record", "reply", "done"}
Outcome       == {"none", "ok", "forbidden", "not_found", "conflict", "invalid",
                  "internal"}

Operation ==
    [kind : {"none"}] \cup
    [kind : {"edit"}, caller : Caller, set : Edit] \cup
    [kind : {"status"}, caller : Caller, target : Status] \cup
    [kind : {"delete"}, caller : Caller] \cup
    [kind : {"add", "remove"}, caller : Caller, user : User] \cup
    [kind : {"link", "unlink"}, caller : Caller, channel : Channel]

\* The types of the tables and of the requests' local state; a request that has
\* arrived has an operation.
TypeOK ==
    /\ row \in Row
    /\ lock \in Request \cup {None}
    /\ assignees \subseteq User
    /\ channels \subseteq Channel
    /\ activity \in Seq(ActivityEntry)
    /\ pc \in [Request -> Label]
    /\ op \in [Request -> Operation]
    /\ \A r \in Request : pc[r] # "idle" => op[r].kind \in Kind
    /\ snap \in [Request -> Row]
    /\ todo \in [Request -> Seq(ActivityEntry)]
    /\ wrote \in [Request -> BOOLEAN]
    /\ outcome \in [Request -> Outcome]
    /\ history \in Seq(HistoryEntry)

\* The row lock of SetStatus does its work: between the SELECT ... FOR UPDATE and
\* the commit, nobody else changes the status the transaction decided on or
\* deletes the row, although edits and deletes take no part in the transaction.
LockedRowIsStable ==
    lock # None => /\ pc[lock] \in {"decide", "commit"}
                   /\ ~row.deleted
                   /\ snap[lock].status = row.status

\* SetStatus and SoftDelete, cut into statements and interleaved with everything
\* else, still move the matter as the lifecycle specification allows: archiving
\* and unarchiving by the creator only, never from the archive to done, nothing
\* after deletion, each request at most once.
ImplementsLifecycle == Life!LifecycleSpec

\* A deleted row is final: an edit, a transition or a second delete whose read
\* preceded the deletion does not reach it (the deleted_at IS NULL of each
\* UPDATE).
DeletedIsFrozen == [][row.deleted => row' = row]_row

\* A status_changed activity, recorded after the transaction and in any order,
\* reports a step that was committed, with the states it moved between, and
\* reports it once.
StatusTrail ==
    LET reports == {i \in DOMAIN activity : activity[i].action = "status_changed"}
    IN  /\ \A i \in reports : \E k \in DOMAIN history :
              /\ history[k].req = activity[i].req
              /\ history[k].from = activity[i].from
              /\ history[k].to = activity[i].to
        /\ \A i, j \in reports : activity[i].req = activity[j].req => i = j

\* A transition answered with success shows the target, or a status the matter
\* moved to when somebody else left the target behind.  One that has been committed
\* is never answered with a refusal, although roles change before the answer is
\* read; what it may be told is an error, or that there is no matter any more.
ReplyIsExplained ==
    \A r \in Request : op[r].kind = "status" =>
        /\ outcome[r] = "ok" =>
             \/ snap[r].status = op[r].target
             \/ \E i, j \in DOMAIN history :
                    /\ i <= j
                    /\ history[i].req # r /\ history[i].from = op[r].target
                    /\ history[j].to = snap[r].status
        /\ wrote[r] /\ outcome[r] # "none" =>
             \/ outcome[r] \in {"ok", "internal"}
             \/ outcome[r] = "not_found" /\ row.deleted

\* Activities are deferred until their write succeeded: an edit or a change of
\* assignees that failed, or lost the race against a delete or a duplicate, left
\* no activity.  (Linking and unlinking record one even when nothing changed.)
NoPhantomActivity ==
    \A i \in DOMAIN activity :
        op[activity[i].req].kind \notin {"link", "unlink"} => wrote[activity[i].req]

\* Concurrent adds and removes of one assignee are all accounted for: the user is
\* assigned exactly when the successful adds outnumber the successful removes,
\* counting the initial assignment as an add.
AssigneeAccounting ==
    \A u \in User :
        LET done(kind) == Cardinality({r \in Request :
                              wrote[r] /\ op[r].kind = kind /\ op[r].user = u})
            present(s) == IF u \in s THEN 1 ELSE 0
        IN  present(InitialAssignee) + done("add") - done("remove") = present(assignees)

\* Every request that arrived is answered: no path through a transaction leaves
\* the row locked for the others.
Answered == \A r \in Request : pc[r] # "idle" ~> pc[r] = "done"

\* README.md says updates give "a complete audit trail": a status change that has
\* been committed by a request that is over has its activity.
CompleteAuditTrail ==
    \A r \in Request :
        (pc[r] = "done" /\ op[r].kind = "status" /\ wrote[r]) =>
            \E i \in DOMAIN activity : activity[i].req = r

\* update_matter_test.go says a field an edit leaves out keeps its value.
KeepsUntouchedFields ==
    [][\A r \in Request :
         (op[r].kind = "edit" /\ ~wrote[r] /\ wrote'[r]) =>
             \A f \in Field \ DOMAIN op[r].set : row'.fields[f] = row.fields[f]]_vars
=============================================================================
