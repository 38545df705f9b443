------------------------------ MODULE Timeline ------------------------------
(***************************************************************************)
(* The timeline of one matter.  A request writes an entry itself or has a  *)
(* language model write it from chat messages; the model answers many      *)
(* seconds after the request was checked, and in the meantime the channel  *)
(* may be unlinked, the matter deleted and the same files summarised by    *)
(* somebody else.  What the model wrote is stored by one transaction that  *)
(* links the channel if need be, inserts the entry and the cited files the *)
(* matter does not have yet, and makes the author a participant.           *)
(*                                                                         *)
(* The isolation level is the server's: a read in a transaction returns    *)
(* what is committed now or what was committed at its first read.  A       *)
(* request is a number, which stands for the random id of its entry; with  *)
(* the place of a file in the request's list it does so for that of the    *)
(* file's row.                                                             *)
(***************************************************************************)
EXTENDS Naturals, Sequences, FiniteSets

CONSTANTS
    Request,        \* requests in flight; numbers
    Caller,         \* records: actor, related uids, owner of a bot or None, token?
    User,
    Creator, Assignee,
    Channel,
    LinkedAtStart,  \* the channels linked when the requests begin
    File,           \* file URLs
    Sent,           \* the files of an entry that somebody writes himself: sequences
    Cited,          \* files of the messages a model cites: sequences of [file, sent]
    Time, Start,    \* instants, and the first of them; numbers
    MaxAttachments, \* MaxAttachmentsPerEntry: 10
    MaxLinks,       \* bound: ids of channel links ever made
    Kind,           \* the operations in play
    None

ASSUME TimelineAssumption ==
    /\ Request \subseteq Nat /\ Time \subseteq Nat /\ Start \in Time
    /\ None \notin Request \cup Channel \cup User
    /\ LinkedAtStart \subseteq Channel /\ IsFiniteSet(Channel)
    /\ \A c \in Caller : c.actor \in User /\ c.related \subseteq User
                         /\ c.owner \in User \cup {None} /\ c.token \in BOOLEAN
    /\ Sent \subseteq Seq(File)
    /\ Cited \subseteq Seq([file : File, sent : Time])
    /\ MaxLinks \in Nat /\ MaxAttachments \in Nat

VARIABLES
    link,           \* matter_channels: the id of each channel's row, 0 for none
    made,           \* ids given to such rows so far
    entries,        \* matter_timelines
    atts,           \* matter_timeline_attachments
    participants,   \* matter_participants
    deleted,        \* has the matter been soft-deleted?
    clock,
    pc, op,         \* where each request is and what it asks for
    seen,           \* what was committed at the first read of its transaction
    found,          \* the link row its entry refers to
    own,            \* the link row it inserted, 0 for none
    held,           \* requests whose transaction has locked the found link row
    todo, take,     \* files still to be looked up, and files to be inserted
    stored,         \* requests whose entry has been committed (ghost)
    outcome

tables == <<link, made, entries, atts, participants>>
tx     == <<seen, found, own, held, todo, take>>
vars   == <<tables, deleted, clock, pc, op, tx, stored, outcome>>

Goto(r, label) == pc' = [pc EXCEPT ![r] = label] /\ UNCHANGED outcome
Finish(r, o)   == /\ pc' = [pc EXCEPT ![r] = "done"]
                  /\ outcome' = [outcome EXCEPT ![r] = o]

\* A bot acts for its owner in what a model writes, and for itself otherwise.
EffectiveUIDs(c) == c.related \cup ({c.owner} \ {None})
AuthorizedActors(c) == IF c.token THEN c.related ELSE {c.owner} \ {None}

UIDs(r) == IF op[r].kind = "llm" THEN EffectiveUIDs(op[r].caller) ELSE op[r].caller.related

Open(r)    == pc[r] \in {"find", "link", "refind", "entry", "files"}
Pending(r) == Open(r) /\ own[r] # 0
Linked(r)  == link[op[r].channel]
-----------------------------------------------------------------------------
(* Before the transaction.                                                 *)

\* A request that is not refused for its form.
Arrive(r, o) ==
    /\ pc[r] = "idle" /\ o.kind \in Kind
    /\ op' = [op EXCEPT ![r] = o]
    /\ Goto(r, IF o.kind = "delete" THEN "load_entry" ELSE "load")
    /\ UNCHANGED <<tables, deleted, clock, tx, stored>>

\* DeleteEntry reads the entry first.
GetEntry(r) ==
    /\ pc[r] = "load_entry"
    /\ IF \E e \in entries : e.id = op[r].entry THEN Goto(r, "load") ELSE Finish(r, "not_found")
    /\ UNCHANGED <<tables, deleted, clock, op, tx, stored>>

GetByID(r) ==
    /\ pc[r] = "load"
    /\ IF deleted THEN Finish(r, "not_found") ELSE Goto(r, "access")
    /\ UNCHANGED <<tables, deleted, clock, op, tx, stored>>

\* The channel counts only for a user the IM server confirms as its member, and
\* only while it is linked.
HasAccess(r, member) ==
    \/ Creator \in UIDs(r)
    \/ UIDs(r) \cap (Assignee \cup participants) # {}
    \/ member /\ op[r].caller.token /\ op[r].channel # None /\ Linked(r) # 0

\* Mutant: any caller with access may delete the entry.
IgnoreAuthor(r) == TRUE

IsAuthor(r) == op[op[r].entry].author = op[r].caller.actor

CanAccessMatter(r) ==
    /\ pc[r] = "access"
    /\ \E member \in BOOLEAN :
         IF HasAccess(r, member) /\ (op[r].kind = "delete" => IsAuthor(r))
         THEN Goto(r, CASE op[r].kind = "direct" -> "store"
                        [] op[r].kind = "llm"    -> "ask"
                        [] op[r].kind = "delete" -> "remove")
         ELSE Finish(r, "forbidden")
    /\ UNCHANGED <<tables, deleted, clock, op, tx, stored>>

\* The limiter, the membership of the channel a user names, and the model's
\* answer, which may not come or be no use.
AskModel(r) ==
    /\ pc[r] = "ask"
    /\ \/ Finish(r, "rate_limited")
       \/ op[r].caller.token /\ Finish(r, "forbidden")
       \/ Finish(r, "upstream")
       \/ Goto(r, "find")
    /\ UNCHANGED <<tables, deleted, clock, op, tx, stored>>
-----------------------------------------------------------------------------
(* The transaction of createFromMessages.                                  *)

\* End the transaction without a change.
Rollback(r, o) ==
    /\ Finish(r, o)
    /\ own' = [own EXCEPT ![r] = 0]
    /\ held' = held \ {r}
    /\ UNCHANGED <<tables, deleted, clock, op, seen, found, todo, take, stored>>

\* Mutant: the caller is not looked at, a missing link is made for a bot too.
FindOrLink(r) ==
    /\ pc[r] = "find"
    /\ seen' = [seen EXCEPT ![r] = [link |-> Linked(r), atts |-> atts]]
    /\ found' = [found EXCEPT ![r] = Linked(r)]
    /\ Goto(r, IF Linked(r) # 0 THEN "entry" ELSE "link")
    /\ UNCHANGED <<tables, deleted, clock, op, own, held, todo, take, stored>>

\* FindByMatterAndChannelID: bots do not introduce channel links.
Find(r) ==
    /\ pc[r] = "find"
    /\ seen' = [seen EXCEPT ![r] = [link |-> Linked(r), atts |-> atts]]
    /\ found' = [found EXCEPT ![r] = Linked(r)]
    /\ \/ Linked(r) # 0 /\ Goto(r, "entry")
       \/ Linked(r) = 0 /\ op[r].caller.token /\ Goto(r, "link")
       \/ Linked(r) = 0 /\ ~op[r].caller.token /\ Finish(r, "forbidden")
    /\ UNCHANGED <<tables, deleted, clock, op, own, held, todo, take, stored>>

\* The INSERT waits for another one of the same key that is not yet committed.
LinkInsertable(ch, r) == \A q \in Request \ {r} : Pending(q) => op[q].channel # ch

\* Mutant: the link is inserted outside the transaction.
CreateLinkAtOnce(r) ==
    /\ pc[r] = "link"
    /\ LinkInsertable(op[r].channel, r)
    /\ held' = held \cup {r}
    /\ IF Linked(r) # 0
       THEN UNCHANGED <<link, made, own>>
       ELSE /\ made' = made + 1
            /\ own' = [own EXCEPT ![r] = made']
            /\ link' = [link EXCEPT ![op[r].channel] = made']
    /\ Goto(r, "refind")
    /\ UNCHANGED <<entries, atts, participants, deleted, clock, op, seen, found,
                   todo, take, stored>>

\* A link that is already there is no error; its row stays locked.
CreateLink(r) ==
    /\ pc[r] = "link"
    /\ LinkInsertable(op[r].channel, r)
    /\ IF Linked(r) # 0
       THEN /\ held' = held \cup {r}
            /\ UNCHANGED <<made, own>>
       ELSE /\ made' = made + 1
            /\ own' = [own EXCEPT ![r] = made']
            /\ UNCHANGED held
    /\ Goto(r, "refind")
    /\ UNCHANGED <<link, entries, atts, participants, deleted, clock, op, seen, found,
                   todo, take, stored>>

\* The row is read back: a transaction sees its own, but perhaps not the one that
\* another transaction committed after its first read.
Refind(r) ==
    /\ pc[r] = "refind"
    /\ \E row \in IF own[r] # 0 THEN {own[r]} ELSE {seen[r].link, Linked(r)} :
         \/ /\ row = 0
            /\ Rollback(r, "not_found")
         \/ /\ row # 0
            /\ found' = [found EXCEPT ![r] = row]
            /\ Goto(r, "entry")
            /\ UNCHANGED <<tables, deleted, clock, op, seen, own, held, todo, take, stored>>

\* buildLLMAttachments: the first mention of each file, up to the cap.
BuildLLMAttachments(list) ==
    LET firsts == {i \in DOMAIN list : \A j \in 1..(i - 1) : list[j].file # list[i].file}
        kept   == {i \in firsts : Cardinality({j \in firsts : j <= i}) <= MaxAttachments}
    IN  {[nr |-> i, file |-> list[i].file, sent |-> list[i].sent] : i \in kept}

\* Mutant: the reference has no foreign key.
InsertEntryUnchecked(r) ==
    /\ pc[r] = "entry"
    /\ todo' = [todo EXCEPT ![r] = BuildLLMAttachments(op[r].cited)]
    /\ Goto(r, "files")
    /\ UNCHANGED <<tables, deleted, clock, op, seen, found, own, held, take, stored>>

\* The entry refers to the link row, which must still exist.
InsertEntry(r) ==
    /\ pc[r] = "entry"
    /\ \/ /\ found[r] \notin {own[r], Linked(r)}
          /\ Rollback(r, "internal")
       \/ /\ found[r] \in {own[r], Linked(r)}
          /\ held' = held \cup {r}
          /\ todo' = [todo EXCEPT ![r] = BuildLLMAttachments(op[r].cited)]
          /\ Goto(r, "files")
          /\ UNCHANGED <<tables, deleted, clock, op, seen, found, own, take, stored>>

\* FindByMatterAndFileURL: a file the matter has is not inserted again.
CheckFile(r, f) ==
    /\ pc[r] = "files" /\ f \in todo[r]
    /\ todo' = [todo EXCEPT ![r] = @ \ {f}]
    /\ \E rows \in {seen[r].atts, atts} :
         take' = IF \E a \in rows : a.file = f.file THEN take
                 ELSE [take EXCEPT ![r] = @ \cup {f}]
    /\ UNCHANGED <<tables, deleted, clock, pc, op, seen, found, own, held, stored, outcome>>

\* CreateMany: a row for each file, with an id of its own.
Attachments(r, files) ==
    {[entry |-> r, nr |-> f.nr, file |-> f.file, sent |-> f.sent] : f \in files}

NewEntry(r, row) ==
    [id |-> r, author |-> op[r].author, source |-> op[r].channel, link |-> row]

\* The commit; its error does not tell whether it took place.
Committed(r) ==
    /\ stored' = stored \cup {r}
    /\ Finish(r, "created") \/ Finish(r, "internal")

\* Mutant: the caller becomes the participant, not the author it acts for.
UpsertActor(r) ==
    /\ pc[r] = "files" /\ todo[r] = {}
    /\ link' = IF own[r] # 0 THEN [link EXCEPT ![op[r].channel] = own[r]] ELSE link
    /\ entries' = entries \cup {NewEntry(r, found[r])}
    /\ atts' = atts \cup Attachments(r, take[r])
    /\ participants' = participants \cup {op[r].caller.actor}
    /\ held' = held \ {r}
    /\ Committed(r)
    /\ UNCHANGED <<made, deleted, clock, op, seen, found, own, todo, take>>

\* CreateMany, Upsert and the commit: nobody sees a state between them.
CommitLLMEntry(r) ==
    /\ pc[r] = "files" /\ todo[r] = {}
    /\ link' = IF own[r] # 0 THEN [link EXCEPT ![op[r].channel] = own[r]] ELSE link
    /\ entries' = entries \cup {NewEntry(r, found[r])}
    /\ atts' = atts \cup Attachments(r, take[r])
    /\ participants' = participants \cup {op[r].author}
    /\ held' = held \ {r}
    /\ Committed(r)
    /\ UNCHANGED <<made, deleted, clock, op, seen, found, own, todo, take>>
-----------------------------------------------------------------------------
(* The transactions of createDirect and DeleteEntry.  Both only write.     *)

\* A file that is listed twice gets two rows, which are sent at the same time.
CommitDirectEntry(r) ==
    /\ pc[r] = "store"
    /\ entries' = entries \cup
         {[id |-> r, author |-> op[r].author, source |-> None, link |-> 0]}
    /\ atts' = atts \cup
         Attachments(r, {[nr |-> i, file |-> op[r].files[i], sent |-> clock] :
                           i \in DOMAIN op[r].files})
    /\ participants' = participants \cup {op[r].author}
    /\ Committed(r)
    /\ UNCHANGED <<link, made, deleted, clock, op, tx>>

\* The files go with the entry.
DeleteEntry(r) ==
    /\ pc[r] = "remove"
    /\ \/ /\ \A e \in entries : e.id # op[r].entry
          /\ Finish(r, "not_found")
          /\ UNCHANGED <<entries, atts>>
       \/ /\ \E e \in entries : e.id = op[r].entry
          /\ entries' = {e \in entries : e.id # op[r].entry}
          /\ atts' = {a \in atts : a.entry # op[r].entry}
          /\ Finish(r, "deleted") \/ Finish(r, "internal")
    /\ UNCHANGED <<link, made, participants, deleted, clock, op, tx, stored>>

\* A statement fails, the request times out or its goroutine dies.
Fail(r) == pc[r] \notin {"idle", "done"} /\ Rollback(r, "internal")
-----------------------------------------------------------------------------
(* What other requests do to the same matter: MatterService has the detail. *)

\* The foreign key clears the references of the entries.
UnlinkChannel(ch) ==
    /\ link[ch] # 0
    /\ \A q \in held : op[q].channel # ch
    /\ LinkInsertable(ch, None)
    /\ link' = [link EXCEPT ![ch] = 0]
    /\ entries' = {[e EXCEPT !.link = IF e.source = ch THEN 0 ELSE @] : e \in entries}
    /\ UNCHANGED <<made, atts, participants, deleted, clock, pc, op, tx, stored, outcome>>

LinkChannel(ch) ==
    /\ link[ch] = 0 /\ made < MaxLinks
    /\ LinkInsertable(ch, None)
    /\ made' = made + 1
    /\ link' = [link EXCEPT ![ch] = made']
    /\ UNCHANGED <<entries, atts, participants, deleted, clock, pc, op, tx, stored, outcome>>

SoftDelete ==
    /\ ~deleted
    /\ deleted' = TRUE
    /\ UNCHANGED <<tables, clock, pc, op, tx, stored, outcome>>

Tick ==
    /\ \E t \in Time : t > clock /\ clock' = t
    /\ UNCHANGED <<tables, deleted, pc, op, tx, stored, outcome>>

Quiet == (\A r \in Request : pc[r] = "done") /\ UNCHANGED vars
-----------------------------------------------------------------------------
Init ==
    /\ \E number \in [LinkedAtStart -> 1..Cardinality(LinkedAtStart)] :
         /\ \A a, b \in LinkedAtStart : number[a] = number[b] => a = b
         /\ link = [ch \in Channel |-> IF ch \in LinkedAtStart THEN number[ch] ELSE 0]
    /\ made = Cardinality(LinkedAtStart)
    /\ entries = {} /\ atts = {} /\ participants = {}
    /\ deleted = FALSE
    /\ clock = Start
    /\ pc = [r \in Request |-> "idle"]
    /\ op = [r \in Request |-> [kind |-> "none"]]
    /\ seen = [r \in Request |-> [link |-> 0, atts |-> {}]]
    /\ found = [r \in Request |-> 0]
    /\ own = [r \in Request |-> 0]
    /\ held = {}
    /\ todo = [r \in Request |-> {}]
    /\ take = [r \in Request |-> {}]
    /\ stored = {}
    /\ outcome = [r \in Request |-> "none"]

\* POST /matters/:id/timeline without messages, and with them.
CreateDirect(r) ==
    \/ \E c \in Caller, ch \in Channel \cup {None}, files \in Sent :
         Arrive(r, [kind |-> "direct", caller |-> c, author |-> c.actor, channel |-> ch,
                    files |-> files])
    \/ CommitDirectEntry(r)

CreateFromMessages(r) ==
    \/ \E c \in Caller, ch \in Channel, list \in Cited : \E a \in AuthorizedActors(c) :
         Arrive(r, [kind |-> "llm", caller |-> c, author |-> a, channel |-> ch,
                    cited |-> list])
    \/ AskModel(r)
    \/ Find(r) \/ CreateLink(r) \/ Refind(r) \/ InsertEntry(r)
    \/ \E f \in todo[r] : CheckFile(r, f)
    \/ CommitLLMEntry(r)

\* DELETE /matters/:id/timeline/:entry_id
Delete(r) ==
    \/ \E c \in Caller, e \in Request :
         Arrive(r, [kind |-> "delete", caller |-> c, channel |-> None, entry |-> e])
    \/ GetEntry(r) \/ DeleteEntry(r)

Serve(r) == GetByID(r) \/ CanAccessMatter(r) \/ CreateDirect(r) \/ CreateFromMessages(r)
            \/ Delete(r)

Others == (\E ch \in Channel : UnlinkChannel(ch) \/ LinkChannel(ch)) \/ SoftDelete \/ Tick

Next == (\E r \in Request : Serve(r) \/ Fail(r)) \/ Others \/ Quiet

Spec == Init /\ [][Next]_vars
-----------------------------------------------------------------------------
\* Mutant: rows of one file that were sent at the same time are not told apart.
OutputsWithoutTiebreak(rows) ==
    {a \in rows : \A b \in rows : b.file = a.file => a.sent <= b.sent}

SmallerId(b, a) == b.entry < a.entry \/ (b.entry = a.entry /\ b.nr < a.nr)

\* ListOutputs: of the rows of one file the one with the least (sent_at, id).
Outputs(rows) ==
    {a \in rows : ~\E b \in rows :
        /\ b.file = a.file
        /\ b.sent < a.sent \/ (b.sent = a.sent /\ SmallerId(b, a))}

Label == {"idle", "load_entry", "load", "access", "store", "ask", "find", "link",
          "refind", "entry", "files", "remove", "done"}

FileRef   == [nr : Nat, file : File, sent : Time]
Operation ==
    [kind : {"none"}] \cup
    [kind : {"direct"}, caller : Caller, author : User, channel : Channel \cup {None},
     files : Sent] \cup
    [kind : {"llm"}, caller : Caller, author : User, channel : Channel, cited : Cited] \cup
    [kind : {"delete"}, caller : Caller, channel : {None}, entry : Request]

\* The types of the tables and of the transactions.  The rows refer to rows that
\* exist, although channels are unlinked while entries are on their way.
TypeOK ==
    /\ link \in [Channel -> Nat] /\ made \in Nat
    /\ entries \subseteq [id : stored, author : User, source : Channel \cup {None}, link : Nat]
    /\ \A e \in entries : e.link # 0 => e.source # None /\ e.link = link[e.source]
    /\ atts \subseteq [entry : stored, nr : Nat, file : File, sent : Time]
    /\ \A a \in atts : \E e \in entries : e.id = a.entry
    /\ participants \subseteq User
    /\ deleted \in BOOLEAN /\ clock \in Time
    /\ pc \in [Request -> Label] /\ op \in [Request -> Operation]
    /\ found \in [Request -> Nat] /\ own \in [Request -> Nat]
    /\ todo \in [Request -> SUBSET FileRef] /\ take \in [Request -> SUBSET FileRef]
    /\ held \subseteq Request /\ stored \subseteq Request

\* The automatic link and the entry are one: whatever fails, a link a request has
\* made is there only if the entry it was made for has been stored.
NoOrphanLink ==
    \A ch \in Channel, r \in Request :
        link[ch] # 0 /\ link[ch] = own[r] => r \in stored

\* Bots do not extend a matter to a channel, even when the channel they write from
\* is unlinked while the model works.
BotsNeverLink == \A r \in Request : own[r] # 0 => op[r].caller.token

\* Whoever has an entry on the timeline is a participant, also the owner a bot
\* wrote for: it keeps its access and is notified.
AuthorsParticipate == \A e \in entries : e.author \in participants

\* The outputs show every stored file exactly once, although concurrent requests
\* may each insert a row for it, and one request several that are sent at the same time.
OneRowPerFile ==
    \A a \in atts : Cardinality({o \in Outputs(atts) : o.file = a.file}) = 1

\* An entry leaves the timeline only by a deletion its author asked for, and takes
\* its files along.
OnlyAuthorsDelete ==
    [][/\ \A e \in entries : (\A d \in entries' : d.id # e.id) =>
             \E r \in Request : /\ pc[r] = "remove" /\ pc'[r] = "done"
                                /\ op[r].entry = e.id /\ op[r].caller.actor = e.author
       /\ \A a \in atts' : \E e \in entries' : e.id = a.entry]_<<entries, atts>>

\* The files a standing entry was written from.
CitedFiles(e) == IF op[e.id].kind = "llm" THEN BuildLLMAttachments(op[e.id].cited) ELSE {}

\* timeline_attachment_repo.go says the outputs "reflect the ORIGINAL upload, not
\* a later forward": no standing entry cites an earlier upload of a file shown.
OutputsShowOriginal ==
    \A o \in Outputs(atts), e \in entries : \A f \in CitedFiles(e) :
        f.file = o.file => o.sent <= f.sent

\* timeline_svc.go stores the files "so the matter outputs view can show them":
\* the files a standing entry cites are shown.
CitedFilesAreShown ==
    \A e \in entries : \A f \in CitedFiles(e) : \E o \in Outputs(atts) : o.file = f.file
=============================================================================
