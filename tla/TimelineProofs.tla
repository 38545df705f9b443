--------------------------- MODULE TimelineProofs ---------------------------
(***************************************************************************)
(* For any requests, callers, channels and files: the rows of the timeline *)
(* refer to rows that exist, an automatic link is there only with the      *)
(* entry it was made for and never for a bot, whoever has an entry is a    *)
(* participant, an entry is deleted only by its author, and a file is      *)
(* shown in one row.  The argument rests on two locks: an inserted link    *)
(* row keeps other inserts of its key waiting, and a link row that is      *)
(* referred to cannot be deleted.                                          *)
(***************************************************************************)
EXTENDS Timeline, FiniteSetTheorems, WellFoundedInduction, TLAPS

\* The ids of the link rows: nobody has one that was not given out, and no two
\* requests have inserted the same row.
Numbered ==
    /\ \A ch \in Channel : link[ch] <= made
    /\ \A r \in Request : own[r] <= made /\ seen[r].link \in Nat
    /\ \A q, r \in Request : own[q] # 0 /\ own[q] = own[r] => q = r
    /\ DOMAIN seen = Request

\* What a request asks for decides where it can be.
Placed ==
    \A r \in Request :
        /\ pc[r] \in {"ask", "find", "link", "refind", "entry", "files"} => op[r].kind = "llm"
        /\ pc[r] = "store" => op[r].kind = "direct"
        /\ pc[r] \in {"load_entry", "remove"} => op[r].kind = "delete"
        /\ pc[r] # "idle" => op[r].kind # "none"
        /\ pc[r] = "link" => op[r].caller.token
        /\ own[r] # 0 => /\ pc[r] \in {"refind", "entry", "files", "done"}
                         /\ op[r].kind = "llm"
        /\ r \in stored => pc[r] = "done" /\ op[r].kind \in {"direct", "llm"}

\* A link row that is not yet committed is the only one of its channel.
Exclusive ==
    /\ \A r \in Request : Pending(r) => Linked(r) = 0
    /\ \A q, r \in Request :
         Pending(q) /\ Pending(r) /\ op[q].channel = op[r].channel => q = r

\* The link row that an entry is about to refer to is the request's own or locked.
Referred ==
    \A r \in Request :
        /\ pc[r] \in {"entry", "files"} => found[r] # 0 /\ (own[r] # 0 => found[r] = own[r])
        /\ pc[r] = "files" /\ own[r] = 0 => r \in held /\ found[r] = Linked(r)

\* The author of an entry is the one its request named, and a deletion past its
\* check was asked for by the author.
Authored ==
    /\ \A e \in entries : e.author = op[e.id].author
    /\ \A r \in Request :
         /\ op[r].kind = "delete" /\ pc[r] \in {"load", "access", "remove"} =>
              op[r].entry \in stored
         /\ pc[r] = "remove" => IsAuthor(r)

TInv == /\ TypeOK /\ NoOrphanLink /\ BotsNeverLink /\ AuthorsParticipate
        /\ Numbered /\ Placed /\ Exclusive /\ Referred /\ Authored
-----------------------------------------------------------------------------
\* An empty timeline satisfies the invariant.
LEMMA InitTInv == Init => TInv
<1> SUFFICES ASSUME Init PROVE TInv
  OBVIOUS
<1>1. Cardinality(LinkedAtStart) \in Nat
  BY TimelineAssumption, FS_Subset, FS_CardinalityType
<1>2. /\ link \in [Channel -> Nat] /\ made \in Nat
      /\ \A ch \in Channel : link[ch] <= made
  BY <1>1, TimelineAssumption DEF Init
<1>3. op \in [Request -> Operation]
  BY DEF Init, Operation
<1>4. deleted \in BOOLEAN /\ clock \in Time
  BY TimelineAssumption, Zenon DEF Init
<1>5. TypeOK
  BY <1>2, <1>3, <1>4 DEF Init, TypeOK, Label
<1>6. \A r \in Request : own[r] = 0 /\ pc[r] = "idle" /\ op[r].kind = "none"
  BY DEF Init
<1>7. NoOrphanLink /\ BotsNeverLink /\ AuthorsParticipate
  BY <1>6, <1>2 DEF Init, NoOrphanLink, BotsNeverLink, AuthorsParticipate
<1>8. Numbered
  BY <1>2, <1>6 DEF Init, Numbered
<1>9. Placed /\ Exclusive /\ Referred /\ Authored
  BY <1>6 DEF Init, Placed, Exclusive, Pending, Open, Referred, Authored
<1> QED
  BY <1>5, <1>7, <1>8, <1>9 DEF TInv

\* A request moves on, or ends, before its transaction.
LEMMA CheckStep ==
    ASSUME TInv, NEW r \in Request, NEW label,
           UNCHANGED <<tables, deleted, clock, op, tx, stored>>,
           pc' = [pc EXCEPT ![r] = label],
           pc[r] \in {"load_entry", "load", "access", "ask"},
           label \in {"load", "access", "store", "ask", "find", "remove", "done"},
           label \in {"ask", "find"} => op[r].kind = "llm",
           label = "store" => op[r].kind = "direct",
           label = "remove" => op[r].kind = "delete" /\ IsAuthor(r),
           op[r].kind = "delete" /\ label # "done" => op[r].entry \in stored
    PROVE  TInv'
<1> USE DEF TInv, tables, tx
<1>1. /\ pc'[r] = label /\ \A q \in Request \ {r} : pc'[q] = pc[q]
      /\ own[r] = 0 /\ r \notin stored
  BY DEF TypeOK, Placed
<1>2. TypeOK'
  BY DEF TypeOK, Label
<1>3. (NoOrphanLink /\ BotsNeverLink /\ AuthorsParticipate /\ Numbered)'
  BY DEF NoOrphanLink, BotsNeverLink, AuthorsParticipate, Numbered
<1>4. Placed'
  BY <1>1 DEF Placed
<1>5. Exclusive'
  BY <1>1 DEF Exclusive, Pending, Open, Linked
<1>6. Referred'
  BY <1>1 DEF Referred, Linked
<1>7. Authored'
  BY <1>1 DEF Authored, IsAuthor
<1> QED
  BY <1>2, <1>3, <1>4, <1>5, <1>6, <1>7

\* The checks before the transaction are such moves.
LEMMA ChecksKeep ==
    ASSUME TInv, NEW r \in Request, GetEntry(r) \/ GetByID(r) \/ CanAccessMatter(r) \/ AskModel(r)
    PROVE  TInv'
<1>1. PICK label :
        /\ UNCHANGED <<tables, deleted, clock, op, tx, stored>>
        /\ pc' = [pc EXCEPT ![r] = label]
        /\ pc[r] \in {"load_entry", "load", "access", "ask"}
        /\ label \in {"load", "access", "store", "ask", "find", "remove", "done"}
        /\ label \in {"ask", "find"} => op[r].kind = "llm"
        /\ label = "store" => op[r].kind = "direct"
        /\ label = "remove" => op[r].kind = "delete" /\ IsAuthor(r)
        /\ op[r].kind = "delete" /\ label # "done" => op[r].entry \in stored
  <2>1. CASE GetEntry(r)
    <3>1. \A e \in entries : e.id \in stored
      BY DEF TInv, TypeOK
    <3> QED
      BY <2>1, <3>1 DEF GetEntry, Goto, Finish
  <2>2. CASE GetByID(r)
    BY <2>2 DEF GetByID, Goto, Finish, TInv, Authored
  <2>3. CASE CanAccessMatter(r)
    <3>1. op[r].kind \in {"direct", "llm", "delete"}
      BY <2>3 DEF CanAccessMatter, TInv, Placed, TypeOK, Operation
    <3> QED
      BY <2>3, <3>1 DEF CanAccessMatter, Goto, Finish, TInv, Authored
  <2>4. CASE AskModel(r)
    BY <2>4 DEF AskModel, Goto, Finish, TInv, Placed
  <2> QED
    BY <2>1, <2>2, <2>3, <2>4
<1> QED
  BY <1>1, CheckStep

\* A new request: nothing of it is left from before.
LEMMA ArriveKeeps ==
    ASSUME TInv, NEW r \in Request, NEW o \in Operation, Arrive(r, o),
           o.kind \in {"direct", "llm", "delete"}
    PROVE  TInv'
<1> USE DEF TInv, Arrive, Goto, tables, tx
<1>1. /\ pc'[r] \in {"load_entry", "load"} /\ op'[r] = o
      /\ pc'[r] = "load_entry" <=> o.kind = "delete"
      /\ \A q \in Request \ {r} : pc'[q] = pc[q] /\ op'[q] = op[q]
      /\ own[r] = 0 /\ r \notin stored
  BY DEF TypeOK, Placed
<1>2. op' \in [Request -> Operation] /\ pc' \in [Request -> Label]
  BY DEF TypeOK, Label
<1>3. TypeOK'
  BY <1>2 DEF TypeOK
<1>4. (NoOrphanLink /\ BotsNeverLink /\ AuthorsParticipate /\ Numbered)'
  BY <1>1 DEF NoOrphanLink, BotsNeverLink, AuthorsParticipate, Numbered
<1>5. Placed'
  BY <1>1 DEF Placed
<1>6. Exclusive' /\ Referred'
  BY <1>1 DEF Exclusive, Pending, Open, Referred, Linked
<1>7. Authored'
  <2>1. stored \subseteq Request \ {r} /\ \A e \in entries : e.id \in stored
    BY <1>1 DEF TypeOK
  <2>2. \A q \in Request : pc[q] = "remove" => op[q].entry \in stored
    BY DEF Authored, Placed
  <2> QED
    BY <1>1, <2>1, <2>2 DEF Authored, IsAuthor
<1> QED
  BY <1>3, <1>4, <1>5, <1>6, <1>7

\* A transaction that ends without a change, also when a statement of it fails.
LEMMA RollbackKeeps ==
    ASSUME TInv, NEW r \in Request, NEW o, Rollback(r, o), pc[r] \notin {"idle", "done"}
    PROVE  TInv'
<1> USE DEF TInv, Rollback, Finish, tables
<1>1. /\ pc'[r] = "done" /\ \A q \in Request \ {r} : pc'[q] = pc[q]
      /\ own'[r] = 0 /\ \A q \in Request \ {r} : own'[q] = own[q]
      /\ own' \in [Request -> Nat]
      /\ held' \subseteq held /\ held \ {r} \subseteq held'
      /\ r \notin stored
  BY DEF TypeOK, Placed
<1>2. TypeOK'
  BY <1>1 DEF TypeOK, Label
<1>3. (NoOrphanLink /\ BotsNeverLink /\ AuthorsParticipate /\ Numbered)'
  BY <1>1 DEF NoOrphanLink, BotsNeverLink, AuthorsParticipate, Numbered, TypeOK
<1>4. Placed'
  BY <1>1 DEF Placed
<1>5. Exclusive'
  BY <1>1 DEF Exclusive, Pending, Open, Linked
<1>6. Referred'
  BY <1>1 DEF Referred, Linked
<1>7. Authored'
  BY <1>1 DEF Authored, IsAuthor
<1> QED
  BY <1>2, <1>3, <1>4, <1>5, <1>6, <1>7

\* The look for the link.
LEMMA FindKeeps == ASSUME TInv, NEW r \in Request, Find(r) PROVE TInv'
<1> USE DEF TInv, Find, tables
<1>1. /\ pc[r] = "find" /\ pc' = [pc EXCEPT ![r] = pc'[r]]
      /\ pc'[r] \in {"entry", "link", "done"}
      /\ \A q \in Request \ {r} : pc'[q] = pc[q]
      /\ pc'[r] = "entry" => Linked(r) # 0
      /\ pc'[r] = "link" => op[r].caller.token
  BY DEF Goto, Finish, TypeOK
<1>2. op[r].kind = "llm" /\ own[r] = 0 /\ r \notin stored /\ op[r].channel \in Channel
  BY <1>1 DEF Placed, TypeOK, Operation
<1>3. Linked(r) \in Nat
  BY <1>2 DEF TypeOK, Linked
<1>4. found' \in [Request -> Nat] /\ found'[r] = Linked(r)
      /\ \A q \in Request \ {r} : found'[q] = found[q]
  BY <1>3 DEF TypeOK
<1>5. TypeOK'
  BY <1>1, <1>4 DEF TypeOK, Label
<1>6. (NoOrphanLink /\ BotsNeverLink /\ AuthorsParticipate)'
  BY DEF NoOrphanLink, BotsNeverLink, AuthorsParticipate
<1>7. Numbered'
  BY <1>3 DEF Numbered
<1>8. Placed'
  BY <1>1, <1>2 DEF Placed
<1>9. Exclusive'
  BY <1>1, <1>2 DEF Exclusive, Pending, Open, Linked
<1>10. Referred'
  BY <1>1, <1>2, <1>4 DEF Referred, Linked
<1>11. Authored'
  BY <1>1 DEF Authored, IsAuthor
<1> QED
  BY <1>5, <1>6, <1>7, <1>8, <1>9, <1>10, <1>11

\* The insertion of the link: its number is new, and it waited for the others.
LEMMA CreateLinkKeeps == ASSUME TInv, NEW r \in Request, CreateLink(r) PROVE TInv'
<1> USE DEF TInv, CreateLink, Goto
<1>1. /\ pc[r] = "link" /\ pc'[r] = "refind" /\ pc' \in [Request -> Label]
      /\ \A q \in Request \ {r} : pc'[q] = pc[q]
      /\ \A q \in Request \ {r} : Pending(q) => op[q].channel # op[r].channel
  BY DEF TypeOK, Label, LinkInsertable
<1>2. op[r].kind = "llm" /\ own[r] = 0 /\ r \notin stored /\ op[r].channel \in Channel
      /\ op[r].caller.token
  BY <1>1 DEF Placed, TypeOK, Operation
<1>3. /\ own' \in [Request -> Nat] /\ made' \in Nat /\ made <= made'
      /\ held \subseteq held' /\ held' \subseteq Request
      /\ \A q \in Request \ {r} : own'[q] = own[q]
      /\ own'[r] # 0 => own'[r] = made + 1 /\ made' = made + 1 /\ Linked(r) = 0
  BY <1>2 DEF TypeOK
<1>4. TypeOK'
  BY <1>1, <1>3 DEF TypeOK
<1>5. NoOrphanLink'
  BY <1>3, <1>2 DEF NoOrphanLink, Numbered, TypeOK
<1>6. (BotsNeverLink /\ AuthorsParticipate)'
  BY <1>2, <1>3 DEF BotsNeverLink, AuthorsParticipate
<1>7. Numbered'
  BY <1>2, <1>3 DEF Numbered, TypeOK
<1>8. Placed'
  BY <1>1, <1>2, <1>3 DEF Placed
<1>9. Exclusive'
  BY <1>1, <1>2, <1>3 DEF Exclusive, Pending, Open, Linked
<1>10. Referred'
  BY <1>1, <1>3 DEF Referred, Linked
<1>11. Authored'
  BY <1>1 DEF Authored, IsAuthor
<1> QED
  BY <1>4, <1>5, <1>6, <1>7, <1>8, <1>9, <1>10, <1>11

\* The row read back is the request's own, or one that somebody else has inserted.
LEMMA RefindKeeps == ASSUME TInv, NEW r \in Request, Refind(r) PROVE TInv'
<1>1. CASE Rollback(r, "not_found")
  BY <1>1, RollbackKeeps DEF Refind
<1>2. ASSUME NEW row \in IF own[r] # 0 THEN {own[r]} ELSE {seen[r].link, Linked(r)},
             row # 0, found' = [found EXCEPT ![r] = row], Goto(r, "entry"),
             UNCHANGED <<tables, deleted, clock, op, seen, own, held, todo, take, stored>>
      PROVE  TInv'
  <2> USE DEF TInv, Goto, tables
  <2>1. /\ pc[r] = "refind" /\ pc'[r] = "entry" /\ pc' \in [Request -> Label]
        /\ \A q \in Request \ {r} : pc'[q] = pc[q]
    BY <1>2 DEF Refind, TypeOK, Label
  <2>2. op[r].kind = "llm" /\ r \notin stored /\ op[r].channel \in Channel
    BY <2>1 DEF Placed, TypeOK, Operation
  <2>3. row \in Nat
    BY <1>2, <2>2 DEF TypeOK, Numbered, Linked
  <2>4. /\ found' \in [Request -> Nat] /\ found'[r] = row
        /\ \A q \in Request \ {r} : found'[q] = found[q]
        /\ own[r] # 0 => row = own[r]
    BY <1>2, <2>3 DEF TypeOK
  <2>5. TypeOK'
    BY <1>2, <2>1, <2>4 DEF TypeOK
  <2>6. (NoOrphanLink /\ BotsNeverLink /\ AuthorsParticipate /\ Numbered)'
    BY <1>2 DEF NoOrphanLink, BotsNeverLink, AuthorsParticipate, Numbered
  <2>7. Placed'
    BY <1>2, <2>1, <2>2 DEF Placed
  <2>8. Exclusive'
    BY <1>2, <2>1 DEF Exclusive, Pending, Open, Linked
  <2>9. Referred'
    BY <1>2, <2>1, <2>4 DEF Referred, Linked
  <2>10. Authored'
    BY <1>2, <2>1 DEF Authored, IsAuthor
  <2> QED
    BY <2>5, <2>6, <2>7, <2>8, <2>9, <2>10
<1> QED
  BY <1>1, <1>2 DEF Refind

\* The files of a citation are among its files.
LEMMA AttachmentsAreCited ==
    ASSUME NEW list \in Cited PROVE BuildLLMAttachments(list) \subseteq FileRef
<1> DEFINE Mention == [file : File, sent : Time]
<1>1. list \in Seq(Mention)
  BY TimelineAssumption
<1>2. ASSUME NEW i \in DOMAIN list
      PROVE  [nr |-> i, file |-> list[i].file, sent |-> list[i].sent] \in FileRef
  <2> HIDE DEF Mention
  <2>1. i \in Nat /\ list[i] \in Mention
    BY <1>1, <1>2
  <2> QED
    BY <2>1 DEF FileRef, Mention
<1>3. \A m \in BuildLLMAttachments(list) : \E i \in DOMAIN list :
        m = [nr |-> i, file |-> list[i].file, sent |-> list[i].sent]
  BY DEF BuildLLMAttachments
<1> QED
  BY <1>2, <1>3

\* The entry is inserted: the link row it refers to is its own or locked from now on.
LEMMA InsertEntryKeeps == ASSUME TInv, NEW r \in Request, InsertEntry(r) PROVE TInv'
<1>1. CASE Rollback(r, "internal")
  BY <1>1, RollbackKeeps DEF InsertEntry
<1>2. CASE ~Rollback(r, "internal")
  <2> USE <1>2 DEF TInv, InsertEntry, Goto, tables
  <2>1. /\ pc[r] = "entry" /\ pc'[r] = "files" /\ pc' \in [Request -> Label]
        /\ \A q \in Request \ {r} : pc'[q] = pc[q]
        /\ found[r] \in {own[r], Linked(r)} /\ held' = held \cup {r}
    BY DEF TypeOK, Label
  <2>2. op[r].kind = "llm" /\ r \notin stored /\ op[r].cited \in Cited
    BY <2>1 DEF Placed, TypeOK, Operation
  <2>3. todo' \in [Request -> SUBSET FileRef]
    BY <2>2, AttachmentsAreCited DEF TypeOK
  <2>4. TypeOK'
    BY <2>1, <2>3 DEF TypeOK
  <2>5. (NoOrphanLink /\ BotsNeverLink /\ AuthorsParticipate /\ Numbered)'
    BY DEF NoOrphanLink, BotsNeverLink, AuthorsParticipate, Numbered
  <2>6. Placed'
    BY <2>1, <2>2 DEF Placed
  <2>7. Exclusive'
    BY <2>1 DEF Exclusive, Pending, Open, Linked
  <2>8. Referred'
    BY <2>1 DEF Referred, Linked
  <2>9. Authored'
    BY <2>1 DEF Authored, IsAuthor
  <2> QED
    BY <2>4, <2>5, <2>6, <2>7, <2>8, <2>9
<1> QED
  BY <1>1, <1>2

\* The look for a file changes only what will be inserted.
LEMMA CheckFileKeeps ==
    ASSUME TInv, NEW r \in Request, NEW f \in todo[r], CheckFile(r, f)
    PROVE  TInv'
<1> USE DEF TInv, CheckFile, tables
<1>1. todo' \in [Request -> SUBSET FileRef] /\ take' \in [Request -> SUBSET FileRef]
  <2>1. f \in FileRef /\ \A q \in Request : todo[q] \ {f} \in SUBSET FileRef
    BY DEF TypeOK
  <2>2. take' = take \/ take' = [take EXCEPT ![r] = @ \cup {f}]
    OBVIOUS
  <2> QED
    BY <2>1, <2>2 DEF TypeOK
<1>2. TypeOK'
  BY <1>1 DEF TypeOK
<1>3. (NoOrphanLink /\ BotsNeverLink /\ AuthorsParticipate /\ Numbered)'
  BY DEF NoOrphanLink, BotsNeverLink, AuthorsParticipate, Numbered
<1>4. (Placed /\ Exclusive /\ Referred /\ Authored)'
  BY DEF Placed, Exclusive, Pending, Open, Linked, Referred, Authored, IsAuthor
<1> QED
  BY <1>2, <1>3, <1>4

\* The commit of an entry a model wrote, with its link, its files and its author.
LEMMA CommitLLMKeeps == ASSUME TInv, NEW r \in Request, CommitLLMEntry(r) PROVE TInv'
<1> USE DEF TInv, CommitLLMEntry
<1> DEFINE ch == op[r].channel
           row == found[r]
<1>1. /\ pc[r] = "files" /\ pc'[r] = "done" /\ pc' \in [Request -> Label]
      /\ \A q \in Request \ {r} : pc'[q] = pc[q]
      /\ stored' = stored \cup {r}
  BY DEF Committed, Finish, TypeOK, Label
<1>2. /\ op[r].kind = "llm" /\ r \notin stored
      /\ ch \in Channel /\ op[r].author \in User /\ ch # None
  BY <1>1, TimelineAssumption DEF Placed, TypeOK, Operation
<1>3. /\ row \in Nat \ {0} /\ row <= made
      /\ own[r] # 0 => row = own[r] /\ link[ch] = 0
      /\ own[r] = 0 => row = link[ch]
  BY <1>1, <1>2 DEF TypeOK, Referred, Exclusive, Pending, Open, Linked, Numbered
<1>4. link' = [link EXCEPT ![ch] = row]
  BY <1>2, <1>3 DEF TypeOK
<1>5. /\ link' \in [Channel -> Nat] /\ link'[ch] = row
      /\ \A c \in Channel \ {ch} : link'[c] = link[c]
      /\ link[ch] # 0 => link' = link
  BY <1>2, <1>3, <1>4 DEF TypeOK
<1> HIDE DEF ch, row
<1>6. entries' = entries \cup {[id |-> r, author |-> op[r].author, source |-> ch, link |-> row]}
  BY DEF NewEntry, ch, row
<1>7. TypeOK'
  <2>1. entries' \subseteq
          [id : stored', author : User, source : Channel \cup {None}, link : Nat]
    BY <1>1, <1>2, <1>3, <1>6 DEF TypeOK
  <2>2. \A e \in entries' : e.link # 0 => e.source # None /\ e.link = link'[e.source]
    <3>1. ASSUME NEW e \in entries, e.link # 0
          PROVE  e.source # None /\ e.link = link'[e.source]
      BY <3>1, <1>5 DEF TypeOK
    <3> QED
      BY <3>1, <1>2, <1>5, <1>6
  <2>3. atts' \subseteq [entry : stored', nr : Nat, file : File, sent : Time]
    <3>1. take[r] \subseteq FileRef
      BY DEF TypeOK
    <3>2. Attachments(r, take[r]) \subseteq [entry : stored', nr : Nat, file : File, sent : Time]
      BY <3>1, <1>1 DEF Attachments, FileRef
    <3> QED
      BY <3>2, <1>1 DEF TypeOK
  <2>4. \A a \in atts' : \E e \in entries' : e.id = a.entry
    <3>1. \A a \in Attachments(r, take[r]) : a.entry = r
      BY DEF Attachments
    <3>2. \A a \in atts : \E e \in entries : e.id = a.entry
      BY DEF TypeOK
    <3>3. \E e \in entries' : e.id = r
      <4>1. [id |-> r, author |-> op[r].author, source |-> ch, link |-> row] \in entries'
        BY <1>6
      <4> QED
        BY <4>1
    <3>4. entries \subseteq entries' /\ atts' = atts \cup Attachments(r, take[r])
      BY <1>6
    <3> QED
      BY Zenon, <3>1, <3>2, <3>3, <3>4
  <2>5. participants' \subseteq User /\ held' \subseteq Request /\ stored' \subseteq Request
    BY <1>1, <1>2 DEF TypeOK
  <2> QED
    BY <2>1, <2>2, <2>3, <2>4, <2>5, <1>1, <1>5 DEF TypeOK
<1>8. NoOrphanLink'
  BY <1>1, <1>2, <1>3, <1>5 DEF NoOrphanLink, Numbered
<1>9. BotsNeverLink' /\ AuthorsParticipate'
  BY <1>6 DEF BotsNeverLink, AuthorsParticipate
<1>10. Numbered'
  BY <1>3, <1>5 DEF Numbered
<1>11. Placed'
  BY <1>1, <1>2 DEF Placed
<1>12. Exclusive'
  BY <1>1, <1>2, <1>3, <1>5 DEF Exclusive, Pending, Open, Linked, ch
<1>13. Referred'
  <2>1. ASSUME NEW q \in Request, pc[q] = "files", own[q] = 0, q # r
        PROVE  q \in held' /\ found[q] = link'[op[q].channel]
    <3>1. found[q] # 0 /\ found[q] = link[op[q].channel] /\ q \in held
      BY <2>1 DEF Referred, Linked
    <3>2. op[q].channel \in Channel
      BY <2>1 DEF Placed, TypeOK, Operation
    <3> QED
      BY <3>1, <3>2, <1>5, <2>1
  <2> QED
    BY <2>1, <1>1 DEF Referred, Linked
<1>14. Authored'
  BY <1>1, <1>6 DEF Authored, IsAuthor
<1> QED
  BY <1>7, <1>8, <1>9, <1>10, <1>11, <1>12, <1>13, <1>14

\* The commit of an entry a caller wrote.
LEMMA CommitDirectKeeps == ASSUME TInv, NEW r \in Request, CommitDirectEntry(r) PROVE TInv'
<1> USE DEF TInv, CommitDirectEntry, tx
<1>1. /\ pc[r] = "store" /\ pc'[r] = "done" /\ pc' \in [Request -> Label]
      /\ \A q \in Request \ {r} : pc'[q] = pc[q]
      /\ stored' = stored \cup {r}
  BY DEF Committed, Finish, TypeOK, Label
<1>2. /\ op[r].kind = "direct" /\ r \notin stored /\ own[r] = 0
      /\ op[r].author \in User /\ op[r].files \in Sent
  BY <1>1 DEF Placed, TypeOK, Operation
<1>3. TypeOK'
  <2>1. entries' \subseteq
          [id : stored', author : User, source : Channel \cup {None}, link : Nat]
    BY <1>1, <1>2 DEF TypeOK
  <2>2. \A e \in entries' : e.link # 0 => e.source # None /\ e.link = link'[e.source]
    BY DEF TypeOK
  <2>3. /\ atts' \subseteq [entry : stored', nr : Nat, file : File, sent : Time]
        /\ \A a \in atts' : \E e \in entries' : e.id = a.entry
    <3> DEFINE new == Attachments(r, {[nr |-> i, file |-> op[r].files[i], sent |-> clock] :
                                        i \in DOMAIN op[r].files})
    <3>1. new \subseteq [entry : {r}, nr : Nat, file : File, sent : Time]
      <4>1. \A i \in DOMAIN op[r].files : i \in Nat /\ op[r].files[i] \in File
        BY <1>2, TimelineAssumption
      <4> QED
        BY <4>1 DEF Attachments, TypeOK
    <3>2. \A a \in atts : \E e \in entries : e.id = a.entry
      BY DEF TypeOK
    <3>3. \E e \in entries' : e.id = r
      <4>1. [id |-> r, author |-> op[r].author, source |-> None, link |-> 0] \in entries'
        OBVIOUS
      <4> QED
        BY <4>1
    <3>4. entries \subseteq entries' /\ atts' = atts \cup new
      OBVIOUS
    <3> HIDE DEF new
    <3>5. \A a \in new : a.entry = r
      BY <3>1
    <3>6. \A a \in atts' : \E e \in entries' : e.id = a.entry
      BY Zenon, <3>2, <3>3, <3>4, <3>5
    <3> QED
      BY <3>1, <3>4, <3>6, <1>1 DEF TypeOK
  <2>4. participants' \subseteq User /\ stored' \subseteq Request
    BY <1>1, <1>2 DEF TypeOK
  <2> QED
    BY <2>1, <2>2, <2>3, <2>4, <1>1 DEF TypeOK
<1>4. (NoOrphanLink /\ BotsNeverLink /\ AuthorsParticipate /\ Numbered)'
  BY <1>1 DEF NoOrphanLink, BotsNeverLink, AuthorsParticipate, Numbered
<1>5. Placed'
  BY <1>1, <1>2 DEF Placed
<1>6. (Exclusive /\ Referred)'
  BY <1>1 DEF Exclusive, Pending, Open, Referred, Linked
<1>7. Authored'
  BY <1>1 DEF Authored, IsAuthor
<1> QED
  BY <1>3, <1>4, <1>5, <1>6, <1>7

\* A deletion takes the entry's files along and leaves the other rows alone.
LEMMA DeleteKeeps == ASSUME TInv, NEW r \in Request, DeleteEntry(r) PROVE TInv'
<1> USE DEF TInv, DeleteEntry, tx
<1>1. /\ pc[r] = "remove" /\ pc'[r] = "done" /\ pc' \in [Request -> Label]
      /\ \A q \in Request \ {r} : pc'[q] = pc[q]
      /\ entries' \subseteq entries /\ atts' \subseteq atts
  BY DEF Finish, TypeOK, Label
<1>2. \A a \in atts' : \E e \in entries' : e.id = a.entry
  <2>1. CASE entries' = entries
    BY <1>1, <2>1 DEF TypeOK
  <2>2. CASE /\ entries' = {e \in entries : e.id # op[r].entry}
             /\ atts' = {a \in atts : a.entry # op[r].entry}
    BY <2>2 DEF TypeOK
  <2> QED
    BY <2>1, <2>2
<1>3. TypeOK'
  BY <1>1, <1>2 DEF TypeOK
<1>4. (NoOrphanLink /\ BotsNeverLink /\ AuthorsParticipate /\ Numbered)'
  BY <1>1 DEF NoOrphanLink, BotsNeverLink, AuthorsParticipate, Numbered
<1>5. (Placed /\ Exclusive /\ Referred)'
  BY <1>1 DEF Placed, Exclusive, Pending, Open, Referred, Linked
<1>6. Authored'
  BY <1>1 DEF Authored, IsAuthor
<1> QED
  BY <1>3, <1>4, <1>5, <1>6

\* Unlinking waits for the transactions that refer to the row, and clears the
\* references of the stored entries.
LEMMA UnlinkKeeps == ASSUME TInv, NEW ch \in Channel, UnlinkChannel(ch) PROVE TInv'
<1> USE DEF TInv, UnlinkChannel, tx
<1>1. /\ link' \in [Channel -> Nat] /\ link'[ch] = 0
      /\ \A c \in Channel \ {ch} : link'[c] = link[c]
  BY DEF TypeOK
<1> DEFINE Cleared(e) == [e EXCEPT !.link = IF e.source = ch THEN 0 ELSE @]
<1>2. entries' = {Cleared(e) : e \in entries}
  OBVIOUS
<1>3. ASSUME NEW e \in entries
      PROVE  /\ Cleared(e) \in [id : stored, author : User, source : Channel \cup {None},
                                link : Nat]
             /\ Cleared(e).id = e.id /\ Cleared(e).author = e.author
             /\ Cleared(e).link # 0 =>
                  Cleared(e).source # None /\ Cleared(e).link = link'[Cleared(e).source]
  <2>1. e \in [id : stored, author : User, source : Channel \cup {None}, link : Nat]
    BY DEF TypeOK
  <2>2. e.link # 0 => e.source # None /\ e.link = link[e.source]
    BY DEF TypeOK
  <2> QED
    BY <2>1, <2>2, <1>1
<1> HIDE DEF Cleared
<1>4. TypeOK'
  <2>1. \A a \in atts' : \E e \in entries' : e.id = a.entry
    <3>1. \A a \in atts : \E e \in entries : e.id = a.entry
      BY DEF TypeOK
    <3> QED
      BY <3>1, <1>2, <1>3
  <2> QED
    BY <1>1, <1>2, <1>3, <2>1 DEF TypeOK
<1>5. (NoOrphanLink /\ BotsNeverLink /\ Numbered)'
  BY <1>1 DEF NoOrphanLink, BotsNeverLink, Numbered, TypeOK
<1>6. AuthorsParticipate'
  BY <1>2, <1>3 DEF AuthorsParticipate
<1>7. Placed'
  BY DEF Placed
<1>8. Exclusive'
  BY <1>1 DEF Exclusive, Pending, Open, Linked, Placed, TypeOK, Operation
<1>9. Referred'
  <2>1. ASSUME NEW q \in Request, pc[q] = "files", own[q] = 0 PROVE Linked(q)' = Linked(q)
    <3>1. q \in held /\ op[q].channel \in Channel
      BY <2>1 DEF Referred, Placed, TypeOK, Operation
    <3> QED
      BY <3>1, <1>1 DEF Linked
  <2> QED
    BY <2>1 DEF Referred
<1>10. Authored'
  BY <1>2, <1>3 DEF Authored, IsAuthor
<1> QED
  BY <1>4, <1>5, <1>6, <1>7, <1>8, <1>9, <1>10

\* Linking a channel by hand waits for an automatic link that is not committed.
LEMMA LinkKeeps == ASSUME TInv, NEW ch \in Channel, LinkChannel(ch) PROVE TInv'
<1> USE DEF TInv, LinkChannel, tx
<1>1. /\ link' \in [Channel -> Nat] /\ link'[ch] = made + 1 /\ made' = made + 1
      /\ \A c \in Channel \ {ch} : link'[c] = link[c]
  BY DEF TypeOK
<1>2. \A q \in Request : Pending(q) => op[q].channel # ch
  BY TimelineAssumption DEF LinkInsertable
<1>3. TypeOK'
  BY <1>1 DEF TypeOK
<1>4. NoOrphanLink'
  BY <1>1 DEF NoOrphanLink, Numbered, TypeOK
<1>5. (BotsNeverLink /\ AuthorsParticipate)'
  BY DEF BotsNeverLink, AuthorsParticipate
<1>6. Numbered'
  BY <1>1 DEF Numbered, TypeOK
<1>7. Placed'
  BY DEF Placed
<1>8. Exclusive'
  BY <1>1, <1>2 DEF Exclusive, Pending, Open, Linked, Placed, TypeOK, Operation
<1>9. Referred'
  <2>1. ASSUME NEW q \in Request, pc[q] = "files", own[q] = 0 PROVE Linked(q)' = Linked(q)
    <3>1. Linked(q) # 0 /\ op[q].channel \in Channel
      BY <2>1 DEF Referred, Placed, TypeOK, Operation
    <3> QED
      BY <3>1, <1>1 DEF Linked
  <2> QED
    BY <2>1 DEF Referred
<1>10. Authored'
  BY DEF Authored, IsAuthor
<1> QED
  BY <1>3, <1>4, <1>5, <1>6, <1>7, <1>8, <1>9, <1>10

\* The requests that can arrive are operations.
LEMMA ArrivalsKeep ==
    ASSUME TInv, NEW r \in Request, NEW o, Arrive(r, o),
           \/ \E c \in Caller, ch \in Channel \cup {None}, files \in Sent :
                o = [kind |-> "direct", caller |-> c, author |-> c.actor, channel |-> ch,
                     files |-> files]
           \/ \E c \in Caller, ch \in Channel, list \in Cited : \E a \in AuthorizedActors(c) :
                o = [kind |-> "llm", caller |-> c, author |-> a, channel |-> ch,
                     cited |-> list]
           \/ \E c \in Caller, e \in Request :
                o = [kind |-> "delete", caller |-> c, channel |-> None, entry |-> e]
    PROVE  TInv'
<1>1. \A c \in Caller : c.actor \in User /\ AuthorizedActors(c) \subseteq User
  BY TimelineAssumption DEF AuthorizedActors
<1>2. o \in Operation /\ o.kind \in {"direct", "llm", "delete"}
  BY <1>1 DEF Operation
<1> QED
  BY <1>2, ArriveKeeps

\* Every step keeps the invariant.
LEMMA InductiveTInv == TInv /\ [Next]_vars => TInv'
<1> SUFFICES ASSUME TInv, [Next]_vars PROVE TInv'
  OBVIOUS
<1>1. CASE UNCHANGED vars \/ SoftDelete \/ Tick
  <2>1. /\ UNCHANGED <<tables, pc, op, tx, stored, outcome>>
        /\ deleted' \in BOOLEAN /\ clock' \in Time
    BY <1>1 DEF vars, SoftDelete, Tick, TInv, TypeOK
  <2>2. TypeOK'
    BY <2>1 DEF tables, tx, TInv, TypeOK
  <2>3. (NoOrphanLink /\ BotsNeverLink /\ AuthorsParticipate /\ Numbered)'
    BY <2>1 DEF tables, tx, TInv, NoOrphanLink, BotsNeverLink, AuthorsParticipate, Numbered
  <2>4. (Placed /\ Exclusive /\ Referred /\ Authored)'
    BY <2>1 DEF tables, tx, TInv, Placed, Exclusive, Pending, Open, Linked, Referred,
       Authored, IsAuthor
  <2> QED
    BY <2>2, <2>3, <2>4 DEF TInv
<1>2. ASSUME NEW r \in Request, Serve(r) PROVE TInv'
  <2>1. CASE GetByID(r) \/ CanAccessMatter(r)
    BY <2>1, ChecksKeep
  <2>2. CASE CreateDirect(r)
    BY <2>2, ArrivalsKeep, CommitDirectKeeps DEF CreateDirect
  <2>3. CASE CreateFromMessages(r)
    BY <2>3, ArrivalsKeep, ChecksKeep, FindKeeps, CreateLinkKeeps, RefindKeeps,
       InsertEntryKeeps, CheckFileKeeps, CommitLLMKeeps DEF CreateFromMessages
  <2>4. CASE Delete(r)
    BY <2>4, ArrivalsKeep, ChecksKeep, DeleteKeeps DEF Delete
  <2> QED
    BY <1>2, <2>1, <2>2, <2>3, <2>4 DEF Serve
<1>3. ASSUME NEW r \in Request, Fail(r) PROVE TInv'
  BY <1>3, RollbackKeeps DEF Fail
<1> QED
  BY <1>1, <1>2, <1>3, UnlinkKeeps, LinkKeeps DEF Next, Others, Quiet

\* The invariant holds in every reachable state.
THEOREM TimelineInvariant == Spec => []TInv
BY InitTInv, InductiveTInv, PTL DEF Spec

\* The rows have their types and refer to rows that exist: the foreign keys of the
\* entries and the files hold whatever is unlinked or deleted meanwhile.
THEOREM TimelineTypes == Spec => []TypeOK
<1>1. TInv => TypeOK
  BY DEF TInv
<1> QED
  BY <1>1, TimelineInvariant, PTL

\* The transaction of createFromMessages links a channel only with its entry.
THEOREM LinksHaveEntries == Spec => []NoOrphanLink
<1>1. TInv => NoOrphanLink
  BY DEF TInv
<1> QED
  BY <1>1, TimelineInvariant, PTL

\* A bot never links a channel, whatever is unlinked while the model works.
THEOREM LinksAreMadeByUsers == Spec => []BotsNeverLink
<1>1. TInv => BotsNeverLink
  BY DEF TInv
<1> QED
  BY <1>1, TimelineInvariant, PTL

\* Every author on the timeline is a participant of the matter.
THEOREM AuthorsAreParticipants == Spec => []AuthorsParticipate
<1>1. TInv => AuthorsParticipate
  BY DEF TInv
<1> QED
  BY <1>1, TimelineInvariant, PTL

\* Only a deletion removes an entry.
LEMMA EntriesStay ==
    ASSUME TInv, [Next]_vars, \A r \in Request : ~DeleteEntry(r)
    PROVE  \A e \in entries : \E d \in entries' : d.id = e.id
<1>1. CASE entries \subseteq entries'
  BY <1>1
<1>2. ASSUME NEW ch \in Channel, UnlinkChannel(ch)
      PROVE  \A e \in entries : \E d \in entries' : d.id = e.id
  <2> SUFFICES ASSUME NEW e \in entries PROVE \E d \in entries' : d.id = e.id
    OBVIOUS
  <2>1. [e EXCEPT !.link = IF e.source = ch THEN 0 ELSE @] \in entries'
    BY <1>2 DEF UnlinkChannel
  <2>2. e \in [id : stored, author : User, source : Channel \cup {None}, link : Nat]
    BY DEF TInv, TypeOK
  <2> QED
    BY <2>1, <2>2
<1>3. CASE \A ch \in Channel : ~UnlinkChannel(ch)
  <2>1. CASE UNCHANGED vars \/ Others
    BY <2>1, <1>1, <1>3 DEF vars, tables, Others, LinkChannel, SoftDelete, Tick
  <2>2. ASSUME NEW r \in Request, Serve(r) \/ Fail(r) PROVE entries \subseteq entries'
    <3>1. CASE GetByID(r) \/ CanAccessMatter(r) \/ Fail(r) \/ GetEntry(r)
      BY <3>1 DEF GetByID, CanAccessMatter, Fail, Rollback, GetEntry, tables
    <3>2. CASE CreateDirect(r)
      BY <3>2 DEF CreateDirect, Arrive, CommitDirectEntry, tables
    <3>3. CASE CreateFromMessages(r)
      BY <3>3 DEF CreateFromMessages, Arrive, AskModel, Find, CreateLink, Refind, Rollback,
         InsertEntry, CheckFile, CommitLLMEntry, tables
    <3>4. CASE Delete(r)
      BY <3>4, <3>1 DEF Delete, Arrive, tables
    <3> QED
      BY <2>2, <3>1, <3>2, <3>3, <3>4 DEF Serve
  <2> QED
    BY <2>1, <2>2, <1>1 DEF Next, Quiet
<1> QED
  BY <1>2, <1>3

\* A deletion removes the entry it names, whose author has asked for it.
LEMMA DeletionIsTheAuthors ==
    ASSUME TInv, NEW r \in Request, DeleteEntry(r),
           NEW e \in entries, \A d \in entries' : d.id # e.id
    PROVE  /\ pc[r] = "remove" /\ pc'[r] = "done"
           /\ op[r].entry = e.id /\ op[r].caller.actor = e.author
<1>1. pc[r] = "remove" /\ pc'[r] = "done"
  BY DEF DeleteEntry, Finish, TInv, TypeOK
<1>2. op[r].entry = e.id
  BY DEF DeleteEntry
<1>3. op[r].caller.actor = e.author
  BY <1>1, <1>2 DEF TInv, Authored, IsAuthor
<1> QED
  BY <1>1, <1>2, <1>3

\* Whatever else happens to the matter, an entry leaves its timeline only by a
\* deletion that its author asked for, together with its files.
THEOREM DeletionsAreTheAuthors == Spec => OnlyAuthorsDelete
<1>1. ASSUME TInv, TInv', [Next]_vars
      PROVE  /\ \A e \in entries : (\A d \in entries' : d.id # e.id) =>
                  \E r \in Request : /\ pc[r] = "remove" /\ pc'[r] = "done"
                                     /\ op[r].entry = e.id /\ op[r].caller.actor = e.author
             /\ \A a \in atts' : \E e \in entries' : e.id = a.entry
  <2>1. \A a \in atts' : \E e \in entries' : e.id = a.entry
    BY <1>1 DEF TInv, TypeOK
  <2>2. ASSUME NEW e \in entries, \A d \in entries' : d.id # e.id
        PROVE  \E r \in Request : /\ pc[r] = "remove" /\ pc'[r] = "done"
                                  /\ op[r].entry = e.id /\ op[r].caller.actor = e.author
    <3>1. PICK r \in Request : DeleteEntry(r)
      BY <1>1, <2>2, EntriesStay
    <3> QED
      BY <1>1, <2>2, <3>1, DeletionIsTheAuthors
  <2> QED
    BY <2>1, <2>2
<1> QED
  BY <1>1, TimelineInvariant, PTL DEF Spec, OnlyAuthorsDelete
-----------------------------------------------------------------------------
\* A set of numbers that is not empty has a least one.
LEMMA LeastNumber ==
    ASSUME NEW T, T \subseteq Nat, T # {}
    PROVE  \E n \in T : \A m \in T : n <= m
<1> DEFINE less == OpToRel(<, Nat)
<1>1. IsWellFoundedOn(less, Nat)
  BY NatLessThanWellFounded
<1>2. \A a, b \in Nat : a < b => <<a, b>> \in less
  BY DEF OpToRel
<1> HIDE DEF less
<1>3. PICK n \in T : \A m \in T : ~ (<<m, n>> \in less)
  BY Zenon, <1>1, WFMin
<1>4. \A m \in T : ~ (m < n)
  BY <1>2, <1>3
<1> QED
  BY <1>4

\* Of the rows of one file, one comes before all others: by the time it was sent,
\* and by its id, its entry and its number there, among those that were sent at the
\* same time.
LEMMA OneRowIsFirst ==
    ASSUME NEW rows, NEW E, NEW F, NEW T, E \subseteq Nat, T \subseteq Nat,
           rows \subseteq [entry : E, nr : Nat, file : F, sent : T], NEW a \in rows
    PROVE  \E o \in rows : {p \in Outputs(rows) : p.file = a.file} = {o}
<1>1. \A b \in rows : b.sent \in Nat /\ b.entry \in Nat /\ b.nr \in Nat
  OBVIOUS
<1> DEFINE same  == {b \in rows : b.file = a.file}
           sents == {b.sent : b \in same}
<1>2. PICK s \in sents : \A t \in sents : s <= t
  <2>1. sents \subseteq Nat /\ a.sent \in sents
    BY <1>1
  <2> QED
    BY <2>1, LeastNumber
<1> DEFINE early == {b \in same : b.sent = s}
           ids   == {b.entry : b \in early}
<1>3. PICK n \in ids : \A m \in ids : n <= m
  <2>1. ids \subseteq Nat /\ ids # {}
    BY <1>1, <1>2
  <2> QED
    BY <2>1, LeastNumber
<1> DEFINE first == {b \in early : b.entry = n}
           nrs   == {b.nr : b \in first}
<1>4. PICK k \in nrs : \A m \in nrs : k <= m
  <2>1. nrs \subseteq Nat /\ nrs # {}
    BY <1>1, <1>3
  <2> QED
    BY <2>1, LeastNumber
<1>5. PICK o \in first : o.nr = k
  BY <1>4
<1>6. o \in rows /\ o.file = a.file /\ o.sent = s /\ o.entry = n
  BY <1>5
<1>7. ASSUME NEW b \in rows, b.file = a.file
      PROVE  /\ s <= b.sent /\ (b.sent = s => n <= b.entry)
             /\ b.sent = s /\ b.entry = n => k <= b.nr
  <2>1. b.sent \in sents
    BY <1>7
  <2>2. b.sent = s => b.entry \in ids
    BY <1>7
  <2>3. b.sent = s /\ b.entry = n => b.nr \in nrs
    BY <1>7
  <2> QED
    BY <2>1, <2>2, <2>3, <1>2, <1>3, <1>4
<1> HIDE DEF same, sents, early, ids, first, nrs
<1>8. o \in Outputs(rows)
  <2> SUFFICES ASSUME NEW b \in rows, b.file = a.file
               PROVE  ~(b.sent < o.sent \/ (b.sent = o.sent /\ SmallerId(b, o)))
    BY <1>6 DEF Outputs
  <2> QED
    BY <1>1, <1>5, <1>6, <1>7 DEF SmallerId
<1>9. ASSUME NEW p \in Outputs(rows), p.file = a.file PROVE p = o
  <2>1. /\ p \in rows /\ s <= p.sent /\ (p.sent = s => n <= p.entry)
        /\ p.sent = s /\ p.entry = n => k <= p.nr
    BY <1>7, <1>9 DEF Outputs
  <2>2. ~(o.sent < p.sent) /\ ~(o.sent = p.sent /\ SmallerId(o, p))
    BY <1>6, <1>9 DEF Outputs
  <2>3. p.sent = s
    BY <1>1, <1>6, <2>1, <2>2
  <2>4. p.entry = n
    BY <1>1, <1>6, <2>1, <2>2, <2>3 DEF SmallerId
  <2>5. p.nr = k
    BY <1>1, <1>5, <1>6, <2>1, <2>2, <2>3, <2>4 DEF SmallerId
  <2> QED
    BY <1>5, <1>6, <1>9, <2>1, <2>3, <2>4, <2>5
<1> QED
  BY <1>6, <1>8, <1>9

\* ListOutputs shows every stored file in one row, although requests that look for
\* each other's files before either commits may insert several.
THEOREM OutputsAreUnique == Spec => []OneRowPerFile
<1>1. ASSUME TInv PROVE OneRowPerFile
  <2>1. atts \subseteq [entry : stored, nr : Nat, file : File, sent : Time]
    BY <1>1 DEF TInv, TypeOK
  <2>2. stored \subseteq Nat /\ Time \subseteq Nat
    BY <1>1, TimelineAssumption DEF TInv, TypeOK
  <2> SUFFICES ASSUME NEW a \in atts
               PROVE  Cardinality({o \in Outputs(atts) : o.file = a.file}) = 1
    BY DEF OneRowPerFile
  <2>3. PICK o \in atts : {p \in Outputs(atts) : p.file = a.file} = {o}
    BY <2>1, <2>2, OneRowIsFirst
  <2> QED
    BY <2>3, FS_Singleton
<1> QED
  BY <1>1, TimelineInvariant, PTL
=============================================================================
