----------------------------- MODULE PagedList -----------------------------
(***************************************************************************)
(* A client walks through a list page by page while the list changes.  The *)
(* four lists of the service (the matters of a space, the timeline, the    *)
(* activities and the files of a matter) share the scheme: the rows beyond *)
(* the cursor in the order of (time, id), one more than the limit to learn *)
(* whether there are more, and the position of the last one as the next    *)
(* cursor.  The timeline ascends, the others descend.  The list of files   *)
(* shows of each file the row that was sent first.                         *)
(*                                                                         *)
(* A writer takes the time of its row in the process and inserts it later, *)
(* so rows do not become visible in the order of their times, and ids are  *)
(* random.  A cursor carries the time as nanoseconds since 1970, for which *)
(* 64 bits are enough from 1678 to 2262.  The times of entries, activities *)
(* and matters are the server's; a file has the time that the client gave  *)
(* its message, which may be any.                                          *)
(***************************************************************************)
EXTENDS Integers, Sequences, FiniteSets

CONSTANTS
    Id,             \* row ids; numbers, compared as the strings are
    Time,           \* instants; numbers
    File,           \* what a row of the list of files shows
    Ascending,      \* the timeline
    Dedup,          \* the list of files
    Gated,          \* each page is preceded by an access check: all but matters
    NewRow,         \* bound: the rows that writers may add
    Carried,        \* the time that comes back from a cursor, for each time
    Filters,        \* what the filter of the list, such as a search for files, leaves out
    Limit,          \* rows of a page; the handlers keep it positive
    InitialRows,    \* rows in the table when the walk begins
    None

ASSUME PagedListAssumption ==
    /\ Id \subseteq Int /\ Time \subseteq Int
    /\ Ascending \in BOOLEAN /\ Dedup \in BOOLEAN /\ Gated \in BOOLEAN
    /\ Carried \in [Time -> Int] /\ Filters \subseteq SUBSET Id
    /\ Limit \in Nat \ {0}
    /\ NewRow \subseteq [id : Id, at : Time, file : File]
    /\ InitialRows \subseteq [id : Id, at : Time, file : File]
    /\ IsFiniteSet(InitialRows)
    /\ \A a, b \in InitialRows : a.id = b.id => a = b
    /\ None \notin [id : Id, at : Int]

VARIABLES
    rows,       \* the committed rows
    hidden,     \* ids that the filter of the list leaves out at present
    written,    \* rows that have their time and are not yet committed
    allowed,    \* may the caller read the matter?
    phase,      \* of the client: "ready", "checked", "ended" or "refused"
    cursor,     \* the position of the last row of the page before, None at first
    pages,      \* what has been delivered
    steady,     \* rows listed ever since the first page was read (ghost)
    lasting     \* rows committed ever since the first page was read (ghost)

ghosts == <<steady, lasting>>
vars   == <<rows, hidden, written, allowed, phase, cursor, pages, ghosts>>

Row      == [id : Id, at : Time, file : File]
Position == [id : Id, at : Int]

\* EncodeCursor, and DecodeCursor when the next page is asked for.
Cursor(a) == [id |-> a.id, at |-> Carried[a.at]]

\* ORDER BY the time, then the id.
Earlier(a, b) == a.at < b.at \/ (a.at = b.at /\ a.id < b.id)
Before(a, b)  == IF Ascending THEN Earlier(a, b) ELSE Earlier(b, a)

\* Mutant: the cursor is the time alone.
LaterTime(r) == cursor = None \/ (IF Ascending THEN r.at > cursor.at ELSE r.at < cursor.at)

\* Mutant: the row of the cursor is taken again.
NotBefore(r) == cursor = None \/ ~Before(r, cursor)

Beyond(r) == cursor = None \/ Before(cursor, r)

\* Mutant: the smallest id of a file is taken for its first copy.
LeastId(a, table) == ~Dedup \/ \A b \in table : b.file = a.file => a.id <= b.id

\* The anti-join of the list of files.
Represents(a, table) == ~Dedup \/ \A b \in table : b.file = a.file => ~Earlier(b, a)

Listed(table, hid) == {a \in table : Represents(a, table) /\ a.id \notin hid}

\* LIMIT n: the first n rows in the order of the list, or all when they are
\* fewer.  The set holds one answer, the order being total.
Limited(n, set) ==
    {p \in SUBSET set :
        /\ \A r \in p, q \in set : Before(q, r) => q \in p
        /\ IF Cardinality(set) <= n THEN p = set ELSE Cardinality(p) = n}

Delivered == UNION {pages[i] : i \in DOMAIN pages}
-----------------------------------------------------------------------------
\* The rows that stay through a change.
Track(table, hid) == /\ steady' = steady \cap Listed(table, hid)
                     /\ lasting' = lasting \cap table

\* A writer takes the time and a new id.  Nothing ties the time to the moment
\* of the insert: clocks differ, and the files of a message carry its time.
Write(r) ==
    /\ \A q \in rows \cup written : q.id # r.id
    /\ written' = written \cup {r}
    /\ UNCHANGED <<rows, hidden, allowed, phase, cursor, pages, ghosts>>

Commit(r) ==
    /\ r \in written
    /\ written' = written \ {r}
    /\ rows' = rows \cup {r}
    /\ Track(rows', hidden)
    /\ UNCHANGED <<hidden, allowed, phase, cursor, pages>>

Rollback(r) ==
    /\ r \in written
    /\ written' = written \ {r}
    /\ UNCHANGED <<rows, hidden, allowed, phase, cursor, pages, ghosts>>

\* DELETE of an entry with its files; matters are hidden instead.
Remove(r) ==
    /\ r \in rows
    /\ rows' = rows \ {r}
    /\ Track(rows', hidden)
    /\ UNCHANGED <<hidden, written, allowed, phase, cursor, pages>>

\* A matter leaves or enters the list: its status, its people, its channels or
\* its deletion decide.  The rows of the other lists do not change.
Refilter(r) ==
    /\ ~Gated
    /\ r \in rows
    /\ hidden' = IF r.id \in hidden THEN hidden \ {r.id} ELSE hidden \cup {r.id}
    /\ Track(rows, hidden')
    /\ UNCHANGED <<rows, written, allowed, phase, cursor, pages>>

\* The matter is deleted or the caller loses its access.
Revoke ==
    /\ Gated /\ allowed
    /\ allowed' = FALSE
    /\ UNCHANGED <<rows, hidden, written, phase, cursor, pages, ghosts>>
-----------------------------------------------------------------------------
\* GetByID and CanAccessMatter, statements of their own.
Check ==
    /\ phase = "ready"
    /\ phase' = IF Gated /\ ~allowed THEN "refused" ELSE "checked"
    /\ UNCHANGED <<rows, hidden, written, allowed, cursor, pages, ghosts>>

\* One SELECT; the client asks again with the same cursor when it fails.
Page ==
    /\ phase = "checked"
    /\ LET listed == Listed(rows, hidden)
           rest   == {r \in listed : Beyond(r)}
       IN  /\ steady' = IF pages = <<>> THEN listed ELSE steady
           /\ lasting' = IF pages = <<>> THEN rows ELSE lasting
           /\ \E fetched \in Limited(Limit + 1, rest) :
              \E page \in Limited(Limit, fetched) :
                /\ pages' = Append(pages, page)
                /\ \/ /\ Cardinality(fetched) > Limit
                      /\ \E last \in page :
                           /\ \A r \in page : r = last \/ Before(r, last)
                           /\ cursor' = Cursor(last)
                      /\ phase' = "ready"
                   \/ /\ Cardinality(fetched) <= Limit
                      /\ phase' = "ended"
                      /\ UNCHANGED cursor
    /\ UNCHANGED <<rows, hidden, written, allowed>>

PageFails ==
    /\ phase = "checked"
    /\ phase' = "ready"
    /\ UNCHANGED <<rows, hidden, written, allowed, cursor, pages, ghosts>>
-----------------------------------------------------------------------------
Init ==
    /\ rows = InitialRows
    /\ hidden \in Filters /\ written = {}
    /\ allowed = TRUE
    /\ phase = "ready"
    /\ cursor = None
    /\ pages = <<>>
    /\ steady = {} /\ lasting = {}

Change ==
    \/ \E r \in NewRow : Write(r)
    \/ \E r \in written : Commit(r) \/ Rollback(r)
    \/ \E r \in rows : Remove(r) \/ Refilter(r)
    \/ Revoke

Next == Change \/ Check \/ Page \/ PageFails

Spec == Init /\ [][Next]_vars
-----------------------------------------------------------------------------
\* A cursor is the position of a row that has been delivered; the rows have ids of
\* their own.
TypeOK ==
    /\ rows \subseteq Row /\ IsFiniteSet(rows)
    /\ written \subseteq Row
    /\ \A a, b \in rows \cup written : a.id = b.id => a = b
    /\ hidden \subseteq Id
    /\ allowed \in BOOLEAN
    /\ phase \in {"ready", "checked", "ended", "refused"}
    /\ cursor \in Position \cup {None}
    /\ cursor # None => \E a \in Delivered : cursor = Cursor(a)
    /\ pages \in Seq(SUBSET Row)
    /\ steady \subseteq lasting /\ lasting \subseteq rows

\* Cursors have carried the times of all rows that were delivered.
Exact == \A a \in Delivered : Carried[a.at] = a.at

\* No row comes twice and every page continues after the one before, although
\* rows are inserted at and before the cursor, and its row may be gone; as long as
\* no time comes up that a cursor cannot carry.
PagesAscend ==
    Exact => \A i, j \in DOMAIN pages : i < j =>
                 \A a \in pages[i], b \in pages[j] : Before(a, b)

\* A walk that came to its end has delivered every row that was in the list all
\* the time, whatever was inserted, removed and refiltered around it; with the same
\* reservation.
WalkIsComplete == phase = "ended" /\ Exact => steady \subseteq Delivered

\* The row shown for a file is the original: no copy that was there all the time
\* was sent before it.  A file comes on two pages only when an earlier copy is
\* stored during the walk.
ShowsOriginal ==
    Dedup => \A a \in Delivered, b \in lasting : a.file = b.file => ~Earlier(b, a)
=============================================================================
