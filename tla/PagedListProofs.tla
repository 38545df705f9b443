-------------------------- MODULE PagedListProofs --------------------------
(***************************************************************************)
(* The walk of PagedList for every table, limit, order and interleaving.   *)
(* What has been delivered ends at the cursor (Behind), and of the rows    *)
(* that were listed all the time those not delivered lie beyond it         *)
(* (Ahead), as long as cursors carry the times of the rows delivered: so a *)
(* page that is the last one leaves none of them out.                      *)
(***************************************************************************)
EXTENDS PagedList, FiniteSetTheorems, TLAPS

\* A walk has a cursor exactly between its first page and its last.
Resumable ==
    /\ pages = <<>> => cursor = None /\ steady = {} /\ lasting = {} /\ phase # "ended"
    /\ pages # <<>> /\ phase # "ended" => cursor # None

\* No row that was delivered lies beyond the cursor.
Behind == Exact /\ cursor # None /\ phase # "ended" =>
              \A a \in Delivered : ~Before(cursor, a)

\* A row listed all the time was delivered or lies beyond the cursor.
Ahead == Exact /\ cursor # None /\ phase # "ended" =>
             \A r \in steady : r \in Delivered \/ Before(cursor, r)

PInv ==
    /\ TypeOK /\ Resumable /\ Behind /\ Ahead
    /\ steady \subseteq Listed(rows, hidden)
    /\ PagesAscend /\ WalkIsComplete /\ ShowsOriginal
-----------------------------------------------------------------------------
Placed(x) == x.at \in Int /\ x.id \in Int

LEMMA RowsArePlaced == (\A r \in Row : Placed(r)) /\ (\A c \in Position : Placed(c))
  BY PagedListAssumption DEF Row, Position, Placed

\* The order of a list is total on rows and positions.
LEMMA Order ==
    ASSUME NEW a, NEW b, Placed(a), Placed(b)
    PROVE  /\ ~(Before(a, b) /\ Before(b, a))
           /\ ~Before(a, a)
           /\ a.id # b.id => Before(a, b) \/ Before(b, a)
           /\ \A c : Placed(c) => /\ Before(a, b) /\ Before(b, c) => Before(a, c)
                                  /\ ~Before(c, a) /\ Before(c, b) => Before(a, b)
  <1>1. /\ ~(Earlier(a, b) /\ Earlier(b, a)) /\ ~Earlier(a, a)
        /\ a.id # b.id => Earlier(a, b) \/ Earlier(b, a)
        /\ \A c : Placed(c) => /\ Earlier(a, b) /\ Earlier(b, c) => Earlier(a, c)
                               /\ Earlier(b, a) /\ Earlier(c, b) => Earlier(c, a)
                               /\ ~Earlier(c, a) /\ Earlier(c, b) => Earlier(a, b)
                               /\ ~Earlier(a, c) /\ Earlier(b, c) => Earlier(b, a)
    BY DEF Earlier, Placed
  <1>2. \/ \A x, y : Before(x, y) <=> Earlier(x, y)
        \/ \A x, y : Before(x, y) <=> Earlier(y, x)
    BY Zenon DEF Before
  <1> QED BY <1>1, <1>2, Zenon

\* A position is the place of its row, if the time can be carried.
LEMMA Positions ==
    ASSUME NEW a \in Row
    PROVE  Cursor(a) \in Position /\ Cursor(a) # None
  <1>1. Cursor(a) \in Position
    BY PagedListAssumption DEF Cursor, Position, Row
  <1> QED BY <1>1, PagedListAssumption DEF Position

LEMMA ExactPosition ==
    ASSUME NEW a, Carried[a.at] = a.at, NEW x
    PROVE  Before(Cursor(a), x) <=> Before(a, x)
  <1>1. Cursor(a).id = a.id /\ Cursor(a).at = a.at
    BY DEF Cursor
  <1>2. /\ Earlier(Cursor(a), x) <=> Earlier(a, x)
        /\ Earlier(x, Cursor(a)) <=> Earlier(x, a)
    BY <1>1 DEF Earlier
  <1> QED BY <1>2, Zenon DEF Before

\* The prefixes of LIMIT, and what it means that there are no more rows.
LEMMA TwoLimits ==
    ASSUME NEW rest, NEW fetched \in Limited(Limit + 1, rest),
           NEW page \in Limited(Limit, fetched)
    PROVE  /\ page \subseteq fetched /\ fetched \subseteq rest
           /\ \A r \in page, q \in rest : Before(q, r) => q \in page
           /\ Cardinality(fetched) <= Limit => page = rest
  <1>1. Limit \in Nat /\ Limit # 0
    BY PagedListAssumption
  <1>2. /\ page \subseteq fetched /\ fetched \subseteq rest
        /\ \A r \in page, q \in fetched : Before(q, r) => q \in page
        /\ \A r \in fetched, q \in rest : Before(q, r) => q \in fetched
    BY DEF Limited
  <1>3. ASSUME Cardinality(fetched) <= Limit PROVE page = rest
    <2>1. page = fetched
      BY <1>3 DEF Limited
    <2>2. Cardinality(fetched) # Limit + 1
      BY <1>1, <1>3
    <2>3. fetched = rest
      BY <2>2 DEF Limited
    <2> QED BY <2>1, <2>3
  <1> QED BY <1>2, <1>3

LEMMA DeliveredAppend ==
    ASSUME pages \in Seq(SUBSET Row), NEW page \in SUBSET Row, pages' = Append(pages, page)
    PROVE  /\ Delivered' = Delivered \cup page
           /\ DOMAIN pages' = DOMAIN pages \cup {Len(pages) + 1}
           /\ \A i \in DOMAIN pages : pages'[i] = pages[i] /\ i \in Nat /\ i <= Len(pages)
           /\ pages'[Len(pages) + 1] = page
  <1>1. /\ DOMAIN pages' = DOMAIN pages \cup {Len(pages) + 1}
        /\ \A i \in DOMAIN pages : pages'[i] = pages[i] /\ i \in Nat /\ i <= Len(pages)
        /\ pages'[Len(pages) + 1] = page
    OBVIOUS
  <1> QED BY <1>1 DEF Delivered

LEMMA Initially == ASSUME Init PROVE PInv
  <1> USE PagedListAssumption DEF Init
  <1>1. Delivered = {}
    BY DEF Delivered
  <1>2. TypeOK
    BY DEF TypeOK, Row
  <1> QED BY <1>1, <1>2 DEF PInv, Resumable, Behind, Ahead, PagesAscend, WalkIsComplete, ShowsOriginal,
             Exact

\* Whatever happens to the table leaves the walk as it is.
LEMMA Quiet ==
    ASSUME PInv, TypeOK', UNCHANGED <<phase, cursor, pages>>,
           steady' \subseteq steady, lasting' \subseteq lasting,
           steady' \subseteq Listed(rows', hidden')
    PROVE  PInv'
  <1>1. Delivered' = Delivered
    BY DEF Delivered
  <1>2. Listed(rows, hidden)' = Listed(rows', hidden')
    BY DEF Listed, Represents
  <1> QED BY <1>1, <1>2 DEF PInv, Resumable, Behind, Ahead, PagesAscend, WalkIsComplete,
             ShowsOriginal, Exact, Before, Earlier

LEMMA Changes == ASSUME PInv, Change PROVE PInv'
  <1> USE DEF PInv
  <1>d. Delivered' = Delivered
    BY DEF Change, Write, Commit, Rollback, Remove, Refilter, Revoke, Delivered
  <1>1. ASSUME NEW r \in NewRow, Write(r) PROVE PInv'
    <2>1. TypeOK'
      BY <1>1, <1>d, PagedListAssumption DEF Write, ghosts, TypeOK, Row
    <2> QED BY <1>1, <2>1, Quiet DEF Write, ghosts
  <1>2. ASSUME NEW r \in written, Commit(r) PROVE PInv'
    <2>1. IsFiniteSet(rows')
      BY <1>2, FS_AddElement DEF Commit, TypeOK
    <2>2. TypeOK'
      BY <1>2, <1>d, <2>1 DEF Commit, Track, TypeOK
    <2> QED BY <1>2, <2>2, Quiet DEF Commit, Track
  <1>3. ASSUME NEW r \in written, Rollback(r) PROVE PInv'
    <2>1. TypeOK'
      BY <1>3, <1>d DEF Rollback, ghosts, TypeOK
    <2> QED BY <1>3, <2>1, Quiet DEF Rollback, ghosts
  <1>4. ASSUME NEW r \in rows, Remove(r) PROVE PInv'
    <2>1. IsFiniteSet(rows')
      BY <1>4, FS_Subset DEF Remove, TypeOK
    <2>2. steady' \subseteq lasting'
      BY <1>4 DEF Remove, Track, TypeOK, Listed
    <2>3. TypeOK'
      BY <1>4, <1>d, <2>1, <2>2 DEF Remove, Track, TypeOK
    <2> QED BY <1>4, <2>3, Quiet DEF Remove, Track
  <1>5. ASSUME NEW r \in rows, Refilter(r) PROVE PInv'
    <2>1. hidden' \subseteq Id
      BY <1>5 DEF Refilter, TypeOK, Row
    <2>2. TypeOK'
      BY <1>5, <1>d, <2>1 DEF Refilter, Track, TypeOK
    <2> QED BY <1>5, <2>2, Quiet DEF Refilter, Track
  <1>6. ASSUME Revoke PROVE PInv'
    <2>1. TypeOK'
      BY <1>6, <1>d DEF Revoke, ghosts, TypeOK
    <2> QED BY <1>6, <2>1, Quiet DEF Revoke, ghosts
  <1> QED BY <1>1, <1>2, <1>3, <1>4, <1>5, <1>6 DEF Change

\* The check and a page that does not come move the client only.
LEMMA Waits == ASSUME PInv, Check \/ PageFails \/ UNCHANGED vars PROVE PInv'
  <1>1. /\ UNCHANGED <<rows, hidden, written, cursor, pages, steady, lasting>>
        /\ allowed' = allowed
        /\ \/ phase' = phase
           \/ phase # "ended" /\ phase' \in {"ready", "checked", "refused"}
    <2>1. CASE Check
      BY <2>1 DEF Check, ghosts
    <2>2. CASE PageFails
      BY <2>2 DEF PageFails, ghosts
    <2>3. CASE UNCHANGED vars
      BY <2>3 DEF vars, ghosts
    <2> QED BY <2>1, <2>2, <2>3
  <1>2. Delivered' = Delivered
    BY <1>1 DEF Delivered
  <1>3. TypeOK'
    BY <1>1, <1>2 DEF PInv, TypeOK
  <1>4. phase' = "ended" <=> phase = "ended"
    BY <1>1
  <1>5. Listed(rows, hidden)' = Listed(rows, hidden)
    BY <1>1 DEF Listed, Represents
  <1> QED BY <1>1, <1>2, <1>3, <1>4, <1>5
          DEF PInv, Resumable, Behind, Ahead, PagesAscend, WalkIsComplete, ShowsOriginal,
              Exact, Before, Earlier
-----------------------------------------------------------------------------
LEMMA Delivers == ASSUME PInv, Page PROVE PInv'
  <1> DEFINE listed == Listed(rows, hidden)
             rest   == {r \in listed : Beyond(r)}
  <1> PICK fetched \in Limited(Limit + 1, rest) :
        \E page \in Limited(Limit, fetched) :
            /\ pages' = Append(pages, page)
            /\ \/ /\ Cardinality(fetched) > Limit
                  /\ \E last \in page :
                       /\ \A r \in page : r = last \/ Before(r, last)
                       /\ cursor' = Cursor(last)
                  /\ phase' = "ready"
               \/ /\ Cardinality(fetched) <= Limit
                  /\ phase' = "ended"
                  /\ UNCHANGED cursor
    BY DEF Page
  <1> PICK page \in Limited(Limit, fetched) :
        /\ pages' = Append(pages, page)
        /\ \/ /\ Cardinality(fetched) > Limit
              /\ \E last \in page :
                   /\ \A r \in page : r = last \/ Before(r, last)
                   /\ cursor' = Cursor(last)
              /\ phase' = "ready"
           \/ /\ Cardinality(fetched) <= Limit
              /\ phase' = "ended"
              /\ UNCHANGED cursor
    OBVIOUS
  <1>1. /\ phase = "checked"
        /\ UNCHANGED <<rows, hidden, written, allowed>>
        /\ steady' = IF pages = <<>> THEN listed ELSE steady
        /\ lasting' = IF pages = <<>> THEN rows ELSE lasting
    BY DEF Page
  <1>2. /\ page \subseteq rest /\ rest \subseteq rows /\ rest \subseteq Row
        /\ \A r \in page, q \in rest : Before(q, r) => q \in page
        /\ Cardinality(fetched) <= Limit => page = rest
    BY TwoLimits DEF PInv, TypeOK, Listed
  <1>3. /\ Delivered' = Delivered \cup page
        /\ DOMAIN pages' = DOMAIN pages \cup {Len(pages) + 1}
        /\ \A i \in DOMAIN pages : pages'[i] = pages[i] /\ i \in Nat /\ i <= Len(pages)
        /\ pages'[Len(pages) + 1] = page
        /\ pages' \in Seq(SUBSET Row) /\ pages' # <<>>
        /\ Len(pages) \in Nat
    BY <1>2, DeliveredAppend DEF PInv, TypeOK
  <1>4. listed' = listed /\ steady' \subseteq listed
    BY <1>1 DEF PInv, Listed, Represents
  \* Nothing is delivered before the first page, and a later page has a cursor.
  <1>5. /\ cursor = None <=> pages = <<>>
        /\ pages = <<>> => Delivered = {}
        /\ Delivered \subseteq Row
    <2>1. pages = <<>> => DOMAIN pages = {}
      OBVIOUS
    <2>2. Delivered \subseteq Row
      BY DEF PInv, TypeOK, Delivered
    <2> QED BY <1>1, <2>1, <2>2 DEF PInv, Resumable, Delivered
  \* The rows of the page come after everything delivered before.
  <1>6. ASSUME Exact, NEW a \in Delivered, NEW b \in page PROVE Before(a, b)
    <2>1. cursor # None /\ cursor \in Position
      BY <1>5, <1>6 DEF PInv, TypeOK
    <2>2. Before(cursor, b)
      BY <1>2, <2>1 DEF Beyond
    <2>3. ~Before(cursor, a)
      BY <1>1, <1>6, <2>1 DEF PInv, Behind
    <2>4. Placed(a) /\ Placed(b) /\ Placed(cursor)
      BY <1>2, <1>5, <2>1, RowsArePlaced
    <2> QED BY <2>2, <2>3, <2>4, Order
  \* What a cursor cannot carry stays delivered.
  <1>e. Exact' => Exact /\ \A r \in page : Carried[r.at] = r.at
    BY <1>3 DEF Exact
  <1>7. TypeOK'
    <2>1. /\ cursor' \in Position \cup {None}
          /\ cursor' # None => \E a \in Delivered' : cursor' = Cursor(a)
      BY <1>2, <1>3, Positions DEF PInv, TypeOK
    <2>2. steady' \subseteq lasting' /\ lasting' \subseteq rows'
      BY <1>1 DEF PInv, TypeOK, Listed
    <2> QED BY <1>1, <1>3, <2>1, <2>2 DEF PInv, TypeOK
  <1>8. PagesAscend'
    <2> SUFFICES ASSUME Exact', NEW i \in DOMAIN pages', NEW j \in DOMAIN pages', i < j,
                        NEW a \in pages'[i], NEW b \in pages'[j]
                 PROVE  Before(a, b)'
      BY DEF PagesAscend
    <2> SUFFICES Before(a, b)
      BY DEF Before, Earlier
    <2>1. i \in DOMAIN pages
      BY <1>3
    <2>2. a \in Delivered
      BY <1>3, <2>1 DEF Delivered
    <2>3. CASE j \in DOMAIN pages
      BY <1>3, <1>e, <2>1, <2>3 DEF PInv, PagesAscend
    <2>4. CASE j = Len(pages) + 1
      BY <1>3, <1>e, <1>6, <2>2, <2>4
    <2> QED BY <1>3, <2>3, <2>4
  \* No copy that was there all the time was sent before a row of the page.
  <1>9. ShowsOriginal'
    <2> SUFFICES ASSUME Dedup, NEW a \in Delivered', NEW b \in lasting', a.file = b.file
                 PROVE  ~Earlier(b, a)
      BY DEF ShowsOriginal, Earlier
    <2>1. CASE a \in page
      BY <1>1, <1>2, <2>1 DEF PInv, TypeOK, Listed, Represents
    <2>2. CASE a \in Delivered
      BY <1>1, <1>5, <2>2 DEF PInv, ShowsOriginal
    <2> QED BY <1>3, <2>1, <2>2
  \* A row listed all the time is delivered, or among those looked at.
  <1>10. ASSUME Exact, NEW r \in steady' PROVE r \in Delivered \/ r \in rest
    <2>1. CASE pages = <<>>
      BY <1>1, <1>5, <2>1 DEF Beyond
    <2>2. CASE pages # <<>>
      <3>1. r \in steady /\ cursor # None
        BY <1>1, <1>5, <2>2
      <3>2. r \in Delivered \/ Before(cursor, r)
        BY <1>1, <1>10, <3>1 DEF PInv, Ahead
      <3> QED BY <1>4, <3>2 DEF Beyond
    <2> QED BY <2>1, <2>2
  <1>11. CASE Cardinality(fetched) <= Limit /\ phase' = "ended" /\ UNCHANGED cursor
    <2>1. WalkIsComplete'
      BY <1>2, <1>3, <1>e, <1>10, <1>11 DEF WalkIsComplete
    <2>2. Resumable' /\ Behind' /\ Ahead'
      BY <1>3, <1>11 DEF Resumable, Behind, Ahead
    <2> QED BY <1>4, <1>7, <1>8, <1>9, <2>1, <2>2 DEF PInv
  <1>12. ASSUME phase' = "ready", NEW last \in page, cursor' = Cursor(last),
                \A r \in page : r = last \/ Before(r, last)
         PROVE  PInv'
    <2>1. cursor' # None /\ last \in Row
      BY <1>2, <1>12, Positions
    <2>2. Resumable' /\ WalkIsComplete'
      BY <1>3, <1>12, <2>1 DEF Resumable, WalkIsComplete
    <2>3. Exact' => \A x : Before(cursor', x) <=> Before(last, x)
      <3>1. Exact' => Carried[last.at] = last.at
        BY <1>e
      <3> QED BY <1>12, <3>1, ExactPosition
    <2>4. Behind'
      <3> SUFFICES ASSUME Exact', NEW a \in Delivered' PROVE ~Before(cursor', a)
        BY DEF Behind, Before, Earlier
      <3>1. a = last \/ Before(a, last)
        BY <1>3, <1>e, <1>6, <1>12
      <3>2. Placed(a) /\ Placed(last)
        BY <1>2, <1>3, <1>5, <2>1, RowsArePlaced
      <3> QED BY <2>3, <3>1, <3>2, Order
    <2>5. Ahead'
      <3> SUFFICES ASSUME Exact', NEW r \in steady', r \notin Delivered' PROVE Before(cursor', r)
        BY DEF Ahead, Before, Earlier
      <3>1. r \in rest /\ r \notin page
        BY <1>3, <1>e, <1>10
      <3>2. ~Before(r, last) /\ r # last
        BY <1>2, <3>1
      <3>3. r.id # last.id
        BY <1>2, <3>1, <3>2 DEF PInv, TypeOK
      <3>4. Placed(r) /\ Placed(last)
        BY <1>2, <2>1, <3>1, RowsArePlaced
      <3> QED BY <2>3, <3>2, <3>3, <3>4, Order
    <2> QED BY <1>4, <1>7, <1>8, <1>9, <2>2, <2>4, <2>5 DEF PInv
  <1> QED BY <1>11, <1>12
-----------------------------------------------------------------------------
\* The invariant of the walk.
THEOREM ListInvariant == Spec => []PInv
  <1>1. Init => PInv
    BY Initially
  <1>2. PInv /\ [Next]_vars => PInv'
    BY Changes, Delivers, Waits DEF Next
  <1> QED BY <1>1, <1>2, PTL DEF Spec

\* Rows have ids of their own and a cursor stands where a row was delivered.
THEOREM ListTypes == Spec => []TypeOK
  BY ListInvariant, PTL DEF PInv

\* No row is delivered twice and the pages follow one another in the order of
\* the list, whatever is stored and removed between them (DecodeCursor and the
\* WHERE clause of each list).
THEOREM NothingTwice == Spec => []PagesAscend
  BY ListInvariant, PTL DEF PInv

\* A walk that ends has delivered every row that was listed all the time.
THEOREM NothingSkipped == Spec => []WalkIsComplete
  BY ListInvariant, PTL DEF PInv

\* The list of files shows of each file the copy that was sent first, among the
\* rows that were there all the time.
THEOREM OriginalsShown == Spec => []ShowsOriginal
  BY ListInvariant, PTL DEF PInv
=============================================================================
