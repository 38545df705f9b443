---------------------------- MODULE CreationProofs ----------------------------
(***************************************************************************)
(* How a matter comes to be, for any number of creations and any answers   *)
(* of a model.                                                             *)
(*                                                                         *)
(* MatterCreate: the display numbers of a space are 1..n, and every        *)
(* attempt the unique key refuses is paid for by a creation that was       *)
(* committed meanwhile.  The key and the computation from the highest      *)
(* number are enough for both: no lock takes part in the argument.  A      *)
(* matter is stored with its children or not at all.                       *)
(*                                                                         *)
(* ModelAnswers: what is kept of an answer is real.  The filters are loops *)
(* with an early exit from each round; what a loop has after each round is *)
(* the invariant from which the properties of its end follow.              *)
(***************************************************************************)
EXTENDS MatterCreate, ModelAnswers, FiniteSetTheorems, SequenceTheorems,
        WellFoundedInduction, TLAPS

Count == Cardinality(Committed)

Typed ==
    /\ next \in [Create -> Nat] /\ pending \in [Create -> Nat]
    /\ matter \in [Create -> Nat] /\ tries \in [Create -> Nat]
    /\ since \in [Create -> Nat]
    /\ DOMAIN pc = Create

\* A number that was computed is at most one above the highest, and each creation
\* committed since then, which made it lag behind, has been counted.
NumberIsRecent ==
    \A c \in Create : pc[c] = "insert" =>
        /\ next[c] \in 1..(Count + 1)
        /\ tries[c] + (Count + 1 - next[c]) <= since[c]

\* At most one transaction has inserted a matter it has not committed, and its
\* number is the one above the highest.
PendingIsNext ==
    /\ \A c \in Create : pending[c] # 0 => pending[c] = Count + 1
    /\ \A c, d \in Create : pending[c] # 0 /\ pending[d] # 0 => c = d
    /\ \A c \in Create : pc[c] \in {"children", "commit"} => pending[c] # 0

\* A creation that has not reached its commit has no matter yet.
NotYet ==
    \A c \in Create :
        pc[c] \in {"idle", "next", "insert", "children", "commit"} => matter[c] = 0

CInv == /\ Typed /\ SeqNosAreDense /\ RefusalsAreContention
        /\ NumberIsRecent /\ PendingIsNext /\ NotYet
-----------------------------------------------------------------------------
\* The highest of the numbers 1..n.
LEMMA HighestOfInterval == ASSUME NEW n \in Nat PROVE Highest(1..n) = n
<1>1. CASE n = 0
  BY <1>1 DEF Highest
<1>2. CASE n # 0
  <2>1. n \in 1..n /\ \A m \in 1..n : m <= n
    BY <1>2
  <2>2. ASSUME NEW k \in 1..n, \A m \in 1..n : m <= k PROVE k = n
    BY <2>1, <2>2
  <2>3. 1..n # {}
    BY <2>1
  <2> QED
    BY <2>1, <2>2, <2>3 DEF Highest
<1> QED
  BY <1>1, <1>2

\* The committed matters are finitely many.
LEMMA CountIsNat == Count \in Nat /\ IsFiniteSet(Committed)
<1>1. Committed \subseteq Create
  BY DEF Committed
<1> QED
  BY <1>1, CreateAssumption, FS_Subset, FS_CardinalityType DEF Count

\* A space without matters satisfies the invariant.
LEMMA InitCInv == Init => CInv
<1> SUFFICES ASSUME Init PROVE CInv
  OBVIOUS
<1>1. Committed = {} /\ Numbers(Committed) = {}
  BY DEF Init, Committed, Numbers
<1>2. Cardinality(Committed) = 0
  BY <1>1, FS_EmptySet
<1>3. SeqNosAreDense
  BY <1>1, <1>2 DEF SeqNosAreDense
<1>4. Typed
  BY DEF Init, Typed
<1> QED
  BY <1>3, <1>4 DEF Init, CInv, RefusalsAreContention, NumberIsRecent, PendingIsNext, NotYet

\* A step that commits nothing: the numbers stay, one creation moves.
LEMMA UncommittedStep ==
    ASSUME CInv, NEW c \in Create, matter' = matter, since' = since, Typed',
           NEW label, pc' = [pc EXCEPT ![c] = label],
           \A d \in Create \ {c} : /\ next'[d] = next[d] /\ tries'[d] = tries[d]
                                   /\ pending'[d] = pending[d],
           tries'[c] <= since[c],
           label = "insert" =>
              /\ next'[c] \in 1..(Count + 1)
              /\ tries'[c] + (Count + 1 - next'[c]) <= since[c],
           pending'[c] # 0 =>
              pending'[c] = Count + 1 /\ \A d \in Create \ {c} : pending[d] = 0,
           label \in {"children", "commit"} => pending'[c] # 0,
           label \in {"idle", "next", "insert", "children", "commit"} => matter[c] = 0
    PROVE  CInv'
<1>1. /\ pc'[c] = label /\ \A d \in Create \ {c} : pc'[d] = pc[d]
      /\ Committed' = Committed /\ Count' = Count
  BY DEF CInv, Typed, Committed, Count
<1>2. SeqNosAreDense'
  BY <1>1 DEF CInv, SeqNosAreDense, Numbers
<1>3. RefusalsAreContention'
  BY DEF CInv, RefusalsAreContention
<1>4. NumberIsRecent'
  BY <1>1 DEF CInv, NumberIsRecent
<1>5. PendingIsNext'
  BY <1>1 DEF CInv, PendingIsNext
<1>6. NotYet'
  BY <1>1 DEF CInv, NotYet
<1> QED
  BY <1>2, <1>3, <1>4, <1>5, <1>6 DEF CInv

\* The number is computed, and used or refused.
LEMMA NumberStep ==
    ASSUME CInv, NEW c \in Create, NextSeqNo(c) \/ Insert(c)
    PROVE  CInv'
<1> USE CountIsNat, CreateAssumption
<1>1. /\ next[c] \in Nat /\ tries[c] \in Nat /\ since[c] \in Nat /\ pending[c] \in Nat
      /\ tries[c] <= since[c] /\ matter[c] = 0
  BY DEF CInv, Typed, RefusalsAreContention, NotYet, NextSeqNo, Insert
<1>2. Numbers(Committed) = 1..Count
  BY DEF CInv, SeqNosAreDense, Count
<1>3. CASE NextSeqNo(c)
  <2> USE <1>3 DEF NextSeqNo, Goto, table
  <2>1. next' = [next EXCEPT ![c] = Count + 1] /\ next'[c] = Count + 1
    BY <1>2, HighestOfInterval DEF CInv, Typed
  <2>2. Typed'
    BY <2>1 DEF CInv, Typed
  <2>3. \A d \in Create \ {c} : next'[d] = next[d]
    BY <2>1 DEF CInv, Typed
  <2>4. pending[c] # 0 => pending[c] = Count + 1 /\ \A d \in Create \ {c} : pending[d] = 0
    BY DEF CInv, PendingIsNext
  <2>5. pc' = [pc EXCEPT ![c] = "insert"] /\ matter' = matter /\ since' = since
        /\ tries' = tries /\ pending' = pending
    OBVIOUS
  <2>6. tries'[c] + (Count + 1 - next'[c]) <= since[c]
    BY <1>1, <2>1
  <2>7. next'[c] \in 1..(Count + 1)
    BY <2>1
  <2> QED
    BY <1>1, <2>2, <2>3, <2>4, <2>5, <2>6, <2>7, UncommittedStep
<1>4. CASE Insert(c)
  <2> USE <1>4 DEF Insert
  <2>1. /\ next[c] \in 1..(Count + 1)
        /\ tries[c] + (Count + 1 - next[c]) <= since[c]
    BY DEF CInv, NumberIsRecent
  <2>2. CASE next[c] \notin Numbers(Committed)
    <3> USE <2>2 DEF Goto, table
    <3>1. next[c] = Count + 1
      BY <1>2, <2>1
    <3>2. \A d \in Create \ {c} : pending[d] = 0
      BY <3>1 DEF CInv, PendingIsNext
    <3>3. /\ pending' = [pending EXCEPT ![c] = Count + 1]
          /\ pc' = [pc EXCEPT ![c] = "children"]
          /\ matter' = matter /\ since' = since /\ tries' = tries /\ next' = next
      BY <3>1
    <3>4. /\ pending'[c] = Count + 1 /\ pending'[c] # 0
          /\ \A d \in Create \ {c} : pending'[d] = pending[d]
      BY <3>3 DEF CInv, Typed
    <3>5. Typed'
      BY <3>3 DEF CInv, Typed
    <3> QED
      BY <1>1, <3>2, <3>3, <3>4, <3>5, UncommittedStep
  <2>3. CASE next[c] \in Numbers(Committed)
    <3> USE <2>3 DEF Goto, Finish, table
    <3>1. next[c] <= Count
      BY <1>2
    <3>2. PICK label \in {"next", "done"} : pc' = [pc EXCEPT ![c] = label]
      OBVIOUS
    <3>3. /\ tries' = [tries EXCEPT ![c] = tries[c] + 1]
          /\ matter' = matter /\ since' = since /\ pending' = pending /\ next' = next
      OBVIOUS
    <3>4. /\ tries'[c] = tries[c] + 1 /\ \A d \in Create \ {c} : tries'[d] = tries[d]
          /\ tries'[c] <= since[c]
      BY <1>1, <2>1, <3>1, <3>3 DEF CInv, Typed
    <3>5. Typed'
      BY <1>1, <3>2, <3>3 DEF CInv, Typed
    <3>6. pending[c] # 0 => pending[c] = Count + 1 /\ \A d \in Create \ {c} : pending[d] = 0
      BY DEF CInv, PendingIsNext
    <3> QED
      BY <1>1, <3>2, <3>3, <3>4, <3>5, <3>6, UncommittedStep
  <2> QED
    BY <2>2, <2>3
<1> QED
  BY <1>3, <1>4

\* The commit appends the number above the highest, and everybody in progress has
\* been overtaken once more.
LEMMA CommitStep == ASSUME CInv, NEW c \in Create, Commit(c) PROVE CInv'
<1> USE CountIsNat DEF Commit
<1>1. /\ pending[c] = Count + 1 /\ matter[c] = 0 /\ pending[c] \in Nat
      /\ \A d \in Create \ {c} : pending[d] = 0
  BY DEF CInv, PendingIsNext, NotYet, Typed
<1>2. /\ matter'[c] = Count + 1 /\ \A d \in Create \ {c} : matter'[d] = matter[d]
      /\ pending'[c] = 0 /\ \A d \in Create \ {c} : pending'[d] = 0
      /\ next' = next /\ tries' = tries
  BY <1>1 DEF CInv, Typed
<1>3. PICK label \in {"record", "done"} : pc' = [pc EXCEPT ![c] = label]
  BY DEF Goto, Finish
<1>4. pc'[c] = label /\ \A d \in Create \ {c} : pc'[d] = pc[d]
  BY <1>3 DEF CInv, Typed
<1>5. c \notin Committed /\ Committed' = Committed \cup {c}
  BY <1>1, <1>2 DEF Committed
<1>6. Count' = Count + 1
  BY <1>5, FS_AddElement DEF Count
<1>7. SeqNosAreDense'
  <2>1. Numbers(Committed) = 1..Count
    BY DEF CInv, SeqNosAreDense, Count
  <2>2. \A d \in Committed : d \in Create /\ d # c /\ matter'[d] = matter[d]
    BY <1>2, <1>5 DEF Committed
  <2>3. Numbers(Committed)' = Numbers(Committed) \cup {Count + 1}
    BY <1>2, <1>5, <2>2 DEF Numbers
  <2>4. Numbers(Committed)' = 1..Count'
    BY <1>6, <2>1, <2>3
  <2>5. ASSUME NEW d \in Committed PROVE matter[d] \in 1..Count
    BY <2>1 DEF Numbers
  <2>6. \A d, e \in Committed' : matter'[d] = matter'[e] => d = e
    <3> SUFFICES ASSUME NEW d \in Committed', NEW e \in Committed', matter'[d] = matter'[e]
                 PROVE  d = e
      OBVIOUS
    <3>1. CASE d \in Committed /\ e \in Committed
      BY <3>1, <2>2 DEF CInv, SeqNosAreDense
    <3>2. CASE d = c /\ e = c
      BY <3>2
    <3>3. CASE d = c /\ e \in Committed
      BY <3>3, <1>2, <2>2, <2>5
    <3>4. CASE e = c /\ d \in Committed
      BY <3>4, <1>2, <2>2, <2>5
    <3> QED
      BY <1>5, <3>1, <3>2, <3>3, <3>4
  <2> QED
    BY <2>4, <2>6 DEF SeqNosAreDense, Count
<1>8. Typed'
  BY <1>1, <1>3 DEF CInv, Typed
<1>9. \A d \in Create : /\ since[d] \in Nat /\ tries[d] \in Nat /\ next[d] \in Nat
                        /\ since'[d] >= since[d]
                        /\ pc'[d] = "insert" => since'[d] = since[d] + 1
  BY <1>3, <1>4 DEF CInv, Typed
<1>10. RefusalsAreContention'
  BY <1>2, <1>8, <1>9 DEF CInv, RefusalsAreContention, Typed
<1>11. NumberIsRecent'
  <2> SUFFICES ASSUME NEW d \in Create, pc'[d] = "insert"
               PROVE  /\ next'[d] \in 1..(Count' + 1)
                      /\ tries'[d] + (Count' + 1 - next'[d]) <= since'[d]
    BY DEF NumberIsRecent
  <2>1. pc[d] = "insert" /\ since'[d] = since[d] + 1
    BY <1>4, <1>9
  <2>2. next[d] \in 1..(Count + 1) /\ tries[d] + (Count + 1 - next[d]) <= since[d]
    BY <2>1 DEF CInv, NumberIsRecent
  <2> QED
    BY <1>2, <1>6, <1>9, <2>1, <2>2
<1>12. PendingIsNext'
  <2>1. \A d \in Create \ {c} : pc[d] \notin {"children", "commit"}
    BY <1>1 DEF CInv, PendingIsNext
  <2> QED
    BY <1>2, <1>4, <2>1 DEF PendingIsNext
<1>13. NotYet'
  BY <1>2, <1>4 DEF CInv, NotYet
<1> QED
  BY <1>7, <1>8, <1>10, <1>11, <1>12, <1>13 DEF CInv

\* The steps that compute no number and commit nothing.
LEMMA OtherStep ==
    ASSUME CInv, NEW c \in Create, Arrive(c) \/ InsertChildren(c) \/ Record(c) \/ Fail(c)
    PROVE  CInv'
<1> USE CountIsNat DEF Arrive, InsertChildren, Record, Fail, Goto, Finish, table
<1>1. /\ matter' = matter /\ since' = since /\ next' = next /\ tries' = tries
  OBVIOUS
<1>2. tries[c] <= since[c]
  BY DEF CInv, RefusalsAreContention
<1>3. PICK label \in {"next", "commit", "done"} : pc' = [pc EXCEPT ![c] = label]
  BY Zenon
<1>4. label # "done" => matter[c] = 0
  <2>1. pc'[c] = label
    BY <1>3 DEF CInv, Typed
  <2> QED
    BY <2>1 DEF CInv, NotYet, Typed
<1>5. pending' = pending \/ pending' = [pending EXCEPT ![c] = 0]
  BY Zenon
<1>6. Typed'
  BY <1>1, <1>3, <1>5 DEF CInv, Typed
<1>7. pending'[c] # 0 => pending'[c] = Count + 1 /\ \A d \in Create \ {c} : pending[d] = 0
  BY <1>5 DEF CInv, PendingIsNext, Typed
<1>8. label = "commit" => pending'[c] # 0
  <2> SUFFICES ASSUME label = "commit" PROVE pending'[c] # 0
    OBVIOUS
  <2>1. pc'[c] = "commit"
    BY <1>3 DEF CInv, Typed
  <2>2. pc[c] = "children" /\ pending' = pending
    BY <2>1, <1>3 DEF CInv, Typed
  <2> QED
    BY <2>2 DEF CInv, PendingIsNext
<1>9. \A d \in Create \ {c} : pending'[d] = pending[d]
  BY <1>5 DEF CInv, Typed
<1> QED
  BY <1>1, <1>2, <1>3, <1>4, <1>6, <1>7, <1>8, <1>9, UncommittedStep

\* Every step keeps the invariant.
LEMMA InductiveCInv == CInv /\ [Next]_vars => CInv'
<1> SUFFICES ASSUME CInv, [Next]_vars PROVE CInv'
  OBVIOUS
<1>1. ASSUME UNCHANGED <<pc, next, tries, pending, matter, since>> PROVE CInv'
  <2>1. Committed' = Committed /\ Count' = Count /\ Numbers(Committed)' = Numbers(Committed)
    BY <1>1 DEF Committed, Count, Numbers
  <2>2. Typed' /\ RefusalsAreContention' /\ NotYet'
    BY <1>1 DEF CInv, Typed, RefusalsAreContention, NotYet
  <2>3. SeqNosAreDense' /\ NumberIsRecent' /\ PendingIsNext'
    BY <1>1, <2>1 DEF CInv, SeqNosAreDense, NumberIsRecent, PendingIsNext
  <2> QED
    BY <2>2, <2>3 DEF CInv
<1>2. CASE UNCHANGED vars \/ Quiet
  BY <1>1, <1>2 DEF Quiet, vars, table
<1>3. ASSUME NEW c \in Create, Delete(c) PROVE CInv'
  BY <1>1, <1>3 DEF Delete
<1> QED
  BY <1>2, <1>3, NumberStep, CommitStep, OtherStep DEF Next, Serve

\* matter_repo.go's Create: the numbers of a space are 1..n, however creations
\* interleave, fail and are retried.
THEOREM DenseSeqNos == Spec => []SeqNosAreDense
<1>1. CInv => SeqNosAreDense
  BY DEF CInv
<1> QED
  BY <1>1, InitCInv, InductiveCInv, PTL DEF Spec

\* Only a creation that was committed meanwhile costs another one an attempt.
THEOREM RefusalsAreOvertakings == Spec => []RefusalsAreContention
<1>1. CInv => RefusalsAreContention
  BY DEF CInv
<1> QED
  BY <1>1, InitCInv, InductiveCInv, PTL DEF Spec
-----------------------------------------------------------------------------
(* What is stored with a matter, and the types: a second invariant on top  *)
(* of the first.                                                           *)

Refusal == {"forbidden", "conflict", "duplicate"}

\* A matter and its children are stored together, only an open transaction has
\* pending rows, and who has been refused is done and has stored nothing.
StoredTogether ==
    /\ DOMAIN children = Create
    /\ \A c \in Create :
        /\ matter[c] = 0 => children[c] = NoChildren
        /\ matter[c] # 0 =>
              children[c] = [assignees |-> Range(req[c].list), linked |-> req[c].linked]
        /\ pending[c] # 0 => pc[c] \in {"children", "commit"}
        /\ pc[c] = "record" => matter[c] # 0
        /\ outcome[c] \in Refusal => pc[c] = "done" /\ matter[c] = 0

\* Who is still looking for a number has an attempt left.
AttemptLeft ==
    \A c \in Create : pc[c] \in {"idle", "next", "insert"} => tries[c] < MaxTries

WInv == TypeOK /\ StoredTogether /\ AttemptLeft
-----------------------------------------------------------------------------
\* A creation without a matter leaves room for one more number.
LEMMA RoomForOne ==
    ASSUME NEW c \in Create, matter[c] = 0
    PROVE  Count + 1 \in 0..Cardinality(Create)
<1>1. c \notin Committed /\ Committed \cup {c} \subseteq Create
  BY DEF Committed
<1>2. Cardinality(Committed \cup {c}) = Count + 1
  BY <1>1, CountIsNat, FS_AddElement DEF Count
<1>3. /\ Cardinality(Committed \cup {c}) <= Cardinality(Create)
      /\ Cardinality(Create) \in Nat
  BY <1>1, CreateAssumption, FS_Subset, FS_CardinalityType
<1> QED
  BY <1>2, <1>3, CountIsNat

\* A space without matters.
LEMMA InitWInv == Init => WInv
<1> SUFFICES ASSUME Init PROVE WInv
  OBVIOUS
<1> USE DEF Init
<1>1. Cardinality(Create) \in Nat
  BY CreateAssumption, FS_CardinalityType
<1>2. TypeOK
  BY <1>1, CreateAssumption DEF TypeOK, NoChildren
<1> QED
  BY <1>2, CreateAssumption DEF WInv, StoredTogether, AttemptLeft, Refusal

\* A step of one creation that commits nothing.
LEMMA NothingStored ==
    ASSUME WInv, NEW c \in Create, TypeOK', UNCHANGED table,
           \A d \in Create \ {c} : /\ pc'[d] = pc[d] /\ req'[d] = req[d]
                                   /\ tries'[d] = tries[d] /\ pending'[d] = pending[d]
                                   /\ outcome'[d] = outcome[d],
           matter[c] # 0 => req'[c] = req[c],
           pending'[c] # 0 => pc'[c] \in {"children", "commit"},
           pc'[c] = "record" => matter[c] # 0,
           outcome'[c] \in Refusal => pc'[c] = "done" /\ matter[c] = 0,
           pc'[c] \in {"idle", "next", "insert"} => tries'[c] < MaxTries
    PROVE  WInv'
<1> USE DEF table
<1>1. StoredTogether'
  BY DEF WInv, StoredTogether
<1>2. AttemptLeft'
  BY DEF WInv, AttemptLeft
<1> QED
  BY <1>1, <1>2 DEF WInv

\* A creation arrives, or is refused for its channel.
LEMMA ArriveStored ==
    ASSUME CInv, WInv, NEW c \in Create, Arrive(c)
    PROVE  WInv'
<1> USE DEF Arrive, Goto, Finish
<1>1. matter[c] = 0 /\ pending[c] = 0
  BY DEF CInv, NotYet, WInv, StoredTogether
<1>2. PICK list \in AssigneeList, linked \in BOOLEAN :
        req' = [req EXCEPT ![c] = [list |-> list, linked |-> linked]]
  OBVIOUS
<1>3. req' \in [Create -> [list : AssigneeList \cup {<<>>}, linked : BOOLEAN]]
  BY <1>2 DEF WInv, TypeOK
<1>4. TypeOK'
  BY <1>3 DEF WInv, TypeOK, table, Committed
<1>5. /\ pc'[c] \in {"next", "done"} /\ tries'[c] = tries[c] /\ pending'[c] = 0
      /\ outcome'[c] \in Refusal => pc'[c] = "done"
      /\ \A d \in Create \ {c} : /\ pc'[d] = pc[d] /\ req'[d] = req[d]
                                 /\ tries'[d] = tries[d] /\ pending'[d] = pending[d]
                                 /\ outcome'[d] = outcome[d]
  BY <1>1 DEF WInv, TypeOK, StoredTogether
<1>6. tries[c] < MaxTries
  BY DEF WInv, AttemptLeft
<1> QED
  BY <1>1, <1>4, <1>5, <1>6, NothingStored DEF table

\* The number is computed, and used or refused.
LEMMA NumberStored ==
    ASSUME CInv, WInv, NEW c \in Create, NextSeqNo(c) \/ Insert(c)
    PROVE  WInv'
<1> USE DEF Goto, Finish, table
<1>1. /\ matter[c] = 0 /\ pending[c] = 0 /\ tries[c] < MaxTries
      /\ outcome[c] \notin Refusal
  BY DEF CInv, NotYet, WInv, StoredTogether, AttemptLeft, NextSeqNo, Insert
<1>2. CASE NextSeqNo(c)
  <2> USE <1>2 DEF NextSeqNo
  <2>1. Highest(Numbers(Committed)) + 1 = Count + 1
    BY HighestOfInterval, CountIsNat DEF CInv, SeqNosAreDense, Count
  <2>2. Highest(Numbers(Committed)) + 1 \in 0..Cardinality(Create)
    BY <1>1, <2>1, RoomForOne
  <2>3. TypeOK'
    BY <2>2 DEF WInv, TypeOK, Committed
  <2>4. /\ pc'[c] = "insert" /\ \A d \in Create \ {c} : pc'[d] = pc[d]
    BY DEF WInv, TypeOK
  <2> QED
    BY <1>1, <2>3, <2>4, NothingStored
<1>3. CASE Insert(c) /\ next[c] \notin Numbers(Committed)
  <2> USE <1>3 DEF Insert
  <2>1. TypeOK'
    BY DEF WInv, TypeOK, Committed
  <2>2. /\ pc'[c] = "children"
        /\ \A d \in Create \ {c} : pc'[d] = pc[d] /\ pending'[d] = pending[d]
    BY DEF WInv, TypeOK
  <2> QED
    BY <1>1, <2>1, <2>2, NothingStored
<1>4. CASE Insert(c) /\ next[c] \in Numbers(Committed)
  <2> USE <1>4 DEF Insert
  <2>1. tries[c] \in Nat /\ tries[c] + 1 \in 0..MaxTries
    BY <1>1, CreateAssumption DEF WInv, TypeOK
  <2>2. tries' = [tries EXCEPT ![c] = tries[c] + 1] /\ pending' = pending
    OBVIOUS
  <2>3. tries' \in [Create -> 0..MaxTries]
    BY <2>1, <2>2 DEF WInv, TypeOK
  <2>4. TypeOK'
    BY <2>2, <2>3 DEF WInv, TypeOK, Committed
  <2>5. /\ pc'[c] = "next" => tries'[c] < MaxTries
        /\ pc'[c] \in {"next", "done"}
        /\ outcome'[c] \in Refusal => pc'[c] = "done"
        /\ \A d \in Create \ {c} : /\ pc'[d] = pc[d] /\ tries'[d] = tries[d]
                                   /\ outcome'[d] = outcome[d]
    BY <1>1, <2>1, <2>2 DEF WInv, TypeOK
  <2> QED
    BY <1>1, <2>2, <2>4, <2>5, NothingStored
<1> QED
  BY <1>2, <1>3, <1>4

\* The children, the record, and a failure: a transaction goes on or is undone.
LEMMA OtherStored ==
    ASSUME CInv, WInv, NEW c \in Create, InsertChildren(c) \/ Record(c) \/ Fail(c)
    PROVE  WInv'
<1> USE DEF InsertChildren, Record, Fail, Goto, Finish
<1>1. /\ req' = req /\ tries' = tries /\ since' = since /\ next' = next /\ UNCHANGED table
      /\ pc'[c] \in {"commit", "done"}
      /\ \A d \in Create \ {c} : /\ pc'[d] = pc[d] /\ pending'[d] = pending[d]
                                 /\ outcome'[d] = outcome[d]
  BY DEF WInv, TypeOK
<1>2. pc'[c] = "done" => pending'[c] = 0
  BY DEF WInv, TypeOK, StoredTogether
<1>3. outcome'[c] \in Refusal => pc'[c] = "done" /\ matter[c] = 0
  BY DEF WInv, TypeOK, StoredTogether, CInv, NotYet, Refusal
<1>4. TypeOK'
  <2> DEFINE zero == 0
             Number == 0..Cardinality(Create)
  <2>1. zero \in Number
    BY CreateAssumption, FS_CardinalityType
  <2>2. pending' = pending \/ pending' = [pending EXCEPT ![c] = zero]
    BY Zenon
  <2>3. pending \in [Create -> Number]
    BY DEF WInv, TypeOK
  <2> HIDE DEF zero, Number
  <2>4. pending' \in [Create -> Number]
    BY <2>1, <2>2, <2>3
  <2>5. recorded' \subseteq Committed
    BY DEF WInv, TypeOK, StoredTogether, Committed
  <2>6. /\ pc' \in [Create -> {"idle", "next", "insert", "children", "commit", "record",
                               "done"}]
        /\ outcome' \in [Create -> {"none", "created", "forbidden", "conflict", "duplicate",
                                    "internal"}]
    BY DEF WInv, TypeOK
  <2> QED
    BY <1>1, <2>4, <2>5, <2>6 DEF WInv, TypeOK, Committed, table, Number
<1> QED
  BY <1>1, <1>2, <1>3, <1>4, NothingStored

\* The commit stores a matter with its children.
LEMMA CommitStored ==
    ASSUME CInv, WInv, NEW c \in Create, Commit(c)
    PROVE  WInv'
<1> USE DEF Commit, Goto, Finish
<1>1. /\ matter[c] = 0 /\ pending[c] # 0
      /\ req[c] \in [list : AssigneeList \cup {<<>>}, linked : BOOLEAN]
  BY DEF CInv, NotYet, PendingIsNext, WInv, TypeOK
<1>2. /\ matter'[c] = pending[c] /\ \A d \in Create \ {c} : matter'[d] = matter[d]
      /\ pending'[c] = 0 /\ \A d \in Create \ {c} : pending'[d] = pending[d]
      /\ pc'[c] \in {"record", "done"} /\ \A d \in Create \ {c} : pc'[d] = pc[d]
      /\ \A d \in Create \ {c} : outcome'[d] = outcome[d]
      /\ req' = req /\ tries' = tries
  BY DEF WInv, TypeOK
<1>3. outcome'[c] \notin Refusal
  BY DEF WInv, TypeOK, StoredTogether, Refusal
<1>4. /\ matter'[c] # 0
      /\ Committed \subseteq Committed'
  BY <1>1, <1>2 DEF Committed
<1>5. /\ DOMAIN children' = Create
      /\ \A d \in Create \ {c} : children'[d] = children[d]
      /\ children'[c] = [assignees |-> Range(req[c].list), linked |-> req[c].linked]
  BY DEF WInv, StoredTogether
<1>6. StoredTogether'
  BY <1>1, <1>2, <1>3, <1>4, <1>5 DEF WInv, StoredTogether
<1>7. AttemptLeft'
  BY <1>2 DEF WInv, AttemptLeft
<1>8. TypeOK'
  <2>1. Cardinality(Create) \in Nat
    BY CreateAssumption, FS_CardinalityType
  <2>2. Range(req[c].list) \subseteq UNION {Range(l) : l \in AssigneeList}
    BY <1>1 DEF Range
  <2>3. \A d \in Create : children'[d].assignees \subseteq UNION {Range(l) : l \in AssigneeList}
    BY <1>5, <2>2 DEF WInv, TypeOK
  <2>4. /\ matter' \in [Create -> 0..Cardinality(Create)]
        /\ pending' \in [Create -> 0..Cardinality(Create)]
    BY <2>1 DEF WInv, TypeOK
  <2>5. since' \in [Create -> Nat]
    BY DEF WInv, TypeOK
  <2> QED
    BY <1>4, <2>3, <2>4, <2>5 DEF WInv, TypeOK
<1> QED
  BY <1>6, <1>7, <1>8 DEF WInv

\* Every step keeps the second invariant.
LEMMA InductiveWInv == CInv /\ WInv /\ [Next]_vars => WInv'
<1> SUFFICES ASSUME CInv, WInv, [Next]_vars PROVE WInv'
  OBVIOUS
<1>1. CASE UNCHANGED vars \/ Quiet
  BY <1>1 DEF Quiet, vars, table, WInv, TypeOK, StoredTogether, AttemptLeft, Committed
<1>2. ASSUME NEW c \in Create, Delete(c) PROVE WInv'
  BY <1>2 DEF Delete, WInv, TypeOK, StoredTogether, AttemptLeft, Committed
<1> QED
  BY <1>1, <1>2, ArriveStored, NumberStored, OtherStored, CommitStored DEF Next, Serve

\* The second invariant holds in every reachable state.
THEOREM StoredInvariant == Spec => [](CInv /\ WInv)
<1>1. CInv /\ WInv /\ [Next]_vars => (CInv /\ WInv)'
  BY InductiveCInv, InductiveWInv
<1> QED
  BY <1>1, InitCInv, InitWInv, PTL DEF Spec

\* The tables and the transactions keep their types; in particular no number
\* exceeds the creations and no creation its attempts.
THEOREM TypesAreKept == Spec => []TypeOK
<1>1. WInv => TypeOK
  BY DEF WInv
<1> QED
  BY <1>1, StoredInvariant, PTL

\* matter_repo.go's Create commits a matter with its assignees and its source channel
\* or not at all, and a creation that is refused leaves nothing behind.
THEOREM MattersAreWhole == Spec => []CreatedWhole
<1>1. WInv => CreatedWhole
  BY DEF WInv, StoredTogether, CreatedWhole, Committed, Refusal
<1> QED
  BY <1>1, StoredInvariant, PTL
-----------------------------------------------------------------------------
(* The answers of a model.                                                 *)

\* A set of numbers that is not empty has a least one.
LEMMA LeastNumber ==
    ASSUME NEW T, T \subseteq Nat, T # {}
    PROVE  \E n \in T : \A m \in T : n <= m
<1> DEFINE less == OpToRel(<, Nat)
<1>1. IsWellFoundedOn(less, Nat)
  BY NatLessThanWellFounded
<1>2. \A a, b \in Nat : a < b => <<a, b>> \in less
  BY DEF OpToRel
<1> HIDE DEF less
<1>3. PICK n \in T : \A m \in T : ~ (<<m, n>> \in less)
  BY Zenon, <1>1, WFMin
<1>4. \A m \in T : ~ (m < n)
  BY <1>2, <1>3
<1> QED
  BY <1>4

\* Induction over a loop: a set that has 0 and with each round the next one.
LEMMA EveryRound ==
    ASSUME NEW n \in Nat, NEW T, 0 \in T, \A k \in 1..n : k - 1 \in T => k \in T
    PROVE  \A k \in 0..n : k \in T
<1> SUFFICES ASSUME (0..n) \ T # {} PROVE FALSE
  OBVIOUS
<1>1. (0..n) \ T \subseteq Nat
  OBVIOUS
<1>2. PICK k \in (0..n) \ T : \A m \in (0..n) \ T : k <= m
  BY <1>1, LeastNumber
<1>3. k \in 1..n /\ k - 1 \in 0..n
  BY <1>2
<1>4. k - 1 \in T
  BY <1>2, <1>3
<1> QED
  BY <1>2, <1>3, <1>4

\* f has the states of a loop of n rounds over A that begins with b.
Loop(f, n, A, b, F) ==
    f \in [0..n -> A] /\ f[0] = b /\ \A i \in 1..n : f[i] = F[<<f[i - 1], i>>]

\* Every loop has its states.
LEMMA LoopRuns ==
    ASSUME NEW n \in Nat, NEW A, NEW b \in A, NEW F \in [A \X (1..n) -> A]
    PROVE  \E f : Loop(f, n, A, b, F)
<1> DEFINE T == {k \in 0..n : \E f : Loop(f, k, A, b, F)}
<1>1. 0 \in T
  <2> DEFINE f == [i \in 0..0 |-> b]
  <2>1. f \in [0..0 -> A] /\ f[0] = b
    OBVIOUS
  <2> HIDE DEF f
  <2>2. Loop(f, 0, A, b, F)
    BY <2>1 DEF Loop
  <2> QED
    BY <2>2
<1>2. ASSUME NEW k \in 1..n, k - 1 \in T PROVE k \in T
  <2>1. PICK g : Loop(g, k - 1, A, b, F)
    BY <1>2
  <2>2. g \in [0..(k - 1) -> A] /\ g[0] = b /\ \A i \in 1..(k - 1) : g[i] = F[<<g[i - 1], i>>]
    BY <2>1 DEF Loop
  <2> DEFINE f == [i \in 0..k |-> IF i = k THEN F[<<g[k - 1], k>>] ELSE g[i]]
  <2>3. g[k - 1] \in A /\ F[<<g[k - 1], k>>] \in A
    BY <2>2
  <2>4. f \in [0..k -> A]
    BY <2>2, <2>3
  <2>5. f[0] = b /\ f[k] = F[<<f[k - 1], k>>]
    <3>1. 0 \in 0..k /\ k - 1 \in 0..k /\ k \in 0..k /\ k # 0 /\ k - 1 # k
      OBVIOUS
    <3>2. f[0] = g[0] /\ f[k - 1] = g[k - 1] /\ f[k] = F[<<g[k - 1], k>>]
      BY <3>1
    <3> QED
      BY <2>2, <3>2
  <2>6. \A i \in 1..(k - 1) : f[i] = F[<<f[i - 1], i>>]
    BY <2>2
  <2> HIDE DEF f
  <2>7. ASSUME NEW i \in 1..k PROVE f[i] = F[<<f[i - 1], i>>]
    <3>1. CASE i = k
      BY <2>5, <3>1
    <3>2. CASE i # k
      BY <2>6, <3>2
    <3> QED
      BY <3>1, <3>2
  <2>8. Loop(f, k, A, b, F)
    BY <2>4, <2>5, <2>7 DEF Loop
  <2> QED
    BY <2>8
<1> HIDE DEF T
<1>3. n \in T
  BY <1>1, <1>2, EveryRound
<1> QED
  BY <1>3 DEF T
-----------------------------------------------------------------------------
(* The filters.                                                            *)

\* The rounds of the filter.
LEMMA KeptRounds ==
    ASSUME NEW S, NEW s \in Seq(S), NEW set
    PROVE  /\ Kept(s, set) \in [0..Len(s) -> Seq(S)]
           /\ Kept(s, set)[0] = <<>>
           /\ \A i \in 1..Len(s) :
                Kept(s, set)[i] = Keep(Kept(s, set)[i - 1], s[i], set)
<1> DEFINE n == Len(s)
           A == Seq(S)
           F == [x \in A \X (1..n) |-> Keep(x[1], s[x[2]], set)]
           Is(f) == f = [i \in 0..n |-> IF i = 0 THEN <<>> ELSE Keep(f[i - 1], s[i], set)]
<1>1. n \in Nat /\ <<>> \in A
  BY LenProperties, EmptySeq
<1>2. \A list \in A, i \in 1..n : Keep(list, s[i], set) \in A
  BY ElementOfSeq, AppendProperties DEF Keep
<1>3. F \in [A \X (1..n) -> A]
  BY <1>2
<1>4. \A list \in A, i \in 1..n : F[<<list, i>>] = Keep(list, s[i], set)
  OBVIOUS
<1> HIDE DEF n, A, F
<1>5. PICK f : Loop(f, n, A, <<>>, F)
  BY <1>1, <1>3, LoopRuns
<1>6. ASSUME NEW i \in 1..n PROVE f[i] = Keep(f[i - 1], s[i], set)
  <2>1. i - 1 \in 0..n
    BY <1>1
  <2>2. f[i - 1] \in A /\ f[i] = F[<<f[i - 1], i>>]
    BY <1>5, <2>1 DEF Loop
  <2> QED
    BY <1>4, <2>2
<1>7. Is(f)
  <2>1. \A i \in 0..n : f[i] = IF i = 0 THEN <<>> ELSE Keep(f[i - 1], s[i], set)
    BY <1>1, <1>5, <1>6 DEF Loop
  <2> QED
    BY <1>5, <2>1 DEF Loop
<1>8. Kept(s, set) = CHOOSE g : Is(g)
  BY DEF Kept, n
<1>9. Is(Kept(s, set))
  BY Zenon, <1>7, <1>8
<1> DEFINE K == Kept(s, set)
<1> HIDE DEF K
<1>10. K = [i \in 0..n |-> IF i = 0 THEN <<>> ELSE Keep(K[i - 1], s[i], set)]
  BY <1>9 DEF K
<1> HIDE DEF Is
<1>11. DOMAIN K = 0..n /\ K[0] = <<>> /\ \A i \in 1..n : K[i] = Keep(K[i - 1], s[i], set)
  BY <1>1, <1>10
<1> DEFINE T == {k \in 0..n : K[k] \in A}
<1>12. 0 \in T /\ \A k \in 1..n : k - 1 \in T => k \in T
  BY <1>1, <1>2, <1>11
<1> HIDE DEF T
<1>13. \A k \in 0..n : k \in T
  BY <1>1, <1>12, EveryRound
<1>14. K \in [0..n -> A]
  BY <1>10, <1>13 DEF T
<1> QED
  BY <1>11, <1>14 DEF K, n, A

\* What the filter has kept of the first k elements: those in the set, an element that
\* comes first before one that comes later.
KeptOf(list, s, k, set) ==
    /\ \A x : x \in ToSet(list) <=> x \in set /\ \E i \in 1..k : s[i] = x
    /\ \A a, b \in DOMAIN list : a < b =>
         \E i \in 1..k : s[i] = list[a] /\ \A j \in 1..i : s[j] # list[b]

\* One round of the filter.
LEMMA KeepOne ==
    ASSUME NEW S, NEW s \in Seq(S), NEW set, NEW k \in 1..Len(s), NEW list \in Seq(S),
           KeptOf(list, s, k - 1, set)
    PROVE  KeptOf(Keep(list, s[k], set), s, k, set)
<1> DEFINE x == s[k]
           new == Keep(list, x, set)
<1>1. Len(s) \in Nat /\ k - 1 \in Nat /\ x \in S
  BY LenProperties, ElementOfSeq
<1>2. \A i : i \in 1..k <=> i \in 1..(k - 1) \/ i = k
  BY <1>1
<1>3. CASE x \notin set \/ x \in ToSet(list)
  <2>1. new = list
    BY <1>3 DEF Keep
  <2>2. \A y : y \in ToSet(list) <=> y \in set /\ \E i \in 1..k : s[i] = y
    BY <1>2, <1>3 DEF KeptOf
  <2>3. \A a, b \in DOMAIN list : a < b =>
          \E i \in 1..k : s[i] = list[a] /\ \A j \in 1..i : s[j] # list[b]
    BY <1>2 DEF KeptOf
  <2> QED
    BY <2>1, <2>2, <2>3 DEF KeptOf
<1>4. CASE x \in set /\ x \notin ToSet(list)
  <2>1. /\ new = Append(list, x) /\ Len(list) \in Nat
        /\ DOMAIN list = 1..Len(list) /\ DOMAIN new = 1..(Len(list) + 1)
        /\ \A i \in 1..Len(list) : new[i] = list[i]
        /\ new[Len(list) + 1] = x
    BY <1>1, <1>4, LenProperties, AppendProperties DEF Keep
  <2> HIDE DEF new
  <2>2. \A i \in DOMAIN new : i \in DOMAIN list \/ i = Len(list) + 1
    BY <2>1
  <2>3. ASSUME NEW y PROVE y \in ToSet(new) <=> y \in ToSet(list) \/ y = x
    <3>1. y \in ToSet(new) => y \in ToSet(list) \/ y = x
      BY <2>1, <2>2 DEF ToSet
    <3>2. Len(list) + 1 \in DOMAIN new /\ \A i \in DOMAIN list : i \in DOMAIN new
      BY <2>1
    <3>3. y \in ToSet(list) \/ y = x => y \in ToSet(new)
      BY <2>1, <3>2 DEF ToSet
    <3> QED
      BY <3>1, <3>3
  <2>4. \A y : y \in ToSet(new) <=> y \in set /\ \E i \in 1..k : s[i] = y
    BY <1>2, <1>4, <2>3 DEF KeptOf
  <2>5. \A i \in 1..(k - 1) : s[i] # x
    BY <1>4 DEF KeptOf
  <2>6. ASSUME NEW a \in DOMAIN new, NEW b \in DOMAIN new, a < b
        PROVE  \E i \in 1..k : s[i] = new[a] /\ \A j \in 1..i : s[j] # new[b]
    <3>1. a \in DOMAIN list /\ new[a] = list[a]
      BY <2>1, <2>6
    <3>2. CASE b \in DOMAIN list
      <4>1. PICK i \in 1..(k - 1) : s[i] = list[a] /\ \A j \in 1..i : s[j] # list[b]
        BY <2>6, <3>1, <3>2 DEF KeptOf
      <4> QED
        BY <1>2, <2>1, <3>1, <3>2, <4>1
    <3>3. CASE b = Len(list) + 1
      <4>1. list[a] \in ToSet(list)
        BY <3>1 DEF ToSet
      <4>2. PICK i \in 1..(k - 1) : s[i] = list[a]
        BY <4>1 DEF KeptOf
      <4>3. \A j \in 1..i : j \in 1..(k - 1)
        BY <1>1, <4>2
      <4>4. \A j \in 1..i : s[j] # new[b]
        BY <2>1, <2>5, <3>3, <4>3
      <4> QED
        BY <1>2, <3>1, <4>2, <4>4
    <3> QED
      BY <2>2, <3>2, <3>3
  <2>7. KeptOf(new, s, k, set)
    BY <2>4, <2>6 DEF KeptOf
  <2> QED
    BY <2>7 DEF new
<1> QED
  BY <1>3, <1>4

\* The filters of the validators select: what is in the set, in the order in which it
\* comes first, and nothing twice.
LEMMA DistinctSelects ==
    ASSUME NEW S, NEW s \in Seq(S), NEW set
    PROVE  /\ Distinct(s, set) \in Seq(S)
           /\ IsSelection(Distinct(s, set), s, set)
           /\ IsInjective(Distinct(s, set))
           /\ ToSet(Distinct(s, set)) = ToSet(s) \cap set
<1> DEFINE K == Kept(s, set)
           t == Distinct(s, set)
           T == {k \in 0..Len(s) : KeptOf(K[k], s, k, set)}
<1>1. /\ Len(s) \in Nat /\ DOMAIN s = 1..Len(s)
      /\ K \in [0..Len(s) -> Seq(S)] /\ K[0] = <<>>
      /\ \A i \in 1..Len(s) : K[i] = Keep(K[i - 1], s[i], set)
  BY LenProperties, KeptRounds
<1> HIDE DEF K
<1>2. 0 \in T
  <2>1. ToSet(<<>>) = {} /\ DOMAIN <<>> = {}
    BY DEF ToSet
  <2>2. KeptOf(<<>>, s, 0, set)
    BY <2>1 DEF KeptOf
  <2> QED
    BY <1>1, <2>2
<1>3. ASSUME NEW k \in 1..Len(s), k - 1 \in T PROVE k \in T
  <2>1. K[k - 1] \in Seq(S) /\ KeptOf(K[k - 1], s, k - 1, set)
    BY <1>1, <1>3
  <2>2. KeptOf(Keep(K[k - 1], s[k], set), s, k, set)
    BY <2>1, KeepOne
  <2> QED
    BY <1>1, <2>2
<1>4. t \in Seq(S) /\ KeptOf(t, s, Len(s), set)
  <2> HIDE DEF T
  <2>1. \A k \in 1..Len(s) : k - 1 \in T => k \in T
    BY <1>3
  <2>2. \A k \in 0..Len(s) : k \in T
    BY <1>1, <1>2, <2>1, EveryRound
  <2>3. Len(s) \in T
    BY <1>1, <2>2
  <2> QED
    BY <1>1, <2>3 DEF T, K, Distinct
<1> HIDE DEF t
<1>5. ToSet(t) = ToSet(s) \cap set
  <2>1. \A x : x \in ToSet(s) <=> \E i \in 1..Len(s) : s[i] = x
    BY <1>1 DEF ToSet
  <2> QED
    BY <1>4, <2>1 DEF KeptOf
<1>6. DOMAIN t \subseteq Int
  BY <1>4, LenProperties
<1>7. IsInjective(t)
  <2> SUFFICES ASSUME NEW a \in DOMAIN t, NEW b \in DOMAIN t, a < b PROVE t[a] # t[b]
    BY <1>6 DEF IsInjective
  <2>1. PICK i \in 1..Len(s) : s[i] = t[a] /\ \A j \in 1..i : s[j] # t[b]
    BY <1>4 DEF KeptOf
  <2>2. i \in 1..i
    OBVIOUS
  <2> QED
    BY <2>1, <2>2
<1> DEFINE First(x) == CHOOSE i \in DOMAIN s : s[i] = x /\ \A j \in 1..(i - 1) : s[j] # x
<1>8. ASSUME NEW x \in ToSet(s)
      PROVE  /\ First(x) \in DOMAIN s /\ s[First(x)] = x
             /\ \A j \in DOMAIN s : s[j] = x => First(x) <= j
  <2> DEFINE at == {i \in DOMAIN s : s[i] = x}
  <2>1. at \subseteq Nat /\ at # {}
    BY <1>1 DEF ToSet
  <2>2. PICK i \in at : \A j \in at : i <= j
    BY <2>1, LeastNumber
  <2>3. i \in DOMAIN s /\ s[i] = x /\ \A j \in 1..(i - 1) : s[j] # x
    BY <1>1, <2>2
  <2>4. First(x) \in DOMAIN s /\ s[First(x)] = x /\ \A j \in 1..(First(x) - 1) : s[j] # x
    BY <2>3
  <2> HIDE DEF First
  <2>5. \A j \in DOMAIN s : s[j] = x => First(x) <= j
    BY <1>1, <2>4
  <2> QED
    BY <2>4, <2>5
<1>9. ASSUME NEW a \in DOMAIN t, NEW b \in DOMAIN t, a < b PROVE First(t[a]) < First(t[b])
  <2>1. PICK i \in 1..Len(s) : s[i] = t[a] /\ \A j \in 1..i : s[j] # t[b]
    BY <1>4, <1>9 DEF KeptOf
  <2>2. t[a] \in ToSet(s) /\ t[b] \in ToSet(s)
    BY <1>5 DEF ToSet
  <2> HIDE DEF First
  <2>3. First(t[a]) <= i
    BY <1>1, <1>8, <2>1, <2>2
  <2>4. First(t[b]) \in DOMAIN s /\ First(t[b]) \notin 1..i /\ First(t[a]) \in DOMAIN s
    BY <1>8, <2>1, <2>2
  <2> QED
    BY <1>1, <2>3, <2>4
<1>10. IsSelection(t, s, set)
  BY <1>5, <1>9 DEF IsSelection
<1> QED
  BY <1>4, <1>5, <1>7, <1>10 DEF t
-----------------------------------------------------------------------------
(* The files.                                                              *)

Row == [file : Str, from : Str]

\* A batch that was accepted, and an answer to it.
Given == batch \in Seq(Message) /\ answer \in Answer

\* The files that cited messages carry: <<message, file>>, by their places.
Carried == {p \in (1..Len(batch)) \X Nat :
              CarriesFiles(batch[p[1]]) /\ p[2] \in 1..Len(batch[p[1]].files)}

NameOf(p) == Trim[batch[p[1]].files[p[2]]]

\* The rows that stand for the files at the places of P: each once, with the first
\* message it comes from, and all of them below the cap.
RowsOf(rows, P) ==
    /\ rows \in Seq(Row) /\ Len(rows) <= MaxFiles
    /\ \A k \in DOMAIN rows :
         /\ rows[k].file # Blank
         /\ \E p \in P : /\ NameOf(p) = rows[k].file /\ batch[p[1]].from = rows[k].from
                         /\ \A q \in P : NameOf(q) = rows[k].file => p[1] <= q[1]
    /\ \A k, l \in DOMAIN rows : rows[k].file = rows[l].file => k = l
    /\ Len(rows) < MaxFiles =>
         \A p \in P : NameOf(p) # Blank => \E k \in DOMAIN rows : rows[k].file = NameOf(p)

\* Messages have ids, senders and files.
LEMMA BatchTypes ==
    ASSUME Given, NEW i \in 1..Len(batch)
    PROVE  /\ Len(batch) \in Nat /\ DOMAIN batch = 1..Len(batch)
           /\ batch[i].id \in Str /\ batch[i].from \in Str /\ batch[i].files \in Seq(Str)
           /\ Len(batch[i].files) \in Nat /\ DOMAIN batch[i].files = 1..Len(batch[i].files)
           /\ \A j \in 1..Len(batch[i].files) : batch[i].files[j] \in Str
<1>1. batch[i] \in Message /\ Len(batch) \in Nat /\ DOMAIN batch = 1..Len(batch)
  BY ElementOfSeq, LenProperties DEF Given
<1>2. batch[i].id \in Str /\ batch[i].from \in Str /\ batch[i].files \in Seq(Str)
  BY <1>1, ModelAnswersAssumption
<1> QED
  BY <1>1, <1>2, ElementOfSeq, LenProperties

\* One round of the inner loop: the file at the place p, which comes after those of P.
LEMMA AddOne ==
    ASSUME Given, NEW P \in SUBSET Carried, NEW p \in Carried, \A q \in P : q[1] <= p[1],
           NEW rows, RowsOf(rows, P)
    PROVE  RowsOf(Add(rows, batch[p[1]].files[p[2]], batch[p[1]].from), P \cup {p})
<1> DEFINE row == [file |-> NameOf(p), from |-> batch[p[1]].from]
           new == Add(rows, batch[p[1]].files[p[2]], batch[p[1]].from)
<1>1. /\ rows \in Seq(Row) /\ Len(rows) \in Nat /\ Len(rows) <= MaxFiles /\ MaxFiles \in Nat
      /\ DOMAIN rows = 1..Len(rows)
  BY LenProperties, ModelAnswersAssumption DEF RowsOf
<1>2. row \in Row /\ row.file = NameOf(p) /\ row.from = batch[p[1]].from /\ p[1] \in Nat
  <2>1. p[1] \in 1..Len(batch) /\ p[2] \in 1..Len(batch[p[1]].files)
    BY DEF Carried
  <2>2. batch[p[1]].from \in Str /\ batch[p[1]].files[p[2]] \in Str /\ p[1] \in Nat
    BY <2>1, BatchTypes
  <2>3. NameOf(p) \in Str
    BY <2>2, ModelAnswersAssumption DEF NameOf
  <2> QED
    BY <2>2, <2>3 DEF Row
<1>3. \A q \in P : q[1] \in Nat
  BY DEF Carried
<1>4. /\ Len(rows) = MaxFiles => Len(rows) >= MaxFiles /\ ~ (Len(rows) < MaxFiles)
      /\ Len(rows) # MaxFiles =>
           Len(rows) < MaxFiles /\ ~ (Len(rows) >= MaxFiles) /\ Len(rows) + 1 <= MaxFiles
  <2> DEFINE len == Len(rows)
  <2>1. len \in Nat /\ len <= MaxFiles /\ MaxFiles \in Nat
    BY <1>1
  <2> HIDE DEF len
  <2>2. /\ len = MaxFiles => len >= MaxFiles /\ ~ (len < MaxFiles)
        /\ len # MaxFiles => len < MaxFiles /\ ~ (len >= MaxFiles) /\ len + 1 <= MaxFiles
    BY <2>1
  <2> QED
    BY Zenon, <2>2 DEF len
<1>5. ASSUME Len(rows) # MaxFiles, NEW q \in P, NameOf(q) # Blank
      PROVE  \E k \in DOMAIN rows : rows[k].file = NameOf(q)
  <2>1. Len(rows) < MaxFiles
    BY Zenon, <1>4, <1>5
  <2> QED
    BY <1>5, <2>1 DEF RowsOf
<1>6. CASE \/ Len(rows) = MaxFiles \/ NameOf(p) = Blank
           \/ \E k \in DOMAIN rows : rows[k].file = NameOf(p)
  <2>1. new = rows
    BY <1>1, <1>6 DEF Add, NameOf
  <2> HIDE DEF new
  <2>2. ASSUME NEW k \in DOMAIN rows
        PROVE  /\ rows[k].file # Blank
               /\ \E q \in P \cup {p} :
                    /\ NameOf(q) = rows[k].file /\ batch[q[1]].from = rows[k].from
                    /\ \A o \in P \cup {p} : NameOf(o) = rows[k].file => q[1] <= o[1]
    <3>1. PICK q \in P : /\ NameOf(q) = rows[k].file /\ batch[q[1]].from = rows[k].from
                         /\ \A o \in P : NameOf(o) = rows[k].file => q[1] <= o[1]
      BY DEF RowsOf
    <3>2. q[1] <= p[1]
      OBVIOUS
    <3>3. \A o \in P \cup {p} : NameOf(o) = rows[k].file => q[1] <= o[1]
      BY <3>1, <3>2
    <3>4. rows[k].file # Blank
      BY DEF RowsOf
    <3> QED
      BY <3>1, <3>3, <3>4
  <2>3. ASSUME Len(rows) < MaxFiles, NEW q \in P \cup {p}, NameOf(q) # Blank
        PROVE  \E k \in DOMAIN rows : rows[k].file = NameOf(q)
    <3>1. Len(rows) # MaxFiles
      BY Zenon, <1>4, <2>3
    <3>2. CASE q \in P
      BY <1>5, <2>3, <3>1, <3>2
    <3>3. CASE q = p
      BY <1>6, <2>3, <3>1, <3>3
    <3> QED
      BY <3>2, <3>3
  <2>4. \A k, l \in DOMAIN rows : rows[k].file = rows[l].file => k = l
    BY DEF RowsOf
  <2>5. RowsOf(rows, P \cup {p})
    BY <1>1, <2>2, <2>3, <2>4 DEF RowsOf
  <2> QED
    BY <2>1, <2>5 DEF new
<1>7. CASE /\ Len(rows) # MaxFiles /\ NameOf(p) # Blank
           /\ \A k \in DOMAIN rows : rows[k].file # NameOf(p)
  <2>1. new = Append(rows, row)
    <3>1. ~ (Len(rows) >= MaxFiles)
      BY Zenon, <1>4, <1>7
    <3>2. new = IF Len(rows) >= MaxFiles \/ NameOf(p) = Blank
                   \/ \E k \in DOMAIN rows : rows[k].file = NameOf(p)
                THEN rows ELSE Append(rows, row)
      BY Zenon DEF Add, NameOf
    <3> HIDE DEF new, row
    <3> QED
      BY Zenon, <1>7, <3>1, <3>2
  <2> HIDE DEF new, row
  <2>2. /\ new \in Seq(Row) /\ Len(new) = Len(rows) + 1
        /\ DOMAIN new = 1..(Len(rows) + 1)
        /\ \A k \in 1..Len(rows) : new[k] = rows[k]
        /\ new[Len(rows) + 1] = row
    BY <1>1, <1>2, <2>1, AppendProperties, LenProperties
  <2>3. \A k \in DOMAIN new : (k \in DOMAIN rows /\ new[k] = rows[k])
                              \/ (k = Len(rows) + 1 /\ new[k] = row)
    BY <1>1, <2>2
  <2>4. \A q \in P : NameOf(q) # NameOf(p)
    BY <1>7, <1>5
  <2>5. ASSUME NEW k \in DOMAIN new
        PROVE  /\ new[k].file # Blank
               /\ \E q \in P \cup {p} :
                    /\ NameOf(q) = new[k].file /\ batch[q[1]].from = new[k].from
                    /\ \A o \in P \cup {p} : NameOf(o) = new[k].file => q[1] <= o[1]
    <3>1. CASE k \in DOMAIN rows /\ new[k] = rows[k]
      <4>1. PICK q \in P : /\ NameOf(q) = rows[k].file /\ batch[q[1]].from = rows[k].from
                           /\ \A o \in P : NameOf(o) = rows[k].file => q[1] <= o[1]
        BY <3>1 DEF RowsOf
      <4>2. \A o \in P \cup {p} : NameOf(o) = rows[k].file => q[1] <= o[1]
        BY <4>1
      <4>3. rows[k].file # Blank
        BY <3>1 DEF RowsOf
      <4> QED
        BY <3>1, <4>1, <4>2, <4>3
    <3>2. CASE k = Len(rows) + 1 /\ new[k] = row
      <4>1. \A o \in P \cup {p} : NameOf(o) = NameOf(p) => p[1] <= o[1]
        BY <1>2, <2>4
      <4> QED
        BY <1>2, <1>7, <3>2, <4>1
    <3> QED
      BY <2>3, <3>1, <3>2
  <2>6. ASSUME NEW k \in DOMAIN new, NEW l \in DOMAIN new, new[k].file = new[l].file
        PROVE  k = l
    <3>1. CASE k \in DOMAIN rows /\ new[k] = rows[k] /\ l \in DOMAIN rows /\ new[l] = rows[l]
      BY <2>6, <3>1 DEF RowsOf
    <3>2. CASE (k = Len(rows) + 1 /\ new[k] = row) \/ (l = Len(rows) + 1 /\ new[l] = row)
      BY <1>2, <1>7, <2>3, <2>6, <3>2
    <3> QED
      BY <2>3, <3>1, <3>2
  <2>7. ASSUME NEW q \in P \cup {p}, NameOf(q) # Blank
        PROVE  \E k \in DOMAIN new : new[k].file = NameOf(q)
    <3>1. CASE q = p
      BY <1>1, <1>2, <2>2, <3>1
    <3>2. CASE q \in P
      <4>1. PICK k \in DOMAIN rows : rows[k].file = NameOf(q)
        BY <1>7, <1>5, <2>7, <3>2
      <4> QED
        BY <1>1, <2>2, <4>1
    <3> QED
      BY <3>1, <3>2
  <2>8. Len(new) <= MaxFiles
    BY Zenon, <1>4, <1>7, <2>2
  <2>9. RowsOf(new, P \cup {p})
    BY <2>2, <2>5, <2>6, <2>7, <2>8 DEF RowsOf
  <2> QED
    BY <2>9 DEF new
<1> QED
  BY <1>6, <1>7

\* One round keeps rows rows.
LEMMA AddType ==
    ASSUME NEW rows \in Seq(Row), NEW name \in Str, NEW sender \in Str
    PROVE  Add(rows, name, sender) \in Seq(Row)
<1>1. Trim[name] \in Str
  BY ModelAnswersAssumption
<1>2. [file |-> Trim[name], from |-> sender] \in Row
  BY <1>1 DEF Row
<1>3. Append(rows, [file |-> Trim[name], from |-> sender]) \in Seq(Row)
  BY <1>2, AppendProperties
<1> QED
  BY Zenon, <1>3 DEF Add

\* The rounds of the inner loop.
LEMMA FileRounds ==
    ASSUME Given, NEW h \in 1..Len(batch), NEW rows \in Seq(Row)
    PROVE  /\ AddFiles(rows, batch[h]) \in [0..Len(batch[h].files) -> Seq(Row)]
           /\ AddFiles(rows, batch[h])[0] = rows
           /\ \A j \in 1..Len(batch[h].files) :
                AddFiles(rows, batch[h])[j]
                  = Add(AddFiles(rows, batch[h])[j - 1], batch[h].files[j], batch[h].from)
<1> DEFINE m == batch[h]
           n == Len(m.files)
           A == Seq(Row)
           F == [x \in A \X (1..n) |-> Add(x[1], m.files[x[2]], m.from)]
           Is(f) == f = [j \in 0..n |-> IF j = 0 THEN rows
                                        ELSE Add(f[j - 1], m.files[j], m.from)]
<1>1. n \in Nat /\ rows \in A
  BY BatchTypes
<1>2. \A list \in A, j \in 1..n : Add(list, m.files[j], m.from) \in A
  BY BatchTypes, AddType
<1>3. F \in [A \X (1..n) -> A]
  BY <1>2
<1>4. \A list \in A, j \in 1..n : F[<<list, j>>] = Add(list, m.files[j], m.from)
  OBVIOUS
<1> HIDE DEF n, A, F
<1>5. PICK f : Loop(f, n, A, rows, F)
  BY <1>1, <1>3, LoopRuns
<1>6. ASSUME NEW j \in 1..n PROVE f[j] = Add(f[j - 1], m.files[j], m.from)
  <2>1. j - 1 \in 0..n
    BY <1>1
  <2>2. f[j - 1] \in A /\ f[j] = F[<<f[j - 1], j>>]
    BY <1>5, <2>1 DEF Loop
  <2> QED
    BY <1>4, <2>2
<1>7. Is(f)
  <2>1. \A j \in 0..n : f[j] = IF j = 0 THEN rows ELSE Add(f[j - 1], m.files[j], m.from)
    BY <1>1, <1>5, <1>6 DEF Loop
  <2> QED
    BY <1>5, <2>1 DEF Loop
<1>8. AddFiles(rows, m) = CHOOSE g : Is(g)
  BY DEF AddFiles, n
<1>9. Is(AddFiles(rows, m))
  BY Zenon, <1>7, <1>8
<1> DEFINE K == AddFiles(rows, m)
<1> HIDE DEF K
<1>10. K = [j \in 0..n |-> IF j = 0 THEN rows ELSE Add(K[j - 1], m.files[j], m.from)]
  BY <1>9 DEF K
<1> HIDE DEF Is
<1>11. DOMAIN K = 0..n /\ K[0] = rows /\ \A j \in 1..n : K[j] = Add(K[j - 1], m.files[j], m.from)
  BY <1>1, <1>10
<1> DEFINE T == {k \in 0..n : K[k] \in A}
<1>12. 0 \in T /\ \A k \in 1..n : k - 1 \in T => k \in T
  BY <1>1, <1>2, <1>11
<1> HIDE DEF T
<1>13. \A k \in 0..n : k \in T
  BY <1>1, <1>12, EveryRound
<1>14. K \in [0..n -> A]
  BY <1>10, <1>13 DEF T
<1> QED
  BY <1>11, <1>14 DEF K, n, A

\* The places of Carried before and at the j-th file of the h-th message.
UpTo(h, j) == {p \in Carried : p[1] < h \/ (p[1] = h /\ p[2] <= j)}

\* The inner loop: all files of a cited message.
LEMMA MessageAdded ==
    ASSUME Given, NEW h \in 1..Len(batch), CarriesFiles(batch[h]),
           NEW rows, RowsOf(rows, UpTo(h, 0))
    PROVE  RowsOf(AddFiles(rows, batch[h])[Len(batch[h].files)],
                  UpTo(h, Len(batch[h].files)))
<1> DEFINE n == Len(batch[h].files)
           K == AddFiles(rows, batch[h])
           T == {j \in 0..n : RowsOf(K[j], UpTo(h, j))}
<1>1. n \in Nat /\ rows \in Seq(Row) /\ h \in Nat
  BY BatchTypes DEF RowsOf
<1>2. /\ K[0] = rows
      /\ \A j \in 1..n : K[j] = Add(K[j - 1], batch[h].files[j], batch[h].from)
  BY <1>1, FileRounds
<1> HIDE DEF K, n
<1>3. 0 \in T
  BY <1>1, <1>2
<1>4. ASSUME NEW j \in 1..n, j - 1 \in T PROVE j \in T
  <2> DEFINE p == <<h, j>>
             P == UpTo(h, j - 1)
  <2>1. j - 1 \in 0..n /\ j \in 0..n /\ j \in Nat
    BY <1>1
  <2>2. p \in Carried /\ p[1] = h /\ p[2] = j
    BY <2>1 DEF Carried, n
  <2>3. P \in SUBSET Carried /\ \A q \in P : q[1] <= p[1]
    <3>1. \A q \in Carried : q[1] \in Nat
      BY DEF Carried
    <3> QED
      BY <1>1, <3>1 DEF UpTo
  <2>4. UpTo(h, j) = P \cup {p}
    <3>1. \A q \in Carried : q[1] \in Nat /\ q[2] \in Nat /\ q = <<q[1], q[2]>>
      BY DEF Carried
    <3>2. \A q \in Carried : (q[1] = h /\ q[2] <= j) <=> (q[1] = h /\ q[2] <= j - 1) \/ q = p
      BY <1>1, <2>1, <3>1
    <3>3. \A q \in Carried : q \in UpTo(h, j) <=> q \in UpTo(h, j - 1) \/ q = p
      BY <3>2 DEF UpTo
    <3>4. UpTo(h, j) \subseteq Carried /\ UpTo(h, j - 1) \subseteq Carried
      BY DEF UpTo
    <3> QED
      BY <2>2, <3>3, <3>4
  <2> HIDE DEF p, P
  <2>5. RowsOf(K[j - 1], P)
    BY <1>4 DEF P
  <2>6. RowsOf(Add(K[j - 1], batch[p[1]].files[p[2]], batch[p[1]].from), P \cup {p})
    BY <2>2, <2>3, <2>5, AddOne
  <2>7. RowsOf(K[j], UpTo(h, j))
    BY <1>2, <2>2, <2>4, <2>6
  <2> QED
    BY <2>1, <2>7
<1> HIDE DEF T
<1>5. \A j \in 1..n : j - 1 \in T => j \in T
  BY <1>4
<1>6. \A j \in 0..n : j \in T
  BY <1>1, <1>3, <1>5, EveryRound
<1>7. n \in T
  BY <1>1, <1>6
<1> QED
  BY <1>7 DEF T, K, n

\* The rounds of the outer loop.
LEMMA MessageRounds ==
    ASSUME Given
    PROVE  /\ Collected \in [0..Len(batch) -> Seq(Row)]
           /\ Collected[0] = <<>>
           /\ \A h \in 1..Len(batch) :
                Collected[h] = IF CarriesFiles(batch[h])
                               THEN AddFiles(Collected[h - 1], batch[h])[Len(batch[h].files)]
                               ELSE Collected[h - 1]
<1> DEFINE n == Len(batch)
           A == Seq(Row)
           One(list, h) == IF CarriesFiles(batch[h])
                           THEN AddFiles(list, batch[h])[Len(batch[h].files)] ELSE list
           F == [x \in A \X (1..n) |-> One(x[1], x[2])]
           Is(f) == f = [h \in 0..n |-> IF h = 0 THEN <<>> ELSE One(f[h - 1], h)]
<1>1. n \in Nat /\ <<>> \in A
  BY LenProperties, EmptySeq DEF Given
<1>2. ASSUME NEW list \in A, NEW h \in 1..n PROVE One(list, h) \in A
  <2>1. Len(batch[h].files) \in Nat /\ AddFiles(list, batch[h]) \in [0..Len(batch[h].files) -> A]
    BY BatchTypes, FileRounds
  <2>2. AddFiles(list, batch[h])[Len(batch[h].files)] \in A
    BY <2>1
  <2> QED
    BY Zenon, <2>2
<1> HIDE DEF One
<1>3. F \in [A \X (1..n) -> A]
  BY <1>2
<1>4. \A list \in A, h \in 1..n : F[<<list, h>>] = One(list, h)
  OBVIOUS
<1> HIDE DEF n, A, F
<1>5. PICK f : Loop(f, n, A, <<>>, F)
  BY <1>1, <1>3, LoopRuns
<1>6. ASSUME NEW h \in 1..n PROVE f[h] = One(f[h - 1], h)
  <2>1. h - 1 \in 0..n
    BY <1>1
  <2>2. f[h - 1] \in A /\ f[h] = F[<<f[h - 1], h>>]
    BY <1>5, <2>1 DEF Loop
  <2> QED
    BY <1>4, <2>2
<1>7. Is(f)
  <2>1. \A h \in 0..n : f[h] = IF h = 0 THEN <<>> ELSE One(f[h - 1], h)
    BY <1>1, <1>5, <1>6 DEF Loop
  <2> QED
    BY <1>5, <2>1 DEF Loop
<1>8. Collected = CHOOSE g : Is(g)
  BY Zenon DEF Collected, n, One
<1>9. Is(Collected)
  BY Zenon, <1>7, <1>8
<1> DEFINE K == Collected
<1> HIDE DEF K
<1>10. K = [h \in 0..n |-> IF h = 0 THEN <<>> ELSE One(K[h - 1], h)]
  BY <1>9 DEF K
<1> HIDE DEF Is
<1>11. DOMAIN K = 0..n /\ K[0] = <<>> /\ \A h \in 1..n : K[h] = One(K[h - 1], h)
  BY <1>1, <1>10
<1> DEFINE T == {k \in 0..n : K[k] \in A}
<1>12. 0 \in T /\ \A k \in 1..n : k - 1 \in T => k \in T
  BY <1>1, <1>2, <1>11
<1> HIDE DEF T
<1>13. \A k \in 0..n : k \in T
  BY <1>1, <1>12, EveryRound
<1>14. K \in [0..n -> A]
  BY <1>10, <1>13 DEF T
<1> QED
  BY <1>11, <1>14 DEF K, n, A, One

\* Both loops: the rows stand for all files that cited messages carry.
LEMMA AttachmentsStand == ASSUME Given PROVE RowsOf(Attachments, Carried)
<1> DEFINE n == Len(batch)
           K == Collected
           T == {h \in 0..n : RowsOf(K[h], UpTo(h + 1, 0))}
<1>1. n \in Nat /\ MaxFiles \in Nat
  BY LenProperties, ModelAnswersAssumption DEF Given
<1>2. /\ K[0] = <<>>
      /\ \A h \in 1..n : K[h] = IF CarriesFiles(batch[h])
                                THEN AddFiles(K[h - 1], batch[h])[Len(batch[h].files)]
                                ELSE K[h - 1]
  BY MessageRounds
<1>3. \A p \in Carried : /\ p[1] \in 1..n /\ p[1] \in Nat /\ p[2] \in Nat /\ p[2] > 0
                         /\ CarriesFiles(batch[p[1]]) /\ p[2] <= Len(batch[p[1]].files)
  <2> SUFFICES ASSUME NEW p \in Carried
               PROVE  /\ p[1] \in 1..n /\ p[1] \in Nat /\ p[2] \in Nat /\ p[2] > 0
                      /\ CarriesFiles(batch[p[1]]) /\ p[2] <= Len(batch[p[1]].files)
    OBVIOUS
  <2>1. /\ p[1] \in 1..n /\ CarriesFiles(batch[p[1]]) /\ p[2] \in Nat
        /\ p[2] \in 1..Len(batch[p[1]].files)
    BY DEF Carried
  <2>2. Len(batch[p[1]].files) \in Nat
    BY <2>1, BatchTypes
  <2> QED
    BY <2>1, <2>2
<1> HIDE DEF K, n
<1>4. 0 \in T
  <2>1. UpTo(1, 0) = {}
    BY <1>3, <1>1 DEF UpTo
  <2>2. <<>> \in Seq(Row) /\ Len(<<>>) = 0 /\ DOMAIN <<>> = {}
    BY EmptySeq
  <2>3. RowsOf(<<>>, {})
    BY <1>1, <2>2 DEF RowsOf
  <2>4. 0 \in 0..n /\ 0 + 1 = 1
    BY <1>1
  <2> QED
    BY <1>2, <2>1, <2>3, <2>4
<1>5. ASSUME NEW h \in 1..n, h - 1 \in T PROVE h \in T
  <2>1. RowsOf(K[h - 1], UpTo(h, 0)) /\ h \in 0..n /\ h \in Nat
    <3>1. h \in Nat /\ (h - 1) + 1 = h
      BY <1>1
    <3> QED
      BY <1>5, <3>1
  <2>2. \A p \in Carried : /\ p[1] < h + 1 <=> p[1] < h \/ p[1] = h
                           /\ ~ (p[1] = h + 1 /\ p[2] <= 0) /\ ~ (p[1] = h /\ p[2] <= 0)
    BY <1>3, <2>1
  <2>3. CASE CarriesFiles(batch[h])
    <3>1. UpTo(h + 1, 0) = UpTo(h, Len(batch[h].files))
      <4>1. \A p \in Carried : p[1] = h => p[2] <= Len(batch[h].files)
        BY <1>3
      <4> DEFINE l == Len(batch[h].files)
      <4> HIDE DEF l
      <4>2. \A p \in Carried : p \in UpTo(h + 1, 0) <=> p \in UpTo(h, l)
        BY <2>2, <4>1 DEF UpTo, l
      <4>3. UpTo(h + 1, 0) \subseteq Carried /\ UpTo(h, l) \subseteq Carried
        BY DEF UpTo
      <4>4. UpTo(h + 1, 0) = UpTo(h, l)
        BY <4>2, <4>3
      <4> QED
        BY <4>4 DEF l
    <3>2. RowsOf(AddFiles(K[h - 1], batch[h])[Len(batch[h].files)], UpTo(h, Len(batch[h].files)))
      BY <2>1, <2>3, MessageAdded DEF n
    <3> QED
      BY <1>2, <2>1, <2>3, <3>1, <3>2
  <2>4. CASE ~ CarriesFiles(batch[h])
    <3>1. UpTo(h + 1, 0) = UpTo(h, 0)
      BY <1>3, <2>2, <2>4 DEF UpTo
    <3> QED
      BY <1>2, <2>1, <2>4, <3>1
  <2> QED
    BY <2>3, <2>4
<1>6. UpTo(n + 1, 0) = Carried
  <2>1. \A p \in Carried : p[1] < n + 1
    BY <1>1, <1>3
  <2> QED
    BY <2>1 DEF UpTo
<1> HIDE DEF T
<1>7. \A h \in 1..n : h - 1 \in T => h \in T
  BY <1>5
<1>8. \A h \in 0..n : h \in T
  BY <1>1, <1>4, <1>7, EveryRound
<1>9. n \in T
  BY <1>1, <1>8
<1> QED
  BY <1>6, <1>9 DEF T, K, n, Attachments
-----------------------------------------------------------------------------
(* The days.                                                               *)

\* The first day of the year of a day, and the days of the year after it.
LEMMA YearStarts ==
    ASSUME NEW day \in Nat
    PROVE  /\ Year(day) \in Nat /\ YearLength * Year(day) \in Nat
           /\ YearLength * Year(day) <= day /\ day < YearLength * Year(day) + YearLength
<1>1. YearLength \in Nat /\ YearLength > 0
  BY ModelAnswersAssumption
<1> QED
  BY <1>1 DEF Year

\* A span of years in days.
LEMMA YearsInDays ==
    ASSUME NEW y \in Int, NEW z \in Int, NEW k \in Int, y + k <= z
    PROVE  YearLength * y + YearLength * k <= YearLength * z
<1>1. YearLength \in Nat
  BY ModelAnswersAssumption
<1>2. PICK d \in Nat : z = y + k + d
  <2>1. z - (y + k) \in Nat /\ z = y + k + (z - (y + k))
    OBVIOUS
  <2> QED
    BY <2>1
<1>3. YearLength * z = YearLength * y + YearLength * k + YearLength * d
  BY <1>1, <1>2
<1>4. YearLength * d \in Nat /\ YearLength * y \in Int /\ YearLength * k \in Int
  BY <1>1
<1> QED
  BY <1>3, <1>4

\* The window of years, seen in days.
LEMMA WindowInDays ==
    ASSUME NEW day \in Nat, NEW now \in Nat
    PROVE  /\ day \in now - YearLength .. now + YearLength =>
                Year(day) \in Year(now) - Lookback .. Year(now) + Lookahead
           /\ Year(day) \in Year(now) - Lookback .. Year(now) + Lookahead =>
                /\ day > now - (Lookback + 1) * YearLength
                /\ day < now + (Lookahead + 1) * YearLength
<1> DEFINE L == YearLength
           y == Year(day)
           z == Year(now)
<1>1. /\ L \in Nat /\ y \in Nat /\ z \in Nat /\ L * y \in Nat /\ L * z \in Nat
      /\ L * y <= day /\ day < L * y + L /\ L * z <= now /\ now < L * z + L
  BY YearStarts, ModelAnswersAssumption
<1>2. Lookback \in Nat /\ Lookahead \in Nat /\ Lookback >= 1 /\ Lookahead >= 1
  BY ModelAnswersAssumption
<1>3. L * 2 = L + L
  BY <1>1
<1>4. /\ L * Lookback \in Nat /\ L * Lookahead \in Nat
      /\ L * (- Lookahead) = - (L * Lookahead)
      /\ (Lookback + 1) * L = L * Lookback + L /\ (Lookahead + 1) * L = L * Lookahead + L
  BY <1>1, <1>2
<1>5. y + 2 <= z => L * y + L * 2 <= L * z
  BY <1>1, YearsInDays
<1>6. z + 2 <= y => L * z + L * 2 <= L * y
  BY <1>1, YearsInDays
<1>7. z - Lookback <= y => L * z <= L * y + L * Lookback
  <2>1. z - Lookback <= y => z + (- Lookback) <= y /\ z \in Int /\ y \in Int /\ - Lookback \in Int
    BY <1>1, <1>2
  <2>2. z - Lookback <= y => L * z + L * (- Lookback) <= L * y
    BY <2>1, YearsInDays
  <2>3. L * (- Lookback) = - (L * Lookback)
    BY <1>1, <1>2
  <2> QED
    BY <1>1, <1>4, <2>2, <2>3
<1>8. y <= z + Lookahead => L * y <= L * z + L * Lookahead
  <2>1. y <= z + Lookahead => y + (- Lookahead) <= z /\ z \in Int /\ y \in Int /\ - Lookahead \in Int
    BY <1>1, <1>2
  <2>2. y <= z + Lookahead => L * y + L * (- Lookahead) <= L * z
    BY <2>1, YearsInDays
  <2> QED
    BY <1>1, <1>4, <2>2
<1> DEFINE a == L * y
           b == L * z
           c == L * 2
           back == L * Lookback
           ahead == L * Lookahead
<1>9. /\ a \in Nat /\ b \in Nat /\ back \in Nat /\ ahead \in Nat /\ c = L + L
      /\ a <= day /\ day < a + L /\ b <= now /\ now < b + L
      /\ y + 2 <= z => a + c <= b
      /\ z + 2 <= y => b + c <= a
      /\ z - Lookback <= y => b <= a + back
      /\ y <= z + Lookahead => a <= b + ahead
      /\ (Lookback + 1) * L = back + L /\ (Lookahead + 1) * L = ahead + L
  BY <1>1, <1>3, <1>4, <1>5, <1>6, <1>7, <1>8
<1>10. L \in Nat /\ y \in Nat /\ z \in Nat
  BY <1>1
<1> HIDE DEF a, b, c, back, ahead, y, z, L
<1>11. ASSUME day \in now - L .. now + L
       PROVE  y \in z - Lookback .. z + Lookahead
  <2>1. ~ (y + 2 <= z) /\ ~ (z + 2 <= y)
    BY <1>9, <1>10, <1>11
  <2> QED
    BY <1>2, <1>10, <2>1
<1>12. ASSUME y \in z - Lookback .. z + Lookahead
       PROVE  day > now - (back + L) /\ day < now + (ahead + L)
  BY <1>9, <1>10, <1>12
<1>13. ASSUME y \in z - Lookback .. z + Lookahead
       PROVE  day > now - (Lookback + 1) * L /\ day < now + (Lookahead + 1) * L
  BY <1>9, <1>12, <1>13
<1> QED
  BY <1>11, <1>13 DEF y, z, L
-----------------------------------------------------------------------------
(* The invariant: what is stored is what the answer and the batch make.    *)

AnswersInv ==
    /\ batch \in Seq(Message) /\ today \in Nat
    /\ step \in {"idle", "ask", "use", "done"}
    /\ step # "done" => extracted = None /\ entry = None
    /\ step \in {"ask", "use"} => batch # <<>>
    /\ step = "use" => answer \in Answer
    /\ verdict # "conflict"
    /\ extracted # None =>
         /\ answer \in Answer /\ batch # <<>>
         /\ extracted = [sources |-> SourceMsgs, assignees |-> Assignees, deadline |-> Deadline]
    /\ entry # None =>
         /\ answer \in Answer /\ batch # <<>>
         /\ entry = [sources |-> SourceMsgs, related |-> RelatedUIDs, files |-> Attachments]

\* The sequences the filters read.
LEMMA ReadTypes ==
    ASSUME batch \in Seq(Message)
    PROVE  /\ Ids \in Seq(Str) /\ Senders \in Seq(Str)
           /\ Len(Ids) = Len(batch) /\ DOMAIN Ids = DOMAIN batch
           /\ answer \in Answer => answer.sources \in Seq(Str) /\ Named \in Seq(Str)
<1> DEFINE n == Len(batch)
<1>1. n \in Nat /\ DOMAIN batch = 1..n /\ \A i \in 1..n : batch[i] \in Message
  BY LenProperties, ElementOfSeq
<1>2. Ids \in Seq(Str) /\ Len(Ids) = n /\ DOMAIN Ids = DOMAIN batch
  <2>1. Ids \in [1..n -> Str]
    BY <1>1, ModelAnswersAssumption DEF Ids
  <2> HIDE DEF n
  <2>2. Ids \in Seq(Str)
    BY <1>1, <2>1, SeqDef
  <2> QED
    BY <1>1, <2>1, <2>2, LenProperties
<1>3. Senders \in Seq(Str)
  <2>1. Senders \in [1..n -> Str]
    BY <1>1, ModelAnswersAssumption DEF Senders
  <2> HIDE DEF n
  <2> QED
    BY <1>1, <2>1, SeqDef
<1>4. ASSUME answer \in Answer PROVE answer.sources \in Seq(Str) /\ Named \in Seq(Str)
  <2>1. answer.sources \in Seq(Str) /\ answer.people \in Seq(Str)
    BY <1>4, ModelAnswersAssumption
  <2> DEFINE people == answer.people
             m == Len(people)
  <2>2. m \in Nat /\ DOMAIN people = 1..m /\ \A i \in 1..m : people[i] \in Str
    BY <2>1, LenProperties, ElementOfSeq
  <2>3. Named \in [1..m -> Str]
    BY <2>2, ModelAnswersAssumption DEF Named
  <2> HIDE DEF m, people
  <2>4. Named \in Seq(Str)
    BY <2>2, <2>3, SeqDef
  <2> QED
    BY <2>1, <2>4
<1> QED
  BY <1>2, <1>3, <1>4

\* Nobody is assigned twice.
LEMMA AssigneesDiffer ==
    ASSUME batch \in Seq(Message), answer \in Answer
    PROVE  IsInjective(Assignees)
<1> DEFINE named == Distinct(Named, Present(Senders) \cup {Creator})
<1>1. IsInjective(named)
  BY ReadTypes, DistinctSelects
<1>2. IsInjective(<<Creator>>)
  BY DEF IsInjective
<1> HIDE DEF named
<1>3. Assignees = IF named = <<>> THEN <<Creator>> ELSE named
  BY DEF Assignees, named
<1> QED
  BY Zenon, <1>1, <1>2, <1>3

LEMMA AnswersInvInit == AnswersInit => AnswersInv
<1>1. <<>> \in Seq(Message)
  BY EmptySeq
<1> QED
  BY <1>1 DEF AnswersInit, AnswersInv

LEMMA AnswersInvStep == AnswersInv /\ [AnswersNext]_answerVars => AnswersInv'
<1> SUFFICES ASSUME AnswersInv, [AnswersNext]_answerVars PROVE AnswersInv'
  OBVIOUS
<1> DEFINE Read == /\ Ids' = Ids /\ Senders' = Senders /\ SourceMsgs' = SourceMsgs
                   /\ Named' = Named /\ Assignees' = Assignees /\ RelatedUIDs' = RelatedUIDs
                   /\ Attachments' = Attachments /\ Deadline' = Deadline
<1>1. ASSUME UNCHANGED <<batch, today, answer>> PROVE Read
  <2>1. Ids' = Ids /\ Senders' = Senders /\ Named' = Named
    BY <1>1 DEF Ids, Senders, Named
  <2>2. Cited' = Cited
    BY <1>1, <2>1 DEF Cited
  <2>3. Deadline' = Deadline
    BY <1>1 DEF Deadline
  <2>4. Attachments' = Attachments
    BY <1>1, <2>2 DEF Attachments, Collected, CarriesFiles
  <2>5. SourceMsgs' = SourceMsgs /\ Assignees' = Assignees /\ RelatedUIDs' = RelatedUIDs
    BY <2>1, <2>2 DEF SourceMsgs, Assignees, RelatedUIDs
  <2> QED
    BY <2>1, <2>3, <2>4, <2>5
<1>2. CASE UNCHANGED answerVars
  <2>1. UNCHANGED <<batch, today, answer>> /\ UNCHANGED <<step, extracted, entry, verdict>>
    BY <1>2 DEF answerVars
  <2>2. Read
    BY <1>1, <2>1
  <2> QED
    BY <2>1, <2>2 DEF AnswersInv
<1>3. ASSUME NEW b \in BoundedSeq(Message, MaxMessages + 1), Accept(b) PROVE AnswersInv'
  <2>1. b \in Seq(Message)
    <3>1. PICK n \in 0..(MaxMessages + 1) : b \in [1..n -> Message]
      BY DEF BoundedSeq, SeqOf
    <3>2. n \in Nat
      BY <3>1, ModelAnswersAssumption
    <3> QED
      BY <3>1, <3>2, SeqDef
  <2>2. b # <<>> \/ step' = "done"
    BY <1>3 DEF Accept
  <2>3. /\ extracted' = None /\ entry' = None /\ today' \in Nat /\ batch' = b
        /\ verdict' # "conflict" /\ step' \in {"ask", "done"}
    BY <1>3, ModelAnswersAssumption DEF Accept, AnswersInv
  <2> QED
    BY <2>1, <2>2, <2>3 DEF AnswersInv
<1>4. ASSUME ModelFails PROVE AnswersInv'
  BY <1>4 DEF ModelFails, AnswersInv
<1>5. ASSUME NEW a \in Answer, Reply(a) PROVE AnswersInv'
  BY <1>5 DEF Reply, AnswersInv
<1>6. ASSUME Extract PROVE AnswersInv'
  <2>1. /\ batch \in Seq(Message) /\ batch # <<>> /\ answer \in Answer /\ today \in Nat
        /\ entry = None /\ step' = "done" /\ UNCHANGED <<batch, today, answer, entry>>
    BY <1>6 DEF Extract, AnswersInv
  <2>2. Read
    BY <1>1, <2>1
  <2>3. /\ extracted' = [sources |-> SourceMsgs, assignees |-> Assignees, deadline |-> Deadline]
        /\ verdict' = "stored"
    BY <1>6, <2>1, AssigneesDiffer DEF Extract
  <2> QED
    BY <2>1, <2>2, <2>3 DEF AnswersInv
<1>7. ASSUME Progress PROVE AnswersInv'
  <2>1. /\ batch \in Seq(Message) /\ batch # <<>> /\ answer \in Answer /\ today \in Nat
        /\ extracted = None /\ step' = "done" /\ UNCHANGED <<batch, today, answer, extracted>>
        /\ entry' = [sources |-> SourceMsgs, related |-> RelatedUIDs, files |-> Attachments]
        /\ verdict' = "stored"
    BY <1>7 DEF Progress, AnswersInv
  <2>2. Read
    BY <1>1, <2>1
  <2> QED
    BY <2>1, <2>2 DEF AnswersInv
<1> QED
  BY <1>2, <1>3, <1>4, <1>5, <1>6, <1>7 DEF AnswersNext

\* What is stored of an answer is what the batch makes of it.
THEOREM AnswersInvariant == AnswersSpec => []AnswersInv
  BY PTL, AnswersInvInit, AnswersInvStep DEF AnswersSpec

\* The messages that are cited: what the model names and the batch has.
LEMMA CitedAre ==
    ASSUME batch \in Seq(Message), answer \in Answer
    PROVE  /\ Cited \in Seq(Str)
           /\ IsSelection(Cited, answer.sources, ToSet(Ids))
           /\ ToSet(Cited) = ToSet(answer.sources) \cap ToSet(Ids)
  BY ReadTypes, DistinctSelects DEF Cited

\* What an empty filter says.
LEMMA NothingKept ==
    ASSUME NEW t, NEW s, NEW set, IsSelection(t, s, set), t = <<>>
    PROVE  ToSet(s) \cap set = {}
<1>1. ToSet(t) = {}
  BY DEF ToSet
<1> QED
  BY <1>1 DEF IsSelection

\* The messages kept as sources are the batch's, and there is one: nobody reads a
\* matter or an entry that comes from nowhere.
THEOREM SourcesAreFromTheBatch == AnswersSpec => []SourcesAreReal
<1>1. ASSUME AnswersInv, NEW stored \in {extracted, entry} \ {None}
      PROVE  /\ stored.sources # <<>>
             /\ \/ IsSelection(stored.sources, answer.sources, ToSet(Ids))
                \/ ToSet(answer.sources) \cap ToSet(Ids) = {} /\ stored.sources = Ids
  <2>1. /\ batch \in Seq(Message) /\ batch # <<>> /\ answer \in Answer
        /\ stored.sources = SourceMsgs
    BY <1>1 DEF AnswersInv
  <2>2. CASE Cited = <<>>
    <3>1. stored.sources = Ids
      BY <2>1, <2>2 DEF SourceMsgs
    <3>2. Ids # <<>>
      BY <2>1, ReadTypes, EmptySeq
    <3>3. ToSet(answer.sources) \cap ToSet(Ids) = {}
      BY <2>1, <2>2, CitedAre, NothingKept
    <3> QED
      BY <3>1, <3>2, <3>3
  <2>3. CASE Cited # <<>>
    BY <2>1, <2>3, CitedAre DEF SourceMsgs
  <2> QED
    BY <2>2, <2>3
<1>2. AnswersInv => SourcesAreReal
  BY <1>1 DEF SourcesAreReal
<1> QED
  BY <1>2, AnswersInvariant, PTL

\* Nobody whom the model made up is assigned or related, nobody it named rightly is
\* left out, and no creation fails on a person named twice.
THEOREM PeopleAreFromTheBatch == AnswersSpec => []PeopleAreReal
<1> DEFINE senders == ToSet(Senders) \ {Blank}
           people == senders \cup {Creator}
<1>1. ASSUME AnswersInv, extracted # None
      PROVE  \/ IsSelection(extracted.assignees, Named, people)
             \/ ToSet(Named) \cap people = {} /\ extracted.assignees = <<Creator>>
  <2>1. batch \in Seq(Message) /\ answer \in Answer /\ extracted.assignees = Assignees
    BY <1>1 DEF AnswersInv
  <2> DEFINE named == Distinct(Named, people)
  <2>2. IsSelection(named, Named, people)
    BY <2>1, ReadTypes, DistinctSelects
  <2> HIDE DEF people
  <2>3. Assignees = IF named = <<>> THEN <<Creator>> ELSE named
    BY DEF Assignees, Present, people
  <2> HIDE DEF named
  <2>4. named = <<>> => ToSet(Named) \cap people = {}
    BY <2>2, NothingKept
  <2> QED
    BY Zenon, <2>1, <2>2, <2>3, <2>4
<1>2. ASSUME AnswersInv, entry # None
      PROVE  \/ IsSelection(entry.related, Named, senders)
             \/ ToSet(Named) \cap senders = {} /\ IsSelection(entry.related, Senders, senders)
  <2>1. batch \in Seq(Message) /\ answer \in Answer /\ entry.related = RelatedUIDs
    BY <1>2 DEF AnswersInv
  <2> DEFINE named == Distinct(Named, senders)
             all == Distinct(Senders, senders)
  <2>2. IsSelection(named, Named, senders) /\ IsSelection(all, Senders, senders)
    BY <2>1, ReadTypes, DistinctSelects
  <2> HIDE DEF senders
  <2>3. RelatedUIDs = IF named = <<>> THEN all ELSE named
    BY DEF RelatedUIDs, Present, senders
  <2> HIDE DEF named, all
  <2>4. named = <<>> => ToSet(Named) \cap senders = {}
    BY <2>2, NothingKept
  <2> QED
    BY Zenon, <2>1, <2>2, <2>3, <2>4
<1>3. AnswersInv => PeopleAreReal
  <2>1. AnswersInv => verdict # "conflict"
    BY DEF AnswersInv
  <2> QED
    BY <1>1, <1>2, <2>1 DEF PeopleAreReal
<1> QED
  BY <1>3, AnswersInvariant, PTL

\* A deadline of the model is kept when it is at most a year away, and is never
\* further away than the window of years, whatever the day is.
THEOREM DeadlinesInWindow == AnswersSpec => []DeadlinesAreNear
<1>1. ASSUME AnswersInv, extracted # None, answer.deadline # None
      PROVE  /\ answer.deadline \in today - YearLength .. today + YearLength =>
                  extracted.deadline = answer.deadline
             /\ extracted.deadline # None =>
                  /\ extracted.deadline > today - (Lookback + 1) * YearLength
                  /\ extracted.deadline < today + (Lookahead + 1) * YearLength
  <2> DEFINE day == answer.deadline
             near == Year(day) \in Year(today) - Lookback .. Year(today) + Lookahead
  <2>1. today \in Nat /\ answer \in Answer /\ extracted.deadline = Deadline
    BY <1>1 DEF AnswersInv
  <2>2. day \in Nat
    BY <1>1, <2>1, ModelAnswersAssumption
  <2>3. /\ day \in today - YearLength .. today + YearLength => near
        /\ near => /\ day > today - (Lookback + 1) * YearLength
                   /\ day < today + (Lookahead + 1) * YearLength
    BY <2>1, <2>2, WindowInDays
  <2>4. Deadline = IF near THEN day ELSE None
    BY <1>1 DEF Deadline
  <2> HIDE DEF day, near
  <2>5. extracted.deadline = IF near THEN day ELSE None
    BY <2>1, <2>4
  <2>6. day # None
    BY <1>1 DEF day
  <2>7. day \in today - YearLength .. today + YearLength => extracted.deadline = day
    BY Zenon, <2>3, <2>5
  <2>8. extracted.deadline # None =>
          /\ extracted.deadline > today - (Lookback + 1) * YearLength
          /\ extracted.deadline < today + (Lookahead + 1) * YearLength
    BY Zenon, <2>3, <2>5
  <2> QED
    BY <2>7, <2>8 DEF day
<1>2. AnswersInv => DeadlinesAreNear
  BY Zenon, <1>1 DEF DeadlinesAreNear
<1> QED
  BY <1>2, AnswersInvariant, PTL

\* The files of an entry are those of the messages that the model cited: no other's,
\* each once and with the first of them that has it, and all below the cap.
THEOREM FilesOfCitations == AnswersSpec => []FilesAreCited
<1> DEFINE cited == {i \in DOMAIN batch : batch[i].id \in ToSet(answer.sources)}
           Has(i, f) == \E j \in DOMAIN batch[i].files : Trim[batch[i].files[j]] = f
           known == {f \in Str \ {Blank} : \E i \in cited : Has(i, f)}
           rows == entry.files
<1>1. ASSUME AnswersInv, entry # None
      PROVE  /\ \A k \in DOMAIN rows :
                  /\ rows[k].file \in known
                  /\ \E i \in cited :
                       /\ Has(i, rows[k].file) /\ batch[i].from = rows[k].from
                       /\ \A h \in cited : Has(h, rows[k].file) => i <= h
             /\ \A k, l \in DOMAIN rows : rows[k].file = rows[l].file => k = l
             /\ Len(rows) <= MaxFiles
             /\ Len(rows) < MaxFiles => {rows[k].file : k \in DOMAIN rows} = known
  <2>1. batch \in Seq(Message) /\ answer \in Answer /\ Given /\ rows = Attachments
    BY <1>1 DEF AnswersInv, Given
  <2>2. RowsOf(rows, Carried)
    BY <2>1, AttachmentsStand
  <2> HIDE DEF rows
  <2>3. \A i \in DOMAIN batch : CarriesFiles(batch[i]) <=> i \in cited
    <3>1. \A i \in DOMAIN batch : batch[i].id \in ToSet(Ids)
      BY DEF Ids, ToSet
    <3> QED
      BY <2>1, <3>1, CitedAre DEF CarriesFiles
  <2>4. cited \subseteq 1..Len(batch) /\ Len(batch) \in Nat /\ DOMAIN batch = 1..Len(batch)
    BY <2>1, LenProperties
  <2>5. ASSUME NEW p \in Carried PROVE p[1] \in cited /\ Has(p[1], NameOf(p)) /\ NameOf(p) \in Str
    <3>1. p[1] \in 1..Len(batch) /\ CarriesFiles(batch[p[1]]) /\ p[2] \in 1..Len(batch[p[1]].files)
      BY DEF Carried
    <3>2. /\ DOMAIN batch[p[1]].files = 1..Len(batch[p[1]].files)
          /\ batch[p[1]].files[p[2]] \in Str
      BY <2>1, <3>1, BatchTypes
    <3>3. p[1] \in cited
      BY <2>3, <2>4, <3>1
    <3>4. Has(p[1], NameOf(p)) /\ NameOf(p) \in Str
      BY <3>1, <3>2, ModelAnswersAssumption DEF NameOf
    <3> QED
      BY <3>3, <3>4
  <2>6. ASSUME NEW i \in cited, NEW f, Has(i, f) PROVE \E p \in Carried : p[1] = i /\ NameOf(p) = f
    <3>1. i \in 1..Len(batch) /\ CarriesFiles(batch[i])
      BY <2>3, <2>4
    <3>2. DOMAIN batch[i].files = 1..Len(batch[i].files) /\ Len(batch[i].files) \in Nat
      BY <2>1, <3>1, BatchTypes
    <3>3. PICK j \in 1..Len(batch[i].files) : Trim[batch[i].files[j]] = f
      BY <2>6, <3>2
    <3> DEFINE p == <<i, j>>
    <3>4. p \in Carried /\ p[1] = i /\ NameOf(p) = f
      BY <3>1, <3>2, <3>3 DEF Carried, NameOf
    <3> QED
      BY <3>4
  <2> HIDE DEF cited, Has
  <2>7. ASSUME NEW k \in DOMAIN rows
        PROVE  /\ rows[k].file \in known
               /\ \E i \in cited :
                    /\ Has(i, rows[k].file) /\ batch[i].from = rows[k].from
                    /\ \A h \in cited : Has(h, rows[k].file) => i <= h
    <3>1. PICK p \in Carried : /\ NameOf(p) = rows[k].file /\ batch[p[1]].from = rows[k].from
                               /\ \A q \in Carried : NameOf(q) = rows[k].file => p[1] <= q[1]
      BY <2>2 DEF RowsOf
    <3>2. p[1] \in cited /\ Has(p[1], rows[k].file) /\ rows[k].file \in Str
      BY <2>5, <3>1
    <3>3. rows[k].file # Blank
      BY <2>2 DEF RowsOf
    <3>4. ASSUME NEW h \in cited, Has(h, rows[k].file) PROVE p[1] <= h
      BY <2>6, <3>1, <3>4
    <3> QED
      BY <3>1, <3>2, <3>3, <3>4
  <2>8. /\ \A k, l \in DOMAIN rows : rows[k].file = rows[l].file => k = l
        /\ Len(rows) <= MaxFiles
    BY <2>2 DEF RowsOf
  <2>9. ASSUME Len(rows) < MaxFiles, NEW f \in known PROVE \E k \in DOMAIN rows : rows[k].file = f
    <3>1. PICK p \in Carried : NameOf(p) = f
      BY <2>6
    <3>2. NameOf(p) # Blank
      BY <3>1
    <3> QED
      BY <2>2, <2>9, <3>1, <3>2 DEF RowsOf
  <2> HIDE DEF known
  <2>10. Len(rows) < MaxFiles => {rows[k].file : k \in DOMAIN rows} = known
    BY <2>7, <2>9
  <2> QED
    BY <2>7, <2>8, <2>10
<1>2. AnswersInv => FilesAreCited
  BY Zenon, <1>1 DEF FilesAreCited
<1> QED
  BY <1>2, AnswersInvariant, PTL
=============================================================================
