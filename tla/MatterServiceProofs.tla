------------------------- MODULE MatterServiceProofs -------------------------
(***************************************************************************)
(* For any number of requests, users, channels and values: the types, the  *)
(* stability of the row a transition has locked, and the refinement of     *)
(* MatterLifecycle, from one inductive invariant, IInv; then, from a       *)
(* second one, AInv, that the activities tell of what was committed, that  *)
(* the answers are explained and that the assignees are accounted for.     *)
(***************************************************************************)
EXTENDS MatterService, SequenceTheorems, FiniteSetTheorems, TLAPS

\* A request that records owes something.
RecorderOwes == \A r \in Request : pc[r] = "record" => todo[r] # <<>>

\* A request between the SELECT ... FOR UPDATE and the end of its transaction
\* holds the lock, so there is at most one.
DeciderHoldsLock == \A r \in Request : pc[r] \in {"decide", "commit"} => lock = r

\* What a request about to write was allowed: a transition, given the status it
\* read under the lock; a deletion, to the creator.
CommitIsPermitted == \A r \in Request :
    pc[r] = "commit" => Life!Permitted(CallerOf(r), snap[r].status, op[r].target)
DeleteIsByCreator == \A r \in Request :
    (pc[r] = "write" /\ op[r].kind = "delete") => ByCreator(r)

\* The row is where the history says, and who stepped will not step again.
RowMatchesHistory ==
    Life!Current(history) = IF row.deleted THEN "deleted" ELSE row.status
SteppedIsPast ==
    \A i \in DOMAIN history : pc[history[i].req] \in {"record", "reply", "done"}

IInv ==
    /\ TypeOK
    /\ RecorderOwes
    /\ DeciderHoldsLock
    /\ LockedRowIsStable
    /\ CommitIsPermitted
    /\ DeleteIsByCreator
    /\ RowMatchesHistory
    /\ SteppedIsPast
-----------------------------------------------------------------------------
\* What is left of a sequence after its head.
LEMMA HeadAndTail ==
    ASSUME NEW S, NEW s \in Seq(S), s # <<>>
    PROVE  /\ Head(s) \in S /\ Tail(s) \in Seq(S)
           /\ Len(s) > 1 => Tail(s) # <<>>
<1>1. Len(Tail(s)) = Len(s) - 1 /\ Head(s) \in S /\ Tail(s) \in Seq(S)
  BY HeadTailProperties
<1>2. Len(s) \in Nat
  BY LenProperties
<1>3. Tail(s) = <<>> => Len(Tail(s)) = 0
  BY <1>1, EmptySeq, Zenon
<1> QED
  BY <1>1, <1>2, <1>3

\* The history's entries are typed.
LEMMA HistoryEntries ==
    ASSUME TypeOK, NEW i \in DOMAIN history
    PROVE  history[i] \in HistoryEntry
<1>1. history \in Seq(HistoryEntry)
  BY DEF TypeOK
<1>2. DOMAIN history = 1..Len(history)
  BY <1>1, LenProperties
<1> QED
  BY <1>1, <1>2, ElementOfSeq

\* A matter that has just been created satisfies the invariant.
LEMMA InitIInv == Init => IInv
<1> SUFFICES ASSUME Init PROVE IInv
  OBVIOUS
<1> USE DEF Init
<1>1. [f \in Field |-> Initial] \in [Field -> Value]
  BY ServiceAssumption
<1>2. TypeOK
  BY <1>1, ServiceAssumption DEF TypeOK, Row, Status, Label, Outcome, Operation
<1>3. Life!Current(history) = "open"
  BY DEF Life!Current
<1> QED
  BY <1>2, <1>3, ServiceAssumption DEF IInv, RecorderOwes, DeciderHoldsLock, LockedRowIsStable,
     CommitIsPermitted, DeleteIsByCreator, RowMatchesHistory, SteppedIsPast

\* Steps that move one request and touch neither the row, the lock nor the
\* history, without entering a transaction, a commit or a delete.
LEMMA QuietStep ==
    ASSUME IInv, NEW r \in Request, UNCHANGED <<row, lock, history>>,
           TypeOK', RecorderOwes',
           pc[r] \in {"record", "reply", "done"} => pc'[r] \in {"record", "reply", "done"},
           {pc[r], pc'[r]} \cap {"decide", "commit"} = {},
           pc'[r] = "write" /\ op'[r].kind = "delete" => IsCreator(op'[r].caller),
           \A q \in Request \ {r} : /\ pc'[q] = pc[q] /\ op'[q] = op[q]
                                    /\ snap'[q] = snap[q]
    PROVE  IInv'
<1>1. DeciderHoldsLock'
  BY DEF IInv, DeciderHoldsLock
<1>2. LockedRowIsStable'
  BY DEF IInv, LockedRowIsStable, TypeOK
<1>3. CommitIsPermitted'
  BY DEF IInv, CommitIsPermitted, CallerOf
<1>4. DeleteIsByCreator'
  BY DEF IInv, DeleteIsByCreator, ByCreator, CallerOf
<1>5. RowMatchesHistory'
  BY DEF IInv, RowMatchesHistory
<1>6. SteppedIsPast'
  <2> SUFFICES ASSUME NEW i \in DOMAIN history
               PROVE  pc'[history[i].req] \in {"record", "reply", "done"}
    BY DEF SteppedIsPast
  <2>1. history[i].req \in Request
    BY HistoryEntries DEF IInv, HistoryEntry
  <2>2. pc[history[i].req] \in {"record", "reply", "done"}
    BY DEF IInv, SteppedIsPast
  <2> QED
    BY <2>1, <2>2
<1> QED
  BY <1>1, <1>2, <1>3, <1>4, <1>5, <1>6 DEF IInv

\* A request arrives.
LEMMA ArriveStep ==
    ASSUME IInv, NEW r \in Request, NEW o \in Operation,
           NEW label \in {"load", "gate", "precheck", "lock"}, Arrive(r, o, label)
    PROVE  IInv'
<1> USE DEF Arrive, Goto, db
<1>1. TypeOK'
  BY DEF IInv, TypeOK, Label
<1>2. RecorderOwes'
  BY DEF IInv, RecorderOwes, TypeOK
<1>3. /\ pc[r] = "idle" /\ pc'[r] = label
      /\ \A q \in Request \ {r} : /\ pc'[q] = pc[q] /\ op'[q] = op[q]
                                  /\ snap'[q] = snap[q]
  BY DEF IInv, TypeOK
<1> QED
  BY <1>1, <1>2, <1>3, QuietStep DEF IInv

\* A request outside a transaction goes to another statement, or answers, and
\* changes nothing but its snapshot.
LEMMA MoveStep ==
    ASSUME IInv, NEW r \in Request,
           NEW label \in Label \ {"decide", "commit", "record"},
           pc' = [pc EXCEPT ![r] = label], outcome' \in [Request -> Outcome],
           snap' = snap \/ snap' = [snap EXCEPT ![r] = row],
           UNCHANGED <<db, activity, op, todo, wrote, history>>,
           pc[r] \notin {"idle", "decide", "commit"},
           pc[r] \in {"record", "reply", "done"} => label \in {"reply", "done"},
           (label = "write" /\ op[r].kind = "delete") => ByCreator(r)
    PROVE  IInv'
<1> USE DEF db
<1>1. TypeOK'
  BY DEF IInv, TypeOK
<1>2. RecorderOwes'
  BY DEF IInv, RecorderOwes, TypeOK
<1>3. /\ pc'[r] = label
      /\ \A q \in Request \ {r} : /\ pc'[q] = pc[q] /\ op'[q] = op[q]
                                  /\ snap'[q] = snap[q]
  BY DEF IInv, TypeOK
<1> QED
  BY <1>1, <1>2, <1>3, QuietStep DEF IInv, ByCreator, CallerOf

\* The loads: not found, refused, or on to the next statement.
LEMMA LoadStep ==
    ASSUME IInv, NEW r \in Request, NEW label \in {"write", "authz", "lock"},
           pc[r] \in {"load", "precheck"},
           \/ GetByID(r, Goto(r, label))
           \/ GetByID(r, Finish(r, "forbidden")),
           (label = "write" /\ op[r].kind = "delete") => ByCreator(r)
    PROVE  IInv'
<1> USE DEF GetByID, Label, Outcome
<1>1. CASE Goto(r, label) /\ ~row.deleted
  <2>1. outcome' \in [Request -> Outcome] /\ pc' = [pc EXCEPT ![r] = label]
    BY <1>1 DEF Goto, IInv, TypeOK
  <2> QED
    BY <1>1, <2>1, MoveStep DEF Finish
<1>2. CASE \E o \in {"not_found", "forbidden"} : Finish(r, o)
  <2>1. outcome' \in [Request -> Outcome] /\ pc' = [pc EXCEPT ![r] = "done"]
    BY <1>2 DEF Finish, IInv, TypeOK
  <2> QED
    BY <1>2, <2>1, MoveStep DEF Goto
<1> QED
  BY <1>1, <1>2

\* The re-read that the answer to a transition is built from.
LEMMA ReplyStep ==
    ASSUME IInv, NEW r \in Request, Reply(r)
    PROVE  IInv'
<1>1. outcome' \in [Request -> Outcome] /\ pc' = [pc EXCEPT ![r] = "done"]
  BY DEF Reply, GetByID, Finish, Outcome, IInv, TypeOK
<1> QED
  BY <1>1, MoveStep DEF Reply, GetByID, Label

\* The writes that are followed by activities.
LEMMA RecordStep ==
    ASSUME IInv, NEW r \in Request, NEW entries \in Seq(ActivityEntry),
           Record(r, entries), pc[r] = "write",
           UNCHANGED <<row, lock, activity, op, snap, history>>,
           assignees' \subseteq User, channels' \subseteq Channel,
           wrote' \in [Request -> BOOLEAN]
    PROVE  IInv'
<1> USE DEF Record, Owe, Finish, Goto
<1>1. TypeOK'
  BY DEF IInv, TypeOK, Label, Outcome
<1>2. RecorderOwes'
  BY DEF IInv, RecorderOwes, TypeOK
<1>3. /\ pc'[r] \in {"record", "done"}
      /\ \A q \in Request \ {r} : /\ pc'[q] = pc[q] /\ op'[q] = op[q]
                                  /\ snap'[q] = snap[q]
  BY DEF IInv, TypeOK
<1> QED
  BY <1>1, <1>2, <1>3, QuietStep DEF IInv

\* An activity is recorded, or lost, and the method goes on or answers.
LEMMA RecordActivityStep ==
    ASSUME IInv, NEW r \in Request,
           \/ RecordActivity(r, Finish(r, "ok"))
           \/ RecordActivity(r, Goto(r, "reply"))
    PROVE  IInv'
<1> USE DEF RecordActivity, Owe, Finish, Goto, db
<1>0. todo[r] \in Seq(ActivityEntry) /\ todo[r] # <<>>
  BY DEF IInv, TypeOK, RecorderOwes
<1>1. /\ Head(todo[r]) \in ActivityEntry /\ Tail(todo[r]) \in Seq(ActivityEntry)
      /\ Len(todo[r]) > 1 => Tail(todo[r]) # <<>>
  BY <1>0, HeadAndTail, Zenon
<1>2. activity' \in Seq(ActivityEntry)
  <2>1. activity \in Seq(ActivityEntry)
    BY DEF IInv, TypeOK
  <2>2. activity' = activity \/ activity' = Append(activity, Head(todo[r]))
    BY Zenon
  <2> QED
    BY <1>1, <2>1, <2>2, AppendProperties
<1>3. TypeOK'
  BY <1>1, <1>2 DEF IInv, TypeOK, Label, Outcome
<1>4. RecorderOwes'
  BY <1>1 DEF IInv, RecorderOwes, TypeOK
<1>5. /\ pc'[r] \in {"record", "reply", "done"}
      /\ \A q \in Request \ {r} : /\ pc'[q] = pc[q] /\ op'[q] = op[q]
                                  /\ snap'[q] = snap[q]
  BY DEF IInv, TypeOK
<1> QED
  BY <1>3, <1>4, <1>5, QuietStep DEF IInv
-----------------------------------------------------------------------------
\* What an edit writes and records is typed.
LEMMA EditIsTyped ==
    ASSUME TypeOK, NEW r \in Request, op[r].kind = "edit"
    PROVE  /\ MergedFields(r) \in [Field -> Value]
           /\ EditEntries(r) \in Seq(ActivityEntry)
<1>1. op[r].set \in Edit
  BY DEF TypeOK, Operation
<1>2. \A f \in DOMAIN op[r].set : f \in Field /\ op[r].set[f] \in Value
  BY <1>1 DEF Edit
<1>3. snap[r].fields \in [Field -> Value]
  BY DEF TypeOK, Row
<1>4. MergedFields(r) \in [Field -> Value]
  BY <1>2, <1>3 DEF MergedFields
<1>5. ASSUME NEW f \in Columns, NEW action \in Action, NEW from,
             f \in Field => from \in Subject
      PROVE  Deferred(r, f, action, from) \in Seq(ActivityEntry)
  <2>1. CASE f \in DOMAIN op[r].set /\ op[r].set[f] # snap[r].fields[f]
    <3>1. Entry(r, action, from, op[r].set[f]) \in ActivityEntry
      BY <1>2, <1>5, <2>1 DEF Entry, ActivityEntry, Subject
    <3> QED
      BY <2>1, <3>1 DEF Deferred
  <2>2. CASE ~(f \in DOMAIN op[r].set /\ op[r].set[f] # snap[r].fields[f])
    BY <2>2 DEF Deferred
  <2> QED
    BY <2>1, <2>2
<1>6. Deferred(r, "title", "title_changed", snap[r].fields["title"]) \in Seq(ActivityEntry)
  BY <1>3, <1>5 DEF Columns, Action, Subject
<1>7. Deferred(r, "description", "description_changed", None) \in Seq(ActivityEntry)
  BY <1>5 DEF Columns, Action, Subject
<1>8. Deferred(r, "deadline", "deadline_changed", snap[r].fields["deadline"]) \in Seq(ActivityEntry)
  BY <1>3, <1>5 DEF Columns, Action, Subject
<1> QED
  BY <1>4, <1>6, <1>7, <1>8, ConcatProperties, Zenon DEF EditEntries

\* The edit changes columns the status protocol does not look at.
LEMMA UpdateStep ==
    ASSUME IInv, NEW r \in Request, pc[r] = "write", op[r].kind = "edit", Update(r)
    PROVE  IInv'
<1>1. CASE Finish(r, "not_found") /\ UNCHANGED <<row, todo, wrote>>
  <2>1. outcome' \in [Request -> Outcome] /\ pc' = [pc EXCEPT ![r] = "done"]
    BY <1>1 DEF Finish, Outcome, IInv, TypeOK
  <2> QED
    BY <1>1, <2>1, MoveStep DEF Update, Label, db
<1>2. CASE /\ ~row.deleted /\ row' = [row EXCEPT !.fields = MergedFields(r)]
           /\ Wrote(r) /\ Record(r, EditEntries(r))
  <2> USE DEF Update, Record, Owe, Finish, Goto, Wrote
  <2>1. /\ MergedFields(r) \in [Field -> Value]
        /\ EditEntries(r) \in Seq(ActivityEntry)
    BY EditIsTyped DEF IInv
  <2>2. row' \in Row /\ row'.status = row.status /\ row'.deleted = row.deleted
    BY <1>2, <2>1 DEF IInv, TypeOK, Row
  <2>3. TypeOK'
    BY <1>2, <2>1, <2>2 DEF IInv, TypeOK, Label, Outcome
  <2>4. /\ pc'[r] \in {"record", "done"}
        /\ \A q \in Request \ {r} : pc'[q] = pc[q]
        /\ UNCHANGED <<lock, op, snap, history>>
    BY <1>2 DEF IInv, TypeOK
  <2>5. RecorderOwes'
    BY <1>2, <2>4 DEF IInv, RecorderOwes, TypeOK
  <2>6. DeciderHoldsLock' /\ LockedRowIsStable'
    BY <2>2, <2>4 DEF IInv, TypeOK, DeciderHoldsLock, LockedRowIsStable
  <2>7. CommitIsPermitted' /\ DeleteIsByCreator'
    BY <2>4 DEF IInv, CommitIsPermitted, DeleteIsByCreator, ByCreator, CallerOf
  <2>8. RowMatchesHistory'
    BY <2>2, <2>4 DEF IInv, RowMatchesHistory
  <2>9. SteppedIsPast'
    BY <2>4, HistoryEntries DEF IInv, SteppedIsPast, HistoryEntry
  <2> QED
    BY <2>3, <2>5, <2>6, <2>7, <2>8, <2>9 DEF IInv
<1> QED
  BY <1>1, <1>2 DEF Update

\* Appending to the history.
LEMMA HistoryAppend ==
    ASSUME NEW h \in Seq(HistoryEntry), NEW e \in HistoryEntry
    PROVE  /\ Append(h, e) \in Seq(HistoryEntry)
           /\ Life!Current(Append(h, e)) = e.to
           /\ \A i \in DOMAIN Append(h, e) :
                 Append(h, e)[i] = e \/ (i \in DOMAIN h /\ Append(h, e)[i] = h[i])
<1>1. /\ Append(h, e) \in Seq(HistoryEntry) /\ Append(h, e) # <<>>
      /\ Len(Append(h, e)) = Len(h) + 1
      /\ \A i \in 1..Len(h) : Append(h, e)[i] = h[i]
      /\ Append(h, e)[Len(h) + 1] = e
  BY AppendProperties
<1>2. /\ DOMAIN h = 1..Len(h) /\ Len(h) \in Nat
      /\ DOMAIN Append(h, e) = 1..Len(Append(h, e))
  BY <1>1, LenProperties
<1>3. Life!Current(Append(h, e)) = e.to
  BY <1>1 DEF Life!Current
<1> QED
  BY <1>1, <1>2, <1>3

\* The steps that extend the history, a deletion and a committed transition.
LEMMA HistoryStep ==
    ASSUME IInv, NEW r \in Request, NEW to \in Status \cup {"deleted"},
           pc[r] \in {"write", "commit"}, ~row.deleted,
           history' = Append(history, [req |-> r, caller |-> CallerOf(r),
                                       from |-> row.status, to |-> to]),
           CallerOf(r) \in Caller,
           row' = IF to = "deleted" THEN [row EXCEPT !.deleted = TRUE]
                                    ELSE [row EXCEPT !.status = to],
           pc'[r] \in {"record", "done"},
           \A q \in Request \ {r} : pc'[q] = pc[q]
    PROVE  /\ row' \in Row /\ history' \in Seq(HistoryEntry)
           /\ RowMatchesHistory' /\ SteppedIsPast'
           /\ \A i \in DOMAIN history : history[i].req # r
<1> DEFINE e == [req |-> r, caller |-> CallerOf(r), from |-> row.status, to |-> to]
<1>1. row \in Row /\ history \in Seq(HistoryEntry) /\ e \in HistoryEntry
  BY DEF IInv, TypeOK, Row, HistoryEntry
<1> HIDE DEF e
<1>2. row' \in Row
  BY <1>1 DEF Row
<1>3. history' = Append(history, e) /\ e.to = to /\ e.req = r
  BY DEF e
<1>4. history' \in Seq(HistoryEntry) /\ RowMatchesHistory'
  <2>1. Life!Current(history') = to /\ history' \in Seq(HistoryEntry)
    BY <1>1, <1>3, HistoryAppend
  <2>2. to = IF row'.deleted THEN "deleted" ELSE row'.status
    BY <1>1 DEF Row, Status
  <2> QED
    BY <2>1, <2>2 DEF RowMatchesHistory, Life!Current
<1>5. \A i \in DOMAIN history : history[i].req # r
  BY DEF IInv, SteppedIsPast
<1>6. SteppedIsPast'
  <2> SUFFICES ASSUME NEW i \in DOMAIN history'
               PROVE  pc'[history'[i].req] \in {"record", "reply", "done"}
    BY DEF SteppedIsPast
  <2>1. CASE history'[i] = e
    BY <2>1, <1>3
  <2>2. CASE i \in DOMAIN history /\ history'[i] = history[i]
    <3>1. history[i].req \in Request \ {r}
      BY <2>2, <1>5, HistoryEntries DEF IInv, HistoryEntry
    <3> QED
      BY <3>1, <2>2 DEF IInv, SteppedIsPast
  <2> QED
    BY <2>1, <2>2, <1>1, <1>3, HistoryAppend
<1> QED
  BY <1>2, <1>4, <1>5, <1>6

\* A deletion: it finds the row and extends the history, or finds none.
LEMMA SoftDeleteStep ==
    ASSUME IInv, NEW r \in Request, pc[r] = "write", op[r].kind = "delete",
           RepoSoftDelete(r)
    PROVE  IInv'
<1>1. CASE row.deleted
  <2>1. outcome' \in [Request -> Outcome] /\ pc' = [pc EXCEPT ![r] = "done"]
    BY <1>1 DEF RepoSoftDelete, Finish, Outcome, IInv, TypeOK
  <2> QED
    BY <1>1, <2>1, MoveStep DEF RepoSoftDelete, Label, db, local
<1>2. CASE ~row.deleted
  <2> USE <1>2 DEF RepoSoftDelete, Finish, Wrote, local
  <2>1. /\ pc' = [pc EXCEPT ![r] = "done"] /\ lock = None
        /\ CallerOf(r) \in Caller
    BY DEF IInv, TypeOK, Operation, CallerOf, RowFree
  <2>2. /\ pc'[r] = "done"
        /\ \A q \in Request \ {r} : pc'[q] = pc[q]
    BY <2>1 DEF IInv, TypeOK
  <2>3. /\ row' \in Row /\ history' \in Seq(HistoryEntry)
        /\ RowMatchesHistory' /\ SteppedIsPast'
    BY <2>1, <2>2, HistoryStep
  <2>4. TypeOK'
    BY <2>1, <2>3 DEF IInv, TypeOK, Label, Outcome
  <2>5. RecorderOwes' /\ DeciderHoldsLock' /\ LockedRowIsStable'
    BY <2>1, <2>2 DEF IInv, RecorderOwes, DeciderHoldsLock, LockedRowIsStable
  <2>6. CommitIsPermitted' /\ DeleteIsByCreator'
    BY <2>2 DEF IInv, CommitIsPermitted, DeleteIsByCreator, ByCreator, CallerOf
  <2> QED
    BY <2>3, <2>4, <2>5, <2>6 DEF IInv
<1> QED
  BY <1>1, <1>2

\* A transition takes the lock, or finds no row.
LEMMA LockStep ==
    ASSUME IInv, NEW r \in Request, GetByIDForUpdate(r)
    PROVE  IInv'
<1>1. CASE row.deleted
  <2>1. outcome' \in [Request -> Outcome] /\ pc' = [pc EXCEPT ![r] = "done"]
    BY <1>1 DEF GetByIDForUpdate, Finish, Outcome, IInv, TypeOK
  <2> QED
    BY <1>1, <2>1, MoveStep DEF GetByIDForUpdate, Label, db
<1>2. CASE ~row.deleted
  <2> USE <1>2 DEF GetByIDForUpdate, Goto
  <2>1. /\ lock = None /\ lock' = r /\ row' = row
        /\ pc' = [pc EXCEPT ![r] = "decide"] /\ snap' = [snap EXCEPT ![r] = row]
    BY DEF RowFree
  <2>2. /\ pc'[r] = "decide" /\ snap'[r] = row
        /\ \A q \in Request \ {r} : pc'[q] = pc[q] /\ snap'[q] = snap[q]
    BY <2>1 DEF IInv, TypeOK
  <2>3. \A q \in Request : pc[q] \notin {"decide", "commit"}
    BY <2>1, ServiceAssumption DEF IInv, DeciderHoldsLock
  <2>4. TypeOK'
    BY <2>1 DEF IInv, TypeOK, Label
  <2>5. RecorderOwes' /\ DeciderHoldsLock' /\ LockedRowIsStable'
    BY <2>1, <2>2, <2>3 DEF IInv, RecorderOwes, DeciderHoldsLock, LockedRowIsStable
  <2>6. CommitIsPermitted' /\ DeleteIsByCreator'
    BY <2>2, <2>3 DEF IInv, CommitIsPermitted, DeleteIsByCreator, ByCreator, CallerOf
  <2>7. RowMatchesHistory'
    BY DEF IInv, RowMatchesHistory
  <2>8. SteppedIsPast'
    BY <2>2, HistoryEntries DEF IInv, SteppedIsPast, HistoryEntry
  <2> QED
    BY <2>4, <2>5, <2>6, <2>7, <2>8 DEF IInv
<1> QED
  BY <1>1, <1>2

\* A transaction ends without a change, by a decision or by a failure; a request
\* that is in no transaction leaves the lock to whoever holds it.
LEMMA ReleaseStep ==
    ASSUME IInv, NEW r \in Request, NEW label \in {"reply", "done"},
           pc' = [pc EXCEPT ![r] = label], outcome' \in [Request -> Outcome],
           pc[r] # "idle",
           \/ lock = r /\ lock' = None
           \/ lock # r /\ lock' = lock,
           UNCHANGED <<row, assignees, channels, activity, local, wrote, history>>
    PROVE  IInv'
<1> USE DEF local
<1>1. /\ pc'[r] = label
      /\ \A q \in Request \ {r} : pc'[q] = pc[q]
  BY DEF IInv, TypeOK
<1>2. \A q \in Request \ {r} : pc[q] \in {"decide", "commit"} => lock = q
  BY DEF IInv, DeciderHoldsLock
<1>3. TypeOK'
  <2>1. pc' \in [Request -> Label]
    BY DEF IInv, TypeOK, Label
  <2>2. \A q \in Request : pc'[q] # "idle" => op'[q].kind \in Kind
    <3>1. pc[r] # "idle" => op[r].kind \in Kind
      BY DEF IInv, TypeOK
    <3>2. pc[r] # "idle"
      OBVIOUS
    <3> QED
      BY <1>1, <3>1, <3>2 DEF IInv, TypeOK
  <2> QED
    BY <2>1, <2>2 DEF IInv, TypeOK
<1>4. RecorderOwes' /\ DeciderHoldsLock' /\ LockedRowIsStable'
  BY <1>1, <1>2, ServiceAssumption
  DEF IInv, RecorderOwes, DeciderHoldsLock, LockedRowIsStable
<1>5. CommitIsPermitted' /\ DeleteIsByCreator'
  BY <1>1 DEF IInv, CommitIsPermitted, DeleteIsByCreator, ByCreator, CallerOf
<1>6. RowMatchesHistory'
  BY DEF IInv, RowMatchesHistory
<1>7. SteppedIsPast'
  BY <1>1, HistoryEntries DEF IInv, SteppedIsPast, HistoryEntry
<1> QED
  BY <1>3, <1>4, <1>5, <1>6, <1>7 DEF IInv

\* The decision: the transaction ends, or goes on to commit a permitted step.
LEMMA DecideStep ==
    ASSUME IInv, NEW r \in Request, op[r].kind = "status", Decide(r)
    PROVE  IInv'
<1>1. lock = r /\ pc[r] = "decide"
  BY DEF Decide, IInv, DeciderHoldsLock
<1>2. ASSUME NEW o \in {"forbidden", "invalid"}, Release(r, Finish(r, o))
      PROVE  IInv'
  <2>1. outcome' \in [Request -> Outcome] /\ pc' = [pc EXCEPT ![r] = "done"]
    BY <1>2 DEF Release, Finish, Outcome, IInv, TypeOK
  <2> QED
    BY <1>1, <1>2, <2>1, ReleaseStep DEF Release
<1>3. CASE Release(r, Goto(r, "reply"))
  <2>1. outcome' \in [Request -> Outcome] /\ pc' = [pc EXCEPT ![r] = "reply"]
    BY <1>3 DEF Release, Goto, IInv, TypeOK
  <2> QED
    BY <1>1, <1>3, <2>1, ReleaseStep DEF Release
<1>4. CASE /\ Proceed(r, "commit")
           /\ ByCreator(r) \/ ~InvolvesArchived(r)
           /\ snap[r].status # op[r].target
           /\ ~(snap[r].status = "archived" /\ op[r].target = "done")
  <2> USE <1>4 DEF Proceed, Goto, db, local
  <2>1. /\ pc' = [pc EXCEPT ![r] = "commit"] /\ pc'[r] = "commit"
        /\ \A q \in Request \ {r} : pc'[q] = pc[q]
    BY DEF IInv, TypeOK
  <2>2. Life!Permitted(CallerOf(r), snap[r].status, op[r].target)
    <3>1. snap[r].status \in Status /\ op[r].target \in Status
      BY DEF IInv, TypeOK, Row, Operation
    <3>2. ByCreator(r) => Life!IsCreator(CallerOf(r))
      BY DEF Life!IsCreator, Life!UIDs, Life!Range, ByCreator, IsCreator, UIDs, Range
    <3> QED
      BY <3>1, <3>2 DEF Life!Permitted, InvolvesArchived, Status
  <2>3. TypeOK'
    BY <2>1, <1>1 DEF IInv, TypeOK, Label
  <2>4. RecorderOwes' /\ DeciderHoldsLock' /\ LockedRowIsStable'
    BY <2>1, <1>1 DEF IInv, RecorderOwes, DeciderHoldsLock, LockedRowIsStable
  <2>5. CommitIsPermitted' /\ DeleteIsByCreator'
    BY <2>1, <2>2 DEF IInv, CommitIsPermitted, DeleteIsByCreator, ByCreator, CallerOf
  <2>6. RowMatchesHistory'
    BY DEF IInv, RowMatchesHistory
  <2>7. SteppedIsPast'
    BY <1>1, <2>1, HistoryEntries DEF IInv, SteppedIsPast, HistoryEntry
  <2> QED
    BY <2>3, <2>4, <2>5, <2>6, <2>7 DEF IInv
<1> QED
  BY <1>2, <1>3, <1>4 DEF Decide

\* The commit: the history grows by the step the transaction decided on.
LEMMA UpdateStatusStep ==
    ASSUME IInv, NEW r \in Request, op[r].kind = "status", UpdateStatus(r)
    PROVE  IInv'
<1> USE DEF UpdateStatus, Goto, Owe, Wrote
<1>1. lock = r /\ ~row.deleted /\ snap[r].status = row.status
  BY ServiceAssumption DEF IInv, DeciderHoldsLock, LockedRowIsStable, TypeOK
<1>2. op[r].target \in Status /\ CallerOf(r) \in Caller /\ "deleted" \notin Status
  BY DEF IInv, TypeOK, Operation, CallerOf, Status
<1>3. /\ pc'[r] = "record" /\ todo'[r] # <<>>
      /\ \A q \in Request \ {r} : pc'[q] = pc[q] /\ todo'[q] = todo[q]
      /\ UNCHANGED <<op, snap>>
  BY DEF IInv, TypeOK
<1>4. /\ row' \in Row /\ history' \in Seq(HistoryEntry)
      /\ RowMatchesHistory' /\ SteppedIsPast'
  BY <1>1, <1>2, <1>3, HistoryStep
<1>5. Entry(r, "status_changed", snap[r].status, op[r].target) \in ActivityEntry
  BY <1>1, <1>2 DEF Entry, ActivityEntry, Action, Subject, IInv, TypeOK, Row
<1>6. TypeOK'
  BY <1>4, <1>5 DEF IInv, TypeOK, Label
<1>7. RecorderOwes' /\ DeciderHoldsLock' /\ LockedRowIsStable'
  BY <1>1, <1>3, ServiceAssumption
  DEF IInv, RecorderOwes, DeciderHoldsLock, LockedRowIsStable
<1>8. CommitIsPermitted' /\ DeleteIsByCreator'
  BY <1>3 DEF IInv, CommitIsPermitted, DeleteIsByCreator, ByCreator, CallerOf
<1> QED
  BY <1>4, <1>6, <1>7, <1>8 DEF IInv

\* A failure rolls the request's transaction back.
LEMMA FailStep ==
    ASSUME IInv, NEW r \in Request, Fail(r)
    PROVE  IInv'
<1>1. outcome' \in [Request -> Outcome] /\ pc' = [pc EXCEPT ![r] = "done"]
  BY DEF Fail, Finish, Outcome, IInv, TypeOK
<1> QED
  BY <1>1, ReleaseStep DEF Fail

\* A refusal, and a check that lets the request pass.
LEMMA GateStep ==
    ASSUME IInv, NEW r \in Request, pc[r] \in {"gate", "authz"},
           NEW label \in {"load", "write"},
           Forbid(r) \/ Proceed(r, label),
           op[r].kind # "delete"
    PROVE  IInv'
<1>1. CASE Forbid(r)
  <2>1. outcome' \in [Request -> Outcome] /\ pc' = [pc EXCEPT ![r] = "done"]
    BY <1>1 DEF Forbid, Finish, Outcome, IInv, TypeOK
  <2> QED
    BY <1>1, <2>1, MoveStep DEF Forbid, Label, local
<1>2. CASE Proceed(r, label)
  <2>1. outcome' \in [Request -> Outcome] /\ pc' = [pc EXCEPT ![r] = label]
    BY <1>2 DEF Proceed, Goto, IInv, TypeOK
  <2> QED
    BY <1>2, <2>1, MoveStep DEF Proceed, Label, local
<1> QED
  BY <1>1, <1>2
-----------------------------------------------------------------------------
(* The methods.                                                            *)

\* The load and the check of the methods open to assignees.
LEMMA MemberSteps ==
    ASSUME IInv, NEW r \in Request, op[r].kind # "delete",
           LoadForMember(r) \/ AuthorizeMember(r)
    PROVE  IInv'
<1>1. CASE LoadForMember(r)
  BY <1>1, LoadStep DEF LoadForMember
<1>2. CASE AuthorizeMember(r)
  BY <1>2, GateStep DEF AuthorizeMember
<1> QED
  BY <1>1, <1>2

\* The load and the check of the methods open to the creator.
LEMMA CreatorSteps ==
    ASSUME IInv, NEW r \in Request, NEW allowed \in BOOLEAN,
           op[r].kind = "delete" => (allowed => ByCreator(r)),
           LoadForCreator(r, allowed)
    PROVE  IInv'
<1>1. CASE allowed
  BY <1>1, LoadStep DEF LoadForCreator
<1>2. CASE ~allowed
  <2>1. pc[r] = "load" /\ GetByID(r, Finish(r, "forbidden"))
    BY <1>2 DEF LoadForCreator, GetByID
  <2> QED
    BY <2>1, LoadStep
<1> QED
  BY <1>1, <1>2

\* PUT /matters/:id keeps the invariant.
LEMMA UpdateMatterStep ==
    ASSUME IInv, NEW r \in Request, UpdateMatter(r)
    PROVE  IInv'
<1>1. ASSUME NEW c \in Caller, NEW e \in Edit,
             Arrive(r, [kind |-> "edit", caller |-> c, set |-> e], "load")
      PROVE  IInv'
  BY <1>1, ArriveStep DEF Operation
<1>2. CASE op[r].kind = "edit" /\ (LoadForMember(r) \/ AuthorizeMember(r))
  BY <1>2, MemberSteps
<1>3. CASE op[r].kind = "edit" /\ pc[r] = "write" /\ Update(r)
  BY <1>3, UpdateStep
<1>4. CASE /\ pc[r] = "write" /\ Finish(r, "invalid")
           /\ UNCHANGED <<db, activity, local, wrote, history>>
  <2>1. outcome' \in [Request -> Outcome] /\ pc' = [pc EXCEPT ![r] = "done"]
    BY <1>4 DEF Finish, Outcome, IInv, TypeOK
  <2> QED
    BY <1>4, <2>1, MoveStep DEF Label, local
<1> QED
  BY <1>1, <1>2, <1>3, <1>4 DEF UpdateMatter

\* POST /matters/:id/transition keeps the invariant.
LEMMA SetStatusStep ==
    ASSUME IInv, NEW r \in Request, SetStatus(r)
    PROVE  IInv'
<1>1. ASSUME NEW c \in Caller, NEW s \in Status,
             Arrive(r, [kind |-> "status", caller |-> c, target |-> s],
                    IF s = "archived" THEN "precheck" ELSE "lock")
      PROVE  IInv'
  BY <1>1, ArriveStep DEF Operation
<1>2. CASE PreCheck(r)
  <2>1. CASE ByCreator(r)
    BY <1>2, <2>1, LoadStep DEF PreCheck
  <2>2. CASE ~ByCreator(r)
    <3>1. pc[r] = "precheck" /\ GetByID(r, Finish(r, "forbidden"))
      BY <1>2, <2>2 DEF PreCheck, GetByID
    <3> QED
      BY <3>1, LoadStep
  <2> QED
    BY <2>1, <2>2
<1> QED
  BY <1>1, <1>2, LockStep, DecideStep, UpdateStatusStep, RecordActivityStep, ReplyStep
  DEF SetStatus

\* Adding and removing assignees keeps the invariant.
LEMMA AssigneeSteps ==
    ASSUME IInv, NEW r \in Request, AddAssignee(r) \/ RemoveAssignee(r)
    PROVE  IInv'
<1>1. ASSUME NEW c \in Caller, NEW u \in User,
             \/ Arrive(r, [kind |-> "add", caller |-> c, user |-> u], "load")
             \/ Arrive(r, [kind |-> "remove", caller |-> c, user |-> u], "load")
      PROVE  IInv'
  BY <1>1, ArriveStep DEF Operation
<1>2. CASE op[r].kind = "add" /\ (LoadForMember(r) \/ AuthorizeMember(r))
  BY <1>2, MemberSteps
<1>3. CASE /\ op[r].kind = "remove"
           /\ LoadForCreator(r, ByCreator(r) \/ op[r].user \in UIDs(CallerOf(r)))
  BY <1>3, CreatorSteps
<1>4. CASE op[r].kind \in {"add", "remove"} /\ pc[r] = "write" /\
           (AssigneeCreate(r, op[r].user) \/ AssigneeDelete(r, op[r].user))
  <2> DEFINE u == op[r].user
  <2>1. u \in User
    BY <1>4 DEF IInv, TypeOK, Operation
  <2>2. CASE Finish(r, "conflict") /\ UNCHANGED <<assignees, todo, wrote>>
    <3>1. outcome' \in [Request -> Outcome] /\ pc' = [pc EXCEPT ![r] = "done"]
      BY <2>2 DEF Finish, Outcome, IInv, TypeOK
    <3> QED
      BY <1>4, <2>2, <3>1, MoveStep DEF Label, db, AssigneeCreate, AssigneeDelete
  <2>3. CASE Finish(r, "not_found") /\ UNCHANGED <<assignees, todo, wrote>>
    <3>1. outcome' \in [Request -> Outcome] /\ pc' = [pc EXCEPT ![r] = "done"]
      BY <2>3 DEF Finish, Outcome, IInv, TypeOK
    <3> QED
      BY <1>4, <2>3, <3>1, MoveStep DEF Label, db, AssigneeCreate, AssigneeDelete
  <2>4. CASE /\ Wrote(r) /\ assignees' \subseteq User
             /\ \/ Record(r, <<Entry(r, "assignee_added", None, u)>>)
                \/ Record(r, <<Entry(r, "assignee_removed", u, None)>>)
    <3>1. /\ <<Entry(r, "assignee_added", None, u)>> \in Seq(ActivityEntry)
          /\ <<Entry(r, "assignee_removed", u, None)>> \in Seq(ActivityEntry)
      BY <2>1 DEF Entry, ActivityEntry, Action, Subject
    <3>2. /\ UNCHANGED <<row, lock, channels, activity, op, snap, history>>
          /\ wrote' \in [Request -> BOOLEAN] /\ channels' \subseteq Channel
      BY <1>4, <2>4 DEF AssigneeCreate, AssigneeDelete, Wrote, IInv, TypeOK
    <3> QED
      BY <1>4, <2>4, <3>1, <3>2, RecordStep
  <2>5. (assignees \cup {u}) \subseteq User /\ (assignees \ {u}) \subseteq User
    BY <2>1 DEF IInv, TypeOK
  <2> QED
    BY <1>4, <2>2, <2>3, <2>4, <2>5 DEF AssigneeCreate, AssigneeDelete
<1> QED
  BY <1>1, <1>2, <1>3, <1>4 DEF AddAssignee, RemoveAssignee

\* Linking and unlinking channels keeps the invariant.
LEMMA ChannelSteps ==
    ASSUME IInv, NEW r \in Request, LinkChannel(r) \/ UnlinkChannel(r)
    PROVE  IInv'
<1>1. ASSUME NEW c \in Caller, NEW ch \in Channel,
             \/ Arrive(r, [kind |-> "link", caller |-> c, channel |-> ch], "gate")
             \/ Arrive(r, [kind |-> "unlink", caller |-> c, channel |-> ch], "load")
      PROVE  IInv'
  BY <1>1, ArriveStep DEF Operation
<1>2. CASE op[r].kind = "link" /\ (LoadForMember(r) \/ AuthorizeMember(r))
  BY <1>2, MemberSteps
<1>3. CASE op[r].kind = "link" /\ ChannelGate(r)
  BY <1>3, GateStep DEF ChannelGate
<1>4. CASE op[r].kind = "unlink" /\ LoadForCreator(r, ByCreator(r))
  <2>1. ByCreator(r) \in BOOLEAN
    BY DEF ByCreator, IsCreator
  <2> QED
    BY <1>4, <2>1, CreatorSteps
<1>5. CASE op[r].kind \in {"link", "unlink"} /\ pc[r] = "write" /\
           (ChannelCreate(r, op[r].channel) \/ ChannelDelete(r, op[r].channel))
  <2> DEFINE c == op[r].channel
  <2>1. c \in Channel
    BY <1>5 DEF IInv, TypeOK, Operation
  <2>2. /\ <<Entry(r, "channel_linked", None, c)>> \in Seq(ActivityEntry)
        /\ <<Entry(r, "channel_unlinked", c, None)>> \in Seq(ActivityEntry)
    BY <2>1 DEF Entry, ActivityEntry, Action, Subject
  <2>3. /\ UNCHANGED <<row, lock, assignees, activity, op, snap, history>>
        /\ channels' \subseteq Channel /\ assignees' \subseteq User
    BY <1>5, <2>1 DEF ChannelCreate, ChannelDelete, IInv, TypeOK
  <2>5. wrote' \in [Request -> BOOLEAN]
    <3>1. /\ (c \in channels) \in BOOLEAN /\ (c \notin channels) \in BOOLEAN
          /\ wrote \in [Request -> BOOLEAN]
      BY DEF IInv, TypeOK
    <3>2. \A b \in BOOLEAN : [wrote EXCEPT ![r] = b] \in [Request -> BOOLEAN]
      BY <3>1
    <3>3. \/ wrote' = [wrote EXCEPT ![r] = c \notin channels]
          \/ wrote' = [wrote EXCEPT ![r] = c \in channels]
      BY <1>5 DEF ChannelCreate, ChannelDelete
    <3> QED
      BY <3>1, <3>2, <3>3, Zenon
  <2>4. \/ Record(r, <<Entry(r, "channel_linked", None, c)>>)
        \/ Record(r, <<Entry(r, "channel_unlinked", c, None)>>)
    BY <1>5 DEF ChannelCreate, ChannelDelete
  <2> QED
    BY <1>5, <2>2, <2>3, <2>4, <2>5, RecordStep
<1> QED
  BY <1>1, <1>2, <1>3, <1>4, <1>5 DEF LinkChannel, UnlinkChannel

\* Every step of the specification keeps the invariant.
LEMMA Inductive == IInv /\ [Next]_vars => IInv'
<1> SUFFICES ASSUME IInv, [Next]_vars PROVE IInv'
  OBVIOUS
<1>1. CASE UNCHANGED vars
  BY <1>1, Zenon DEF vars, db, local, IInv, TypeOK, RecorderOwes, DeciderHoldsLock,
     LockedRowIsStable, CommitIsPermitted, DeleteIsByCreator, RowMatchesHistory,
     SteppedIsPast, CallerOf, ByCreator
<1>2. ASSUME NEW r \in Request, SoftDelete(r) PROVE IInv'
  <2>1. ASSUME NEW c \in Caller, Arrive(r, [kind |-> "delete", caller |-> c], "load")
        PROVE  IInv'
    BY <2>1, ArriveStep DEF Operation
  <2>2. CASE op[r].kind = "delete" /\ LoadForCreator(r, ByCreator(r))
    <3>1. ByCreator(r) \in BOOLEAN
      BY DEF ByCreator, IsCreator
    <3> QED
      BY <2>2, <3>1, CreatorSteps
  <2> QED
    BY <1>2, <2>1, <2>2, SoftDeleteStep DEF SoftDelete
<1>3. ASSUME NEW r \in Request, RecordAndAnswer(r) PROVE IInv'
  BY <1>3, RecordActivityStep DEF RecordAndAnswer
<1> QED
  BY <1>1, <1>2, <1>3, UpdateMatterStep, SetStatusStep, AssigneeSteps, ChannelSteps,
     FailStep DEF Next, Serve, Quiet

\* The invariant holds in every reachable state.
THEOREM Invariant == Spec => []IInv
BY InitIInv, Inductive, PTL DEF Spec

\* The tables and the requests' local state keep their types.
THEOREM TypesAreKept == Spec => []TypeOK
<1>1. IInv => TypeOK
  BY DEF IInv
<1> QED
  BY <1>1, Invariant, PTL

\* Between SELECT ... FOR UPDATE and the commit of matter_svc.go's SetStatus, no
\* concurrent request changes the status decided on or deletes the row.
THEOREM LockProtectsRow == Spec => []LockedRowIsStable
<1>1. IInv => LockedRowIsStable
  BY DEF IInv
<1> QED
  BY <1>1, Invariant, PTL
-----------------------------------------------------------------------------
\* Besides the three statements that write the row, no step touches the row or
\* the history.
LEMMA WhoWritesTheRow ==
    ASSUME NEW r \in Request, Serve(r) \/ Fail(r) \/ Quiet
    PROVE  \/ UNCHANGED <<row, history>>
           \/ op[r].kind = "edit" /\ pc[r] = "write" /\ Update(r)
           \/ op[r].kind = "status" /\ UpdateStatus(r)
           \/ op[r].kind = "delete" /\ pc[r] = "write" /\ RepoSoftDelete(r)
<1> USE DEF db
<1>1. ASSUME NEW o, NEW label, Arrive(r, o, label) PROVE UNCHANGED <<row, history>>
  BY <1>1 DEF Arrive
<1>2. ASSUME NEW b, LoadForCreator(r, b) PROVE UNCHANGED <<row, history>>
  BY <1>2 DEF LoadForCreator, GetByID
<1>3. LoadForMember(r) \/ AuthorizeMember(r) \/ PreCheck(r) \/ Reply(r) \/ ChannelGate(r)
         => UNCHANGED <<row, history>>
  BY DEF LoadForMember, GetByID, AuthorizeMember, Proceed, Forbid, PreCheck, Reply,
     ChannelGate
<1>4. GetByIDForUpdate(r) \/ Decide(r) => UNCHANGED <<row, history>>
  BY DEF GetByIDForUpdate, Decide, Proceed, Release
<1>5. ASSUME RecordActivity(r, Finish(r, "ok")) \/ RecordActivity(r, Goto(r, "reply"))
      PROVE  UNCHANGED <<row, history>>
  BY <1>5 DEF RecordActivity
<1>6. ASSUME NEW x, \/ AssigneeCreate(r, x) \/ AssigneeDelete(r, x)
                    \/ ChannelCreate(r, x) \/ ChannelDelete(r, x)
      PROVE  UNCHANGED <<row, history>>
  BY <1>6 DEF AssigneeCreate, AssigneeDelete, ChannelCreate, ChannelDelete
<1>7. Fail(r) \/ Quiet => UNCHANGED <<row, history>>
  BY DEF Fail, Quiet, vars
<1>8. UpdateMatter(r) => \/ UNCHANGED <<row, history>>
                         \/ op[r].kind = "edit" /\ pc[r] = "write" /\ Update(r)
  BY <1>1, <1>3 DEF UpdateMatter
<1>9. SetStatus(r) => \/ UNCHANGED <<row, history>>
                      \/ op[r].kind = "status" /\ UpdateStatus(r)
  BY <1>1, <1>3, <1>4, <1>5 DEF SetStatus
<1>10. SoftDelete(r) => \/ UNCHANGED <<row, history>>
                        \/ op[r].kind = "delete" /\ pc[r] = "write" /\ RepoSoftDelete(r)
  BY <1>1, <1>2 DEF SoftDelete
<1>11. AddAssignee(r) \/ RemoveAssignee(r) => UNCHANGED <<row, history>>
  BY <1>1, <1>2, <1>3, <1>6 DEF AddAssignee, RemoveAssignee
<1>12. LinkChannel(r) \/ UnlinkChannel(r) => UNCHANGED <<row, history>>
  BY <1>1, <1>2, <1>3, <1>6 DEF LinkChannel, UnlinkChannel
<1>13. RecordAndAnswer(r) => UNCHANGED <<row, history>>
  BY <1>5 DEF RecordAndAnswer
<1> QED
  BY <1>7, <1>8, <1>9, <1>10, <1>11, <1>12, <1>13 DEF Serve

\* A transition commits only while it holds the lock, on the row it decided on.
LEMMA CommitHoldsLock ==
    ASSUME IInv, NEW r \in Request, UpdateStatus(r)
    PROVE  lock = r /\ ~row.deleted /\ snap[r].status = row.status
BY ServiceAssumption DEF UpdateStatus, IInv, DeciderHoldsLock, LockedRowIsStable, TypeOK

\* A statement that extends the history takes a step of the lifecycle.
LEMMA LifecycleStep ==
    ASSUME IInv, [Next]_vars
    PROVE  [Life!LifecycleNext]_history
<1>1. CASE UNCHANGED history
  BY <1>1
<1>2. ASSUME NEW r \in Request, NEW to \in Status \cup {"deleted"},
             pc[r] \in {"write", "commit"}, ~row.deleted, CallerOf(r) \in Caller,
             Life!Permitted(CallerOf(r), row.status, to),
             history' = Append(history, [req |-> r, caller |-> CallerOf(r),
                                         from |-> row.status, to |-> to])
      PROVE  Life!LifecycleNext
  <2>1. Life!Current(history) = row.status
    BY <1>2 DEF IInv, RowMatchesHistory
  <2>2. \A i \in DOMAIN history : history[i].req # r
    BY <1>2 DEF IInv, SteppedIsPast
  <2> QED
    BY <1>2, <2>1, <2>2 DEF Life!LifecycleNext, Life!Step, Life!Status, Status
<1>3. ASSUME NEW r \in Request, op[r].kind = "status", UpdateStatus(r)
      PROVE  Life!LifecycleNext
  <2>1. CallerOf(r) \in Caller /\ op[r].target \in Status
    BY <1>3 DEF IInv, TypeOK, Operation, CallerOf
  <2>2. ~row.deleted /\ Life!Permitted(CallerOf(r), row.status, op[r].target)
    BY <1>3, CommitHoldsLock DEF IInv, CommitIsPermitted, UpdateStatus
  <2> QED
    BY <1>2, <1>3, <2>1, <2>2 DEF UpdateStatus
<1>4. ASSUME NEW r \in Request, op[r].kind = "delete", pc[r] = "write", RepoSoftDelete(r),
             ~row.deleted
      PROVE  Life!LifecycleNext
  <2>1. CallerOf(r) \in Caller /\ row.status \in Status
    BY <1>4 DEF IInv, TypeOK, Operation, CallerOf, Row
  <2>2. Life!IsCreator(CallerOf(r))
    BY <1>4 DEF IInv, DeleteIsByCreator, ByCreator, IsCreator, UIDs, Range,
       Life!IsCreator, Life!UIDs, Life!Range
  <2>3. Life!Permitted(CallerOf(r), row.status, "deleted")
    BY <2>1, <2>2 DEF Life!Permitted, Status
  <2> QED
    BY <1>2, <1>4, <2>1, <2>3 DEF RepoSoftDelete
<1>5. ASSUME NEW r \in Request, Update(r) PROVE UNCHANGED history
  BY <1>5 DEF Update
<1>6. ASSUME NEW r \in Request, RepoSoftDelete(r), row.deleted PROVE UNCHANGED history
  BY <1>6 DEF RepoSoftDelete
<1>7. CASE Quiet \/ UNCHANGED vars
  BY <1>7 DEF Quiet, vars
<1> QED
  BY <1>1, <1>3, <1>4, <1>5, <1>6, <1>7, WhoWritesTheRow DEF Next

\* SetStatus and SoftDelete of matter_svc.go, as statements interleaved with every
\* other request, implement the atomic lifecycle.
THEOREM Refinement == Spec => ImplementsLifecycle
<1>1. Init => Life!LifecycleInit
  BY DEF Init, Life!LifecycleInit
<1>2. IInv /\ [Next]_vars => [Life!LifecycleNext]_history
  BY LifecycleStep
<1>3. Spec => Life!LifecycleInit /\ [][Life!LifecycleNext]_history
  BY <1>1, <1>2, Invariant, PTL DEF Spec
<1> QED
  BY <1>3 DEF ImplementsLifecycle, Life!LifecycleSpec

\* A step of the lifecycle keeps its history legal.
LEMMA LegalStep ==
    ASSUME IInv, Life!LegalLife, [Life!LifecycleNext]_history
    PROVE  Life!LegalLife'
<1>1. CASE UNCHANGED history
  BY <1>1 DEF Life!LegalLife
<1>2. ASSUME NEW r \in Request, NEW c \in Caller, NEW to \in Life!Status \cup {"deleted"},
             Life!Step(r, c, to)
      PROVE  Life!LegalLife'
  <2> DEFINE n == Len(history)
             e == [req |-> r, caller |-> c, from |-> Life!Current(history), to |-> to]
  <2>1. history \in Seq(HistoryEntry) /\ n \in Nat /\ DOMAIN history = 1..n
    BY LenProperties DEF IInv, TypeOK
  <2>2. /\ history' = Append(history, e) /\ Life!Permitted(c, Life!Current(history), to)
        /\ \A i \in 1..n : history[i].req # r
    BY <1>2, <2>1 DEF Life!Step
  <2>3. DOMAIN history' = 1..(n + 1) /\ history'[n + 1] = e
        /\ \A i \in 1..n : history'[i] = history[i]
    <3>1. Life!Current(history) \in Status
      BY <2>2 DEF IInv, TypeOK, RowMatchesHistory, Life!Permitted, Row
    <3>2. e \in HistoryEntry
      BY <2>2, <3>1 DEF HistoryEntry, Life!Status, Status
    <3> HIDE DEF e, n
    <3> DEFINE h == Append(history, e)
    <3>3. /\ h \in Seq(HistoryEntry) /\ Len(h) = Len(history) + 1
          /\ h[Len(history) + 1] = e /\ \A i \in 1..Len(history) : h[i] = history[i]
      BY <2>1, <3>2, AppendProperties
    <3>4. history' = h
      BY <2>2
    <3> HIDE DEF h
    <3>5. DOMAIN h = 1..(n + 1) /\ h[n + 1] = e /\ \A i \in 1..n : h[i] = history[i]
      BY <3>3, LenProperties DEF n
    <3> QED
      BY <3>4, <3>5
  <2> HIDE DEF e, n
  <2>4. Life!Current(history) = IF n = 0 THEN "open" ELSE history[n].to
    <3>1. history = <<>> <=> Len(history) = 0
      BY <2>1, EmptySeq
    <3> QED
      BY Zenon, <3>1 DEF Life!Current, n
  <2>5. e.req = r /\ e.caller = c /\ e.from = Life!Current(history) /\ e.to = to
    BY DEF e
  <2>6. ASSUME NEW i \in 1..(n + 1)
        PROVE  /\ history'[i].from = IF i = 1 THEN "open" ELSE history'[i - 1].to
               /\ Life!Permitted(history'[i].caller, history'[i].from, history'[i].to)
               /\ \A j \in 1..(n + 1) : history'[j].req = history'[i].req => j = i
    <3>1. CASE i \in 1..n
      <4>1. /\ history[i].from = IF i = 1 THEN "open" ELSE history[i - 1].to
            /\ Life!Permitted(history[i].caller, history[i].from, history[i].to)
            /\ \A j \in 1..n : history[j].req = history[i].req => j = i
        BY <2>1, <3>1 DEF Life!LegalLife
      <4>2. history'[i] = history[i] /\ (i # 1 => history'[i - 1] = history[i - 1])
        BY <2>1, <2>3, <3>1
      <4>3. history'[n + 1].req # history'[i].req
        BY <2>2, <2>3, <2>5, <3>1
      <4>4. \A j \in 1..(n + 1) : j \in 1..n \/ j = n + 1
        BY <2>1
      <4>5. \A j \in 1..(n + 1) : history'[j].req = history'[i].req => j = i
        BY <2>3, <4>1, <4>2, <4>3, <4>4
      <4> QED
        BY <4>1, <4>2, <4>5
    <3>2. CASE i = n + 1
      <4>1. history'[i].from = IF i = 1 THEN "open" ELSE history'[i - 1].to
        <5>1. CASE n = 0
          BY <2>3, <2>4, <2>5, <3>2, <5>1
        <5>2. CASE n # 0
          <6>1. n \in 1..n /\ i # 1 /\ i - 1 = n
            BY <2>1, <3>2, <5>2
          <6> QED
            BY <2>3, <2>4, <2>5, <3>2, <5>2, <6>1
        <5> QED
          BY <5>1, <5>2
      <4>2. Life!Permitted(history'[i].caller, history'[i].from, history'[i].to)
        BY <2>2, <2>3, <2>5, <3>2
      <4>3. \A j \in 1..(n + 1) : j # i => j \in 1..n
        BY <2>1, <3>2
      <4>4. \A j \in 1..(n + 1) : history'[j].req = history'[i].req => j = i
        BY <2>2, <2>3, <2>5, <3>2, <4>3
      <4> QED
        BY <4>1, <4>2, <4>4
    <3> QED
      BY <2>1, <3>1, <3>2
  <2> QED
    BY <2>3, <2>6 DEF Life!LegalLife
<1> QED
  BY <1>1, <1>2 DEF Life!LifecycleNext

\* Whatever SetStatus and SoftDelete were asked, and whichever of their statements came
\* between those of others, what has been committed is a legal life of the matter: the
\* rules held of the state that each step left, not of one that was read earlier.
THEOREM LivesAreLegal == Spec => []Life!LegalLife
<1>1. Init => Life!LegalLife
  BY DEF Init, Life!LegalLife
<1>2. IInv /\ Life!LegalLife /\ [Next]_vars => Life!LegalLife'
  BY LifecycleStep, LegalStep
<1> QED
  BY <1>1, <1>2, Invariant, PTL DEF Spec

\* No statement of matter_repo.go reaches a row that has been deleted, whenever the
\* request that runs it read the row.
THEOREM DeletedForGood == Spec => DeletedIsFrozen
<1>1. ASSUME IInv, [Next]_vars, row.deleted PROVE UNCHANGED row
  <2>1. ASSUME NEW r \in Request, Update(r) PROVE UNCHANGED row
    BY <1>1, <2>1 DEF Update
  <2>2. ASSUME NEW r \in Request, RepoSoftDelete(r) PROVE UNCHANGED row
    BY <1>1, <2>2 DEF RepoSoftDelete
  <2>3. ASSUME NEW r \in Request, UpdateStatus(r) PROVE FALSE
    BY <1>1, <2>3, CommitHoldsLock
  <2>4. CASE Quiet \/ UNCHANGED vars
    BY <2>4 DEF Quiet, vars, db
  <2> QED
    BY <1>1, <2>1, <2>2, <2>3, <2>4, WhoWritesTheRow DEF Next
<1>2. IInv /\ [Next]_vars => [row.deleted => row' = row]_row
  <2> SUFFICES ASSUME IInv, [Next]_vars PROVE row.deleted => row' = row
    OBVIOUS
  <2> QED
    BY <1>1
<1> QED
  BY <1>2, Invariant, PTL DEF Spec, DeletedIsFrozen
-----------------------------------------------------------------------------
(* The activities, the answers and the assignees: a second invariant on    *)
(* top of the first.                                                       *)

\* The labels of a request that has not changed anything yet.
Early == {"idle", "gate", "load", "authz", "write", "precheck", "lock", "decide", "commit"}

\* Such a request owes nothing and has recorded nothing.
EarlyIsClean == \A r \in Request : pc[r] \in Early =>
    /\ ~wrote[r] /\ todo[r] = <<>>
    /\ \A i \in DOMAIN activity : activity[i].req # r

\* What stands behind an activity, recorded or owed: the write of its request, and
\* for a status change the step itself.
Backed(e) ==
    /\ op[e.req].kind \notin {"link", "unlink"} => wrote[e.req]
    /\ e.action = "status_changed" =>
         /\ op[e.req].kind = "status"
         /\ \E k \in DOMAIN history : /\ history[k].req = e.req
                                      /\ history[k].from = e.from
                                      /\ history[k].to = e.to

RecordedIsBacked == \A i \in DOMAIN activity : Backed(activity[i])
OwedIsBacked == \A r \in Request : \A i \in DOMAIN todo[r] :
    todo[r][i].req = r /\ Backed(todo[r][i])

\* A transition owes one activity or has recorded it, never both.
OneReport == \A r \in Request : op[r].kind = "status" =>
    /\ Len(todo[r]) <= 1
    /\ todo[r] # <<>> => \A i \in DOMAIN activity : activity[i].req # r
    /\ \A i, j \in DOMAIN activity : activity[i].req = r /\ activity[j].req = r => i = j

\* A transition on its way to its answer left the matter at the target, and if it
\* is not there any more, somebody else moved it away.
TargetOrMoved == \A r \in Request :
    (op[r].kind = "status" /\ pc[r] \in {"record", "reply"} /\ ~row.deleted) =>
        \/ row.status = op[r].target
        \/ \E i \in DOMAIN history : history[i].req # r /\ history[i].from = op[r].target

\* An answer is the last thing of a request.
AnswerIsLast == \A r \in Request : outcome[r] # "none" => pc[r] = "done"

\* The requests of a kind that changed the assignment of u; only so many have come.
Writers(kind, u) == {r \in Request : wrote[r] /\ op[r].kind = kind /\ op[r].user = u}
FewWriters == IsFiniteSet({r \in Request : wrote[r]})

AInv == /\ EarlyIsClean /\ RecordedIsBacked /\ OwedIsBacked /\ OneReport
        /\ TargetOrMoved /\ AnswerIsLast /\ ReplyIsExplained /\ FewWriters /\ AssigneeAccounting
-----------------------------------------------------------------------------
(* What a step does to the audit trail and to the answers.                 *)

\* Every request but r stays as it is.
Elsewhere(r) == \A q \in Request \ {r} :
    /\ pc'[q] = pc[q] /\ op'[q] = op[q] /\ snap'[q] = snap[q]
    /\ todo'[q] = todo[q] /\ wrote'[q] = wrote[q] /\ outcome'[q] = outcome[q]

Arrives(r) ==
    /\ pc[r] = "idle" /\ pc'[r] \in Early
    /\ todo'[r] = todo[r] /\ wrote'[r] = wrote[r] /\ outcome'[r] = outcome[r]
    /\ UNCHANGED <<row, assignees, activity, history>>

\* A read, a refusal, a decision, an answer or a failure.
Moves(r) ==
    /\ pc[r] \notin {"idle", "done"} /\ pc'[r] \in Label \ {"record"}
    /\ pc[r] \in {"record", "reply"} => pc'[r] = "done"
    /\ pc'[r] = "reply" => pc[r] = "decide" /\ snap[r].status = op[r].target
    /\ \/ outcome'[r] = outcome[r]
       \/ /\ pc'[r] = "done"
          /\ outcome'[r] = "ok" /\ op[r].kind = "status" =>
                pc[r] = "reply" /\ ~row.deleted /\ snap'[r] = row
          /\ pc[r] \in {"record", "reply"} =>
                \/ outcome'[r] \in {"ok", "internal"}
                \/ outcome'[r] = "not_found" /\ row.deleted
    /\ op'[r] = op[r] /\ todo'[r] = todo[r] /\ wrote'[r] = wrote[r]
    /\ UNCHANGED <<row, assignees, activity, history>>

\* The assignees after a write of r.
AssigneesChange(r) ==
    CASE op[r].kind = "add"    -> /\ op[r].user \notin assignees
                                  /\ assignees' = assignees \cup {op[r].user}
      [] op[r].kind = "remove" -> /\ op[r].user \in assignees
                                  /\ assignees' = assignees \ {op[r].user}
      [] OTHER                 -> assignees' = assignees

\* A write that owes activities, or none if it changed nothing they tell of.
Writes(r) ==
    /\ pc[r] = "write" /\ pc'[r] \in {"record", "done"}
    /\ op[r].kind \notin {"none", "status", "delete"}
    /\ op[r].kind \notin {"link", "unlink"} => wrote'[r] = TRUE
    /\ \A i \in DOMAIN todo'[r] :
          todo'[r][i].req = r /\ todo'[r][i].action # "status_changed"
    /\ AssigneesChange(r)
    /\ pc'[r] = "record" => outcome'[r] = outcome[r]
    /\ op'[r] = op[r] /\ row'.status = row.status /\ row'.deleted = row.deleted
    /\ UNCHANGED <<activity, history>>

Deletes(r) ==
    /\ pc[r] = "write" /\ pc'[r] = "done" /\ op[r].kind = "delete"
    /\ row'.deleted /\ wrote'[r] = TRUE
    /\ history' = Append(history, [req |-> r, caller |-> CallerOf(r),
                                   from |-> row.status, to |-> "deleted"])
    /\ op'[r] = op[r] /\ todo'[r] = todo[r]
    /\ UNCHANGED <<activity, assignees>>

Commits(r) ==
    /\ pc[r] = "commit" /\ pc'[r] = "record" /\ op[r].kind = "status"
    /\ row'.status = op[r].target /\ wrote'[r] = TRUE
    /\ history' = Append(history, [req |-> r, caller |-> CallerOf(r),
                                   from |-> row.status, to |-> op[r].target])
    /\ todo'[r] = <<Entry(r, "status_changed", row.status, op[r].target)>>
    /\ op'[r] = op[r] /\ outcome'[r] = outcome[r]
    /\ UNCHANGED <<activity, assignees>>

Records(r) ==
    /\ pc[r] = "record" /\ pc'[r] \in {"record", "reply", "done"}
    /\ op[r].kind = "status" => pc'[r] # "done"
    /\ activity' = activity \/ activity' = Append(activity, Head(todo[r]))
    /\ todo'[r] = Tail(todo[r])
    /\ outcome'[r] = outcome[r] \/ pc'[r] = "done"
    /\ op'[r] = op[r] /\ wrote'[r] = wrote[r]
    /\ UNCHANGED <<row, assignees, history>>

Effect(r) == /\ Elsewhere(r)
             /\ \/ Arrives(r) \/ Moves(r) \/ Writes(r)
                \/ Deletes(r) \/ Commits(r) \/ Records(r)
-----------------------------------------------------------------------------
\* A request arrives.
LEMMA ArriveEffect ==
    ASSUME TypeOK, NEW r \in Request, NEW o, NEW label \in Early, Arrive(r, o, label)
    PROVE  Effect(r)
<1>1. Elsewhere(r)
  BY DEF Arrive, Goto, db, TypeOK, Elsewhere
<1>2. Arrives(r)
  BY DEF Arrive, Goto, db, TypeOK, Arrives
<1> QED
  BY <1>1, <1>2 DEF Effect

\* The reads, and what follows from them.
LEMMA LoadEffect ==
    ASSUME TypeOK, NEW r \in Request, NEW label \in {"write", "authz", "lock"},
           pc[r] \in {"load", "precheck"},
           \/ GetByID(r, Goto(r, label))
           \/ GetByID(r, Finish(r, "forbidden"))
    PROVE  Effect(r)
<1> USE DEF GetByID, Goto, Finish, db
<1>1. Elsewhere(r)
  BY DEF TypeOK, Elsewhere
<1>2. Moves(r)
  BY DEF TypeOK, Moves, Label
<1> QED
  BY <1>1, <1>2 DEF Effect

\* The checks.
LEMMA CheckEffect ==
    ASSUME TypeOK, NEW r \in Request, pc[r] \in {"gate", "authz", "write"},
           NEW label \in {"load", "write"},
           \/ Forbid(r) \/ Proceed(r, label)
           \/ /\ Finish(r, "invalid")
              /\ UNCHANGED <<db, activity, local, wrote, history>>
    PROVE  Effect(r)
<1> USE DEF Forbid, Proceed, Goto, Finish, db, local
<1>1. Elsewhere(r)
  BY DEF TypeOK, Elsewhere
<1>2. Moves(r)
  BY DEF TypeOK, Moves, Label
<1> QED
  BY <1>1, <1>2 DEF Effect

\* The transaction up to its commit, the answer to a transition, and a failure.
LEMMA TransactionEffect ==
    ASSUME TypeOK, NEW r \in Request,
           GetByIDForUpdate(r) \/ Decide(r) \/ Reply(r) \/ Fail(r)
    PROVE  Effect(r)
<1>1. CASE GetByIDForUpdate(r)
  <2> USE <1>1 DEF GetByIDForUpdate, Goto, Finish
  <2>1. Elsewhere(r)
    BY DEF TypeOK, Elsewhere
  <2>2. Moves(r)
    BY DEF TypeOK, Moves, Label
  <2> QED
    BY <2>1, <2>2 DEF Effect
<1>2. CASE Decide(r)
  <2> USE <1>2 DEF Decide, Release, Proceed, Goto, Finish, db, local
  <2>1. Elsewhere(r)
    BY DEF TypeOK, Elsewhere
  <2>2. Moves(r)
    BY DEF TypeOK, Moves, Label
  <2> QED
    BY <2>1, <2>2 DEF Effect
<1>3. CASE Reply(r)
  <2> USE <1>3 DEF Reply, GetByID, Finish, db
  <2>1. Elsewhere(r)
    BY DEF TypeOK, Elsewhere
  <2>2. Moves(r)
    BY DEF TypeOK, Moves, Label
  <2> QED
    BY <2>1, <2>2 DEF Effect
<1>4. CASE Fail(r)
  <2> USE <1>4 DEF Fail, Finish, local
  <2>1. Elsewhere(r)
    BY DEF TypeOK, Elsewhere
  <2>2. Moves(r)
    BY DEF TypeOK, Moves, Label
  <2> QED
    BY <2>1, <2>2 DEF Effect
<1> QED
  BY <1>1, <1>2, <1>3, <1>4

\* The activities of an edit are its own, and no status changes.
LEMMA EditOwes ==
    ASSUME TypeOK, NEW r \in Request, op[r].kind = "edit",
           NEW i \in DOMAIN EditEntries(r)
    PROVE  EditEntries(r)[i].req = r /\ EditEntries(r)[i].action # "status_changed"
<1> DEFINE Own == {e \in ActivityEntry : e.req = r /\ e.action # "status_changed"}
<1>1. op[r].set \in Edit /\ snap[r].fields \in [Field -> Value]
  BY DEF TypeOK, Operation, Row
<1>2. ASSUME NEW f \in Columns, NEW action \in Action \ {"status_changed"}, NEW from,
             f \in Field => from \in Subject
      PROVE  Deferred(r, f, action, from) \in Seq(Own)
  <2>1. CASE f \in DOMAIN op[r].set /\ op[r].set[f] # snap[r].fields[f]
    <3>1. f \in Field /\ op[r].set[f] \in Value
      BY <1>1, <2>1 DEF Edit
    <3>2. Entry(r, action, from, op[r].set[f]) \in Own
      BY <1>2, <3>1 DEF Entry, ActivityEntry, Subject
    <3> QED
      BY <2>1, <3>2 DEF Deferred
  <2>2. CASE ~(f \in DOMAIN op[r].set /\ op[r].set[f] # snap[r].fields[f])
    BY <2>2 DEF Deferred
  <2> QED
    BY <2>1, <2>2
<1>3. Deferred(r, "title", "title_changed", snap[r].fields["title"]) \in Seq(Own)
  BY <1>1, <1>2 DEF Columns, Action, Subject
<1>4. Deferred(r, "description", "description_changed", None) \in Seq(Own)
  BY <1>2 DEF Columns, Action, Subject
<1>5. Deferred(r, "deadline", "deadline_changed", snap[r].fields["deadline"]) \in Seq(Own)
  BY <1>1, <1>2 DEF Columns, Action, Subject
<1> HIDE DEF Own
<1>6. EditEntries(r) \in Seq(Own)
  BY <1>3, <1>4, <1>5, ConcatProperties, Zenon DEF EditEntries
<1>7. i \in 1..Len(EditEntries(r))
  BY <1>6, LenProperties
<1>8. EditEntries(r)[i] \in Own
  BY <1>6, <1>7, ElementOfSeq
<1> QED
  BY <1>8 DEF Own

\* An edit writes, or finds no row.
LEMMA UpdateEffect ==
    ASSUME TypeOK, NEW r \in Request, pc[r] = "write", op[r].kind = "edit", Update(r)
    PROVE  Effect(r)
<1> USE DEF Update, Goto, Finish
<1>1. Elsewhere(r)
  BY DEF TypeOK, Elsewhere, Record, Owe, Wrote
<1>2. CASE Finish(r, "not_found") /\ UNCHANGED <<row, todo, wrote>>
  BY <1>1, <1>2 DEF TypeOK, Moves, Label, Effect
<1>3. CASE /\ ~row.deleted /\ row' = [row EXCEPT !.fields = MergedFields(r)]
           /\ Wrote(r) /\ Record(r, EditEntries(r))
  <2> USE <1>3 DEF Record, Owe, Wrote
  <2>1. todo'[r] = EditEntries(r) /\ wrote'[r] = TRUE
    BY DEF TypeOK
  <2>2. /\ row'.status = row.status /\ row'.deleted = row.deleted
        /\ pc'[r] \in {"record", "done"}
        /\ pc'[r] = "record" => outcome'[r] = outcome[r]
    BY DEF TypeOK, Row
  <2>3. AssigneesChange(r)
    BY DEF AssigneesChange
  <2>4. Writes(r)
    BY <2>1, <2>2, <2>3, EditOwes DEF Writes
  <2> QED
    BY <1>1, <2>4 DEF Effect
<1> QED
  BY <1>2, <1>3

\* A change of the assignees, or a conflict.
LEMMA AssigneeEffect ==
    ASSUME TypeOK, NEW r \in Request, pc[r] = "write",
           \/ op[r].kind = "add" /\ AssigneeCreate(r, op[r].user)
           \/ op[r].kind = "remove" /\ AssigneeDelete(r, op[r].user)
    PROVE  Effect(r)
<1> DEFINE u == op[r].user
           added == Entry(r, "assignee_added", None, u)
           removed == Entry(r, "assignee_removed", u, None)
<1> USE DEF AssigneeCreate, AssigneeDelete, Goto, Finish
<1>1. Elsewhere(r)
  BY DEF TypeOK, Elsewhere, Record, Owe, Wrote
<1>2. CASE /\ Finish(r, "conflict") \/ Finish(r, "not_found")
           /\ UNCHANGED <<assignees, todo, wrote>>
  BY <1>1, <1>2 DEF TypeOK, Moves, Label, Effect
<1>3. CASE Wrote(r) /\ (Record(r, <<added>>) \/ Record(r, <<removed>>)) /\ AssigneesChange(r)
  <2>1. wrote'[r] = TRUE /\ todo'[r] \in {<<added>>, <<removed>>}
    BY <1>3 DEF TypeOK, Record, Owe, Wrote
  <2>2. \A i \in DOMAIN todo'[r] :
           todo'[r][i].req = r /\ todo'[r][i].action # "status_changed"
    BY <2>1 DEF Entry
  <2>3. pc'[r] = "record" /\ outcome'[r] = outcome[r]
    BY <1>3 DEF Record, TypeOK
  <2>4. Writes(r)
    BY <1>3, <2>1, <2>2, <2>3 DEF Writes
  <2> QED
    BY <1>1, <2>4 DEF Effect
<1> QED
  BY <1>2, <1>3 DEF AssigneesChange

\* A link or an unlink, which may find nothing to change.
LEMMA ChannelEffect ==
    ASSUME TypeOK, NEW r \in Request, pc[r] = "write", op[r].kind \in {"link", "unlink"},
           NEW c, ChannelCreate(r, c) \/ ChannelDelete(r, c)
    PROVE  Effect(r)
<1> USE DEF ChannelCreate, ChannelDelete, Goto, Finish
<1>1. Elsewhere(r)
  BY DEF TypeOK, Elsewhere, Record, Owe
<1>2. todo'[r] \in {<<Entry(r, "channel_linked", None, c)>>,
                    <<Entry(r, "channel_unlinked", c, None)>>}
  BY DEF TypeOK, Record, Owe
<1>3. \A i \in DOMAIN todo'[r] :
         todo'[r][i].req = r /\ todo'[r][i].action # "status_changed"
  BY <1>2 DEF Entry
<1>4. pc'[r] = "record" /\ outcome'[r] = outcome[r]
  BY DEF Record, TypeOK
<1>5. Writes(r)
  BY <1>3, <1>4 DEF Writes, AssigneesChange
<1> QED
  BY <1>1, <1>5 DEF Effect

\* A deletion.
LEMMA DeleteEffect ==
    ASSUME TypeOK, NEW r \in Request, pc[r] = "write", op[r].kind = "delete",
           RepoSoftDelete(r)
    PROVE  Effect(r)
<1> USE DEF RepoSoftDelete, Finish, Wrote, local
<1>1. Elsewhere(r)
  BY DEF TypeOK, Elsewhere
<1>2. CASE row.deleted
  BY <1>1, <1>2 DEF TypeOK, Moves, Label, Effect
<1>3. CASE ~row.deleted
  <2>1. row'.deleted
    BY <1>3 DEF TypeOK, Row
  <2> QED
    BY <1>1, <1>3, <2>1 DEF TypeOK, Deletes, Effect
<1> QED
  BY <1>2, <1>3

\* The commit of a transition, on the row it decided on.
LEMMA CommitEffect ==
    ASSUME IInv, NEW r \in Request, op[r].kind = "status", UpdateStatus(r)
    PROVE  Effect(r)
<1> USE DEF UpdateStatus, Goto, Owe, Wrote
<1>1. TypeOK /\ snap[r].status = row.status
  BY CommitHoldsLock DEF IInv
<1>2. Elsewhere(r)
  BY <1>1 DEF TypeOK, Elsewhere
<1>3. row'.status = op[r].target
  BY <1>1 DEF TypeOK, Row
<1>4. Commits(r)
  BY <1>1, <1>3 DEF Commits, TypeOK
<1> QED
  BY <1>2, <1>4 DEF Effect

\* An activity is recorded, or lost.
LEMMA RecordEffect ==
    ASSUME TypeOK, NEW r \in Request,
           \/ op[r].kind # "status" /\ RecordActivity(r, Finish(r, "ok"))
           \/ RecordActivity(r, Goto(r, "reply"))
    PROVE  Effect(r)
<1> USE DEF RecordActivity, Goto, Finish, Owe, db
<1>1. Elsewhere(r)
  BY DEF TypeOK, Elsewhere
<1>2. Records(r)
  BY DEF TypeOK, Records
<1> QED
  BY <1>1, <1>2 DEF Effect

\* So every step of a request is one of these.
LEMMA StepEffect ==
    ASSUME IInv, NEW r \in Request, Serve(r) \/ Fail(r)
    PROVE  Effect(r)
<1> USE DEF IInv
<1>1. ASSUME NEW o, NEW label \in {"load", "gate", "precheck", "lock"}, Arrive(r, o, label)
      PROVE  Effect(r)
  BY <1>1, ArriveEffect DEF Early
<1>2. CASE LoadForMember(r)
  BY <1>2, LoadEffect DEF LoadForMember
<1>3. CASE AuthorizeMember(r) \/ ChannelGate(r)
  BY <1>3, CheckEffect DEF AuthorizeMember, ChannelGate
<1>4. ASSUME NEW allowed, LoadForCreator(r, allowed) PROVE Effect(r)
  <2>1. \/ GetByID(r, Goto(r, "write"))
        \/ GetByID(r, Finish(r, "forbidden"))
    BY <1>4 DEF LoadForCreator, GetByID
  <2> QED
    BY <1>4, <2>1, LoadEffect DEF LoadForCreator
<1>5. CASE PreCheck(r)
  <2>1. \/ GetByID(r, Goto(r, "lock"))
        \/ GetByID(r, Finish(r, "forbidden"))
    BY <1>5 DEF PreCheck, GetByID
  <2> QED
    BY <1>5, <2>1, LoadEffect DEF PreCheck
<1>6. UpdateMatter(r) => Effect(r)
  BY <1>1, <1>2, <1>3, UpdateEffect, CheckEffect DEF UpdateMatter
<1>7. SetStatus(r) => Effect(r)
  <2>1. ASSUME NEW c \in Caller, NEW s \in Status,
               Arrive(r, [kind |-> "status", caller |-> c, target |-> s],
                      IF s = "archived" THEN "precheck" ELSE "lock")
        PROVE  Effect(r)
    BY <1>1, <2>1
  <2> QED
    BY <1>5, <2>1, TransactionEffect, CommitEffect, RecordEffect DEF SetStatus
<1>8. SoftDelete(r) => Effect(r)
  BY <1>1, <1>4, DeleteEffect DEF SoftDelete
<1>9. AddAssignee(r) \/ RemoveAssignee(r) => Effect(r)
  BY <1>1, <1>2, <1>3, <1>4, AssigneeEffect DEF AddAssignee, RemoveAssignee
<1>10. LinkChannel(r) \/ UnlinkChannel(r) => Effect(r)
  BY <1>1, <1>2, <1>3, <1>4, ChannelEffect DEF LinkChannel, UnlinkChannel
<1>11. RecordAndAnswer(r) => Effect(r)
  BY RecordEffect DEF RecordAndAnswer
<1> QED
  BY <1>6, <1>7, <1>8, <1>9, <1>10, <1>11, TransactionEffect DEF Serve
-----------------------------------------------------------------------------
(* What the steps leave of the audit trail's invariant.                    *)

\* The activities are typed, those recorded and those owed.
LEMMA ActivityEntries ==
    ASSUME TypeOK
    PROVE  /\ \A i \in DOMAIN activity : activity[i] \in ActivityEntry
           /\ \A r \in Request : \A i \in DOMAIN todo[r] : todo[r][i] \in ActivityEntry
<1>1. ASSUME NEW s \in Seq(ActivityEntry), NEW i \in DOMAIN s PROVE s[i] \in ActivityEntry
  <2>1. i \in 1..Len(s)
    BY LenProperties
  <2> QED
    BY <2>1, ElementOfSeq
<1> QED
  BY <1>1 DEF TypeOK

\* The history only grows.
LEMMA HistoryGrows ==
    ASSUME IInv, NEW r \in Request, Effect(r)
    PROVE  /\ \A k \in DOMAIN history : k \in DOMAIN history' /\ history'[k] = history[k]
           /\ Deletes(r) \/ Commits(r) =>
                /\ Len(history) + 1 \in DOMAIN history'
                /\ history'[Len(history) + 1].req = r
                /\ history'[Len(history) + 1].from = row.status
                /\ Commits(r) => history'[Len(history) + 1].to = op[r].target
<1>1. history \in Seq(HistoryEntry)
  BY DEF IInv, TypeOK
<1>2. ASSUME NEW e, history' = Append(history, e)
      PROVE  /\ \A k \in DOMAIN history : k \in DOMAIN history' /\ history'[k] = history[k]
             /\ Len(history) + 1 \in DOMAIN history' /\ history'[Len(history) + 1] = e
  BY <1>1, <1>2
<1>3. CASE Deletes(r)
  BY <1>2, <1>3 DEF Deletes, Commits
<1>4. CASE Commits(r)
  BY <1>2, <1>4 DEF Commits
<1>5. CASE ~Deletes(r) /\ ~Commits(r)
  BY <1>5 DEF Effect, Arrives, Moves, Writes, Records
<1> QED
  BY <1>3, <1>4, <1>5

\* What backs an activity of another request, or of a request past its write, stays.
LEMMA StaysBacked ==
    ASSUME IInv, NEW r \in Request, Effect(r), NEW e \in ActivityEntry, Backed(e),
           e.req = r => pc[r] \notin Early
    PROVE  Backed(e)'
<1>1. op'[e.req] = op[e.req] /\ wrote'[e.req] = wrote[e.req]
  <2>1. CASE e.req # r
    BY <2>1 DEF Effect, Elsewhere, ActivityEntry
  <2>2. CASE e.req = r
    BY <2>2 DEF Effect, Early, Arrives, Moves, Writes, Deletes, Commits, Records
  <2> QED
    BY <2>1, <2>2
<1> QED
  BY <1>1, HistoryGrows DEF Backed

\* The activity a recording step may add, and what it still owes.
LEMMA RecordedEntry ==
    ASSUME IInv, OwedIsBacked, NEW r \in Request, Records(r)
    PROVE  /\ Head(todo[r]) \in ActivityEntry /\ Head(todo[r]).req = r
           /\ Backed(Head(todo[r]))
           /\ \A i \in DOMAIN activity' :
                 \/ activity'[i] = Head(todo[r]) /\ i = Len(activity) + 1
                 \/ i \in DOMAIN activity /\ activity'[i] = activity[i]
           /\ Len(todo'[r]) = Len(todo[r]) - 1
           /\ \A i \in DOMAIN todo'[r] :
                 i + 1 \in DOMAIN todo[r] /\ todo'[r][i] = todo[r][i + 1]
<1>1. todo[r] \in Seq(ActivityEntry) /\ todo[r] # <<>> /\ activity \in Seq(ActivityEntry)
  BY DEF IInv, TypeOK, RecorderOwes, Records
<1>2. Head(todo[r]) = todo[r][1] /\ 1 \in DOMAIN todo[r]
  BY <1>1
<1>3. /\ Head(todo[r]) \in ActivityEntry /\ Head(todo[r]).req = r
      /\ Backed(Head(todo[r]))
  BY <1>2, ActivityEntries DEF OwedIsBacked, IInv
<1>4. activity' = activity \/ activity' = Append(activity, Head(todo[r]))
  BY DEF Records
<1>5. \A i \in DOMAIN activity' :
         \/ activity'[i] = Head(todo[r]) /\ i = Len(activity) + 1
         \/ i \in DOMAIN activity /\ activity'[i] = activity[i]
  BY <1>1, <1>4
<1>6. todo'[r] = Tail(todo[r])
  BY DEF Records
<1> QED
  BY <1>1, <1>3, <1>5, <1>6

\* Besides the recording steps no step adds an activity.
LEMMA WhoRecords ==
    ASSUME NEW r \in Request, Effect(r)
    PROVE  Records(r) \/ activity' = activity
BY DEF Effect, Arrives, Moves, Writes, Deletes, Commits

\* A request that is still early after a step was so before it, and has a clean
\* record unless it arrives.
LEMMA EarlyStep ==
    ASSUME IInv, AInv, NEW r \in Request, Effect(r)
    PROVE  EarlyIsClean'
<1> SUFFICES ASSUME NEW q \in Request, pc'[q] \in Early
             PROVE  /\ ~wrote'[q] /\ todo'[q] = <<>>
                    /\ \A i \in DOMAIN activity' : activity'[i].req # q
  BY DEF EarlyIsClean
<1>1. CASE q # r
  <2>1. pc[q] \in Early /\ todo'[q] = todo[q] /\ wrote'[q] = wrote[q]
    BY <1>1 DEF Effect, Elsewhere
  <2>2. \A i \in DOMAIN activity : activity[i].req # q
    BY <2>1 DEF AInv, EarlyIsClean
  <2>3. CASE Records(r)
    BY <1>1, <2>1, <2>2, <2>3, RecordedEntry DEF AInv, EarlyIsClean
  <2>4. CASE activity' = activity
    BY <2>1, <2>2, <2>4 DEF AInv, EarlyIsClean
  <2> QED
    BY <2>3, <2>4, WhoRecords
<1>2. CASE q = r
  <2>1. /\ Arrives(r) \/ Moves(r)
        /\ pc[r] \in Early
    BY <1>2 DEF Effect, Writes, Deletes, Commits, Records, Moves, Arrives, Early, IInv,
       TypeOK, Label
  <2>2. todo'[r] = todo[r] /\ wrote'[r] = wrote[r] /\ activity' = activity
    BY <2>1 DEF Arrives, Moves
  <2> QED
    BY <1>2, <2>1, <2>2 DEF AInv, EarlyIsClean
<1> QED
  BY <1>1, <1>2

\* Every activity recorded stays backed.
LEMMA RecordedStep ==
    ASSUME IInv, AInv, NEW r \in Request, Effect(r)
    PROVE  RecordedIsBacked'
<1> SUFFICES ASSUME NEW j \in DOMAIN activity' PROVE Backed(activity[j])'
  BY DEF RecordedIsBacked
<1>1. PICK e \in ActivityEntry :
        activity'[j] = e /\ Backed(e) /\ (e.req = r => pc[r] \notin Early)
  <2>1. CASE j \in DOMAIN activity /\ activity'[j] = activity[j]
    <3>1. activity[j] \in ActivityEntry /\ Backed(activity[j])
      BY <2>1, ActivityEntries DEF AInv, RecordedIsBacked, IInv
    <3>2. activity[j].req = r => pc[r] \notin Early
      BY <2>1 DEF AInv, EarlyIsClean
    <3> QED
      BY <2>1, <3>1, <3>2
  <2>2. CASE Records(r) /\ activity'[j] = Head(todo[r])
    <3>1. OwedIsBacked
      BY DEF AInv
    <3>2. pc[r] \notin Early
      BY <2>2 DEF Records, Early
    <3> QED
      BY <2>2, <3>1, <3>2, RecordedEntry
  <2> QED
    BY <2>1, <2>2, WhoRecords, RecordedEntry DEF AInv
<1>2. Backed(e)'
  BY <1>1, StaysBacked
<1> QED
  BY <1>1, <1>2 DEF Backed

\* Every activity owed is the request's own and stays backed.
LEMMA OwedStep ==
    ASSUME IInv, AInv, NEW r \in Request, Effect(r)
    PROVE  OwedIsBacked'
<1> SUFFICES ASSUME NEW q \in Request, NEW i \in DOMAIN todo'[q]
             PROVE  todo'[q][i].req = q /\ Backed(todo[q][i])'
  BY DEF OwedIsBacked
<1>1. ASSUME NEW e \in ActivityEntry, todo'[q][i] = e, e.req = q, Backed(e),
             q = r => pc[r] \notin Early
      PROVE  todo'[q][i].req = q /\ Backed(todo[q][i])'
  <2>1. Backed(e)'
    BY <1>1, StaysBacked
  <2> QED
    BY <1>1, <2>1 DEF Backed
<1>2. ASSUME todo'[q] = todo[q], q = r => pc[r] \notin Early
      PROVE  todo'[q][i].req = q /\ Backed(todo[q][i])'
  <2>1. /\ todo[q][i] \in ActivityEntry /\ todo[q][i].req = q
        /\ Backed(todo[q][i])
    BY <1>2, ActivityEntries DEF AInv, OwedIsBacked, IInv
  <2> QED
    BY <1>1, <1>2, <2>1
<1>3. CASE q # r
  BY <1>2, <1>3 DEF Effect, Elsewhere
<1>4. CASE q = r /\ (Arrives(r) \/ Moves(r) \/ Deletes(r))
  <2>1. todo'[r] = todo[r]
    BY <1>4 DEF Arrives, Moves, Deletes
  <2>2. CASE pc[r] \in Early
    <3>1. todo[r] = <<>>
      BY <2>2 DEF AInv, EarlyIsClean
    <3> QED
      BY <1>4, <2>1, <3>1
  <2> QED
    BY <1>2, <1>4, <2>1, <2>2
<1>5. CASE q = r /\ Writes(r)
  BY <1>5 DEF Writes, Backed
<1>6. CASE q = r /\ Commits(r)
  <2>1. i = 1 /\ todo'[q][i] = Entry(r, "status_changed", row.status, op[r].target)
    BY <1>6 DEF Commits
  <2>2. op'[r] = op[r] /\ op[r].kind = "status" /\ wrote'[r] = TRUE
    BY <1>6 DEF Commits
  <2> QED
    BY <1>6, <2>1, <2>2, HistoryGrows DEF Backed, Entry
<1>7. CASE q = r /\ Records(r)
  <2>1. i + 1 \in DOMAIN todo[r] /\ todo'[r][i] = todo[r][i + 1]
    BY <1>7, RecordedEntry DEF AInv
  <2>2. /\ todo[r][i + 1] \in ActivityEntry /\ todo[r][i + 1].req = r
        /\ Backed(todo[r][i + 1])
    BY <2>1, ActivityEntries DEF AInv, OwedIsBacked, IInv
  <2>3. pc[r] \notin Early
    BY <1>7 DEF Records, Early
  <2> QED
    BY <1>1, <1>7, <2>1, <2>2, <2>3
<1> QED
  BY <1>3, <1>4, <1>5, <1>6, <1>7 DEF Effect

\* A transition reports at most once.
LEMMA ReportStep ==
    ASSUME IInv, AInv, NEW r \in Request, Effect(r)
    PROVE  OneReport'
<1> SUFFICES ASSUME NEW q \in Request, op'[q].kind = "status"
             PROVE  /\ Len(todo'[q]) <= 1
                    /\ todo'[q] # <<>> => \A i \in DOMAIN activity' : activity'[i].req # q
                    /\ \A i, j \in DOMAIN activity' :
                         activity'[i].req = q /\ activity'[j].req = q => i = j
  BY DEF OneReport
<1>1. CASE q # r
  <2>1. op[q].kind = "status" /\ todo'[q] = todo[q]
    BY <1>1 DEF Effect, Elsewhere
  <2>2. \A i \in DOMAIN activity' :
           activity'[i].req = q => i \in DOMAIN activity /\ activity[i].req = q
    BY <1>1, WhoRecords, RecordedEntry DEF AInv
  <2> QED
    BY <2>1, <2>2 DEF AInv, OneReport
<1>2. CASE q = r /\ pc[r] \in Early
  <2>1. todo[r] = <<>> /\ \A i \in DOMAIN activity : activity[i].req # r
    BY <1>2 DEF AInv, EarlyIsClean
  <2>2. activity' = activity
    BY <1>2, WhoRecords DEF Records, Early
  <2>3. todo'[r] = todo[r] \/ \E e : todo'[r] = <<e>>
    BY <1>2 DEF Effect, Arrives, Moves, Writes, Deletes, Commits, Records, Early
  <2>4. Len(todo'[r]) <= 1
    <3>1. ASSUME NEW e, todo'[r] = <<e>> PROVE Len(todo'[r]) = 1
      BY <3>1
    <3>2. todo'[r] = todo[r] => Len(todo'[r]) = 0
      BY <2>1
    <3>3. Len(todo'[r]) \in {0, 1}
      BY <2>3, <3>1, <3>2, Zenon
    <3> DEFINE n == Len(todo'[r])
    <3> HIDE DEF n
    <3>4. n \in {0, 1} => n <= 1
      OBVIOUS
    <3> QED
      BY <3>3, <3>4 DEF n
  <2> QED
    BY <1>2, <2>1, <2>2, <2>4
<1>3. CASE q = r /\ Moves(r) /\ pc[r] \notin Early
  <2>1. op'[r] = op[r] /\ todo'[r] = todo[r] /\ activity' = activity
    BY <1>3 DEF Moves
  <2> QED
    BY <1>3, <2>1 DEF AInv, OneReport
<1>4. CASE q = r /\ Records(r)
  <2>1. op[r].kind = "status" /\ todo[r] # <<>>
    BY <1>4 DEF Records, IInv, RecorderOwes
  <2>2. Len(todo[r]) <= 1 /\ \A i \in DOMAIN activity : activity[i].req # r
    BY <2>1 DEF AInv, OneReport
  <2>3. todo[r] \in Seq(ActivityEntry) /\ todo'[r] = Tail(todo[r])
    BY <1>4 DEF Records, IInv, TypeOK
  <2>4. todo'[r] = <<>> /\ Len(todo'[r]) <= 1
    BY <2>1, <2>2, <2>3
  <2>5. \A i \in DOMAIN activity' : activity'[i].req = r => i = Len(activity) + 1
    BY <1>4, <2>2, RecordedEntry DEF AInv
  <2> QED
    BY <1>4, <2>4, <2>5
<1> QED
  BY <1>1, <1>2, <1>3, <1>4
  DEF Effect, Arrives, Moves, Writes, Deletes, Commits, Records, Early

\* A transition that has left the target behind has been followed by another one.
LEMMA TargetStep ==
    ASSUME IInv, AInv, NEW r \in Request, Effect(r)
    PROVE  TargetOrMoved'
<1> SUFFICES ASSUME NEW q \in Request, op'[q].kind = "status",
                    pc'[q] \in {"record", "reply"}, ~row'.deleted
             PROVE  \/ row'.status = op'[q].target
                    \/ \E i \in DOMAIN history' :
                          history'[i].req # q /\ history'[i].from = op'[q].target
  BY DEF TargetOrMoved
<1>1. ASSUME op'[q] = op[q], pc[q] \in {"record", "reply"},
             row'.status = row.status, row'.deleted = row.deleted
      PROVE  \/ row'.status = op'[q].target
             \/ \E i \in DOMAIN history' :
                   history'[i].req # q /\ history'[i].from = op'[q].target
  BY <1>1, HistoryGrows DEF AInv, TargetOrMoved
<1>2. CASE q # r
  <2>1. op'[q] = op[q] /\ pc[q] \in {"record", "reply"}
    BY <1>2 DEF Effect, Elsewhere
  <2>2. CASE Commits(r)
    <3>1. ~row.deleted
      BY <2>2, ServiceAssumption DEF Commits, IInv, DeciderHoldsLock, LockedRowIsStable
    <3>2. \/ row.status = op[q].target
          \/ \E i \in DOMAIN history :
                history[i].req # q /\ history[i].from = op[q].target
      BY <2>1, <3>1, <1>2 DEF AInv, TargetOrMoved, Effect, Elsewhere
    <3> QED
      BY <1>2, <2>1, <2>2, <3>2, HistoryGrows
  <2>3. ~Deletes(r)
    BY DEF Deletes
  <2> QED
    BY <1>1, <2>1, <2>2, <2>3 DEF Effect, Arrives, Moves, Writes, Records
<1>3. CASE q = r /\ Moves(r)
  <2>1. pc[r] = "decide" /\ snap[r].status = op[r].target /\ op'[r] = op[r] /\ row' = row
    BY <1>3, EmptySeq DEF Moves, Label
  <2>2. row.status = op[r].target
    BY <2>1, ServiceAssumption DEF IInv, DeciderHoldsLock, LockedRowIsStable
  <2> QED
    BY <1>3, <2>1, <2>2
<1>4. CASE q = r /\ Commits(r)
  BY <1>4 DEF Commits
<1>5. CASE q = r /\ Records(r)
  <2>1. op'[r] = op[r] /\ row' = row /\ pc[r] = "record"
    BY <1>5 DEF Records
  <2> QED
    BY <1>1, <1>5, <2>1
<1>6. q = r => ~Arrives(r) /\ ~Writes(r) /\ ~Deletes(r)
  BY DEF Arrives, Writes, Deletes, Early
<1> QED
  BY <1>2, <1>3, <1>4, <1>5, <1>6 DEF Effect

\* A request answers last.
LEMMA LastStep ==
    ASSUME IInv, AInv, NEW r \in Request, Effect(r)
    PROVE  AnswerIsLast'
<1> SUFFICES ASSUME NEW q \in Request, outcome'[q] # "none" PROVE pc'[q] = "done"
  BY DEF AnswerIsLast
<1>1. outcome[q] # "none" => pc[q] = "done"
  BY DEF AInv, AnswerIsLast
<1>2. CASE q # r
  BY <1>1, <1>2 DEF Effect, Elsewhere
<1>3. CASE q = r
  BY <1>1, <1>3 DEF Effect, Arrives, Moves, Writes, Deletes, Commits, Records
<1> QED
  BY <1>2, <1>3

\* The last entry of the history of a matter that is not deleted is where it is.
LEMMA LastIsCurrent ==
    ASSUME IInv, ~row.deleted, NEW i \in DOMAIN history
    PROVE  /\ Len(history) \in DOMAIN history /\ i <= Len(history)
           /\ history[Len(history)].to = row.status
<1>1. history \in Seq(HistoryEntry)
  BY DEF IInv, TypeOK
<1>2. i \in 1..Len(history) /\ history # <<>> /\ Len(history) \in DOMAIN history
  BY <1>1
<1> QED
  BY <1>1, <1>2 DEF IInv, RowMatchesHistory, Life!Current

\* The answer to a transition shows the target, or is explained by the history.
LEMMA SuccessStep ==
    ASSUME IInv, AInv, NEW r \in Request, Effect(r),
           NEW q \in Request, op'[q].kind = "status", outcome'[q] = "ok"
    PROVE  \/ snap'[q].status = op'[q].target
           \/ \E i, j \in DOMAIN history' :
                 /\ i <= j
                 /\ history'[i].req # q /\ history'[i].from = op'[q].target
                 /\ history'[j].to = snap'[q].status
<1>1. outcome[q] = "ok" => pc[q] = "done"
  BY DEF AInv, AnswerIsLast
<1>2. CASE q # r
  <2>1. op'[q] = op[q] /\ outcome[q] = "ok" /\ snap'[q] = snap[q]
    BY <1>2 DEF Effect, Elsewhere
  <2> QED
    BY <2>1, HistoryGrows DEF AInv, ReplyIsExplained
<1>3. CASE q = r
  <2>1. /\ Moves(r) /\ op'[r] = op[r] /\ history' = history
        /\ pc[r] = "reply" /\ ~row.deleted /\ snap'[r] = row
    BY <1>1, <1>3 DEF Effect, Arrives, Moves, Writes, Deletes, Commits, Records
  <2>2. \/ row.status = op[r].target
        \/ \E i \in DOMAIN history : history[i].req # r /\ history[i].from = op[r].target
    BY <1>3, <2>1 DEF AInv, TargetOrMoved
  <2> QED
    BY <1>3, <2>1, <2>2, LastIsCurrent
<1> QED
  BY <1>2, <1>3

\* A transition that has been committed is not refused afterwards.
LEMMA FailureStep ==
    ASSUME IInv, AInv, NEW r \in Request, Effect(r),
           NEW q \in Request, op'[q].kind = "status", wrote'[q], outcome'[q] # "none"
    PROVE  \/ outcome'[q] \in {"ok", "internal"}
           \/ outcome'[q] = "not_found" /\ row'.deleted
<1>1. row.deleted => row'.deleted
  <2>1. Commits(r) => ~row.deleted
    BY ServiceAssumption DEF Commits, IInv, DeciderHoldsLock, LockedRowIsStable
  <2> QED
    BY <2>1 DEF Effect, Arrives, Moves, Writes, Deletes, Records
<1>2. outcome[q] # "none" => pc[q] = "done"
  BY DEF AInv, AnswerIsLast
<1>3. CASE q # r
  <2>1. /\ op[q].kind = "status" /\ wrote[q]
        /\ outcome'[q] = outcome[q]
    BY <1>3 DEF Effect, Elsewhere
  <2> QED
    BY <1>1, <2>1 DEF AInv, ReplyIsExplained
<1>4. CASE q = r
  <2>1. CASE Moves(r)
    <3>1. wrote[r] /\ pc[r] \in {"record", "reply"}
      BY <1>4, <2>1 DEF Moves, AInv, EarlyIsClean, Early, IInv, TypeOK, Label
    <3> QED
      BY <1>1, <1>2, <1>4, <2>1, <3>1 DEF Moves
  <2>2. ~Arrives(r)
    BY <1>4 DEF Arrives, AInv, EarlyIsClean, Early
  <2>3. ~Records(r) /\ ~Commits(r)
    BY <1>2, <1>4 DEF Records, Commits
  <2>4. ~Writes(r) /\ ~Deletes(r)
    BY <1>4 DEF Writes, Deletes
  <2> QED
    BY <2>1, <2>2, <2>3, <2>4 DEF Effect
<1> QED
  BY <1>3, <1>4

\* So both halves stay.
LEMMA AnswerStep ==
    ASSUME IInv, AInv, NEW r \in Request, Effect(r)
    PROVE  ReplyIsExplained'
BY SuccessStep, FailureStep DEF ReplyIsExplained

-----------------------------------------------------------------------------
(* The accounts of the assignees.                                          *)

\* A set without an element that is added counts one more.
LEMMA OneMore ==
    ASSUME NEW S, IsFiniteSet(S), NEW x, x \notin S
    PROVE  /\ Cardinality(S) \in Nat
           /\ Cardinality(S \cup {x}) = Cardinality(S) + 1
BY FS_CardinalityType, FS_AddElement

\* The requests that have written are finitely many, and so are those of a kind.
LEMMA WritersAreFew ==
    ASSUME FewWriters, NEW kind, NEW u
    PROVE  IsFiniteSet(Writers(kind, u)) /\ Cardinality(Writers(kind, u)) \in Nat
<1>1. Writers(kind, u) \subseteq {q \in Request : wrote[q]}
  BY DEF Writers
<1> QED
  BY <1>1, FS_Subset, FS_CardinalityType DEF FewWriters

\* A step adds one writer at most.
LEMMA FewStep ==
    ASSUME FewWriters, NEW r \in Request, Effect(r)
    PROVE  FewWriters'
<1>1. {q \in Request : wrote'[q]} \subseteq {q \in Request : wrote[q]} \cup {r}
  BY DEF Effect, Elsewhere
<1>2. IsFiniteSet({q \in Request : wrote[q]} \cup {r})
  BY FS_AddElement DEF FewWriters
<1> QED
  BY <1>1, <1>2, FS_Subset DEF FewWriters

\* The writers after a step: the request is one more of its kind when it writes.
LEMMA WritersAfter ==
    ASSUME IInv, AInv, NEW r \in Request, Effect(r), NEW kind \in {"add", "remove"}, NEW u
    PROVE  IF Writes(r) /\ op[r].kind = kind /\ op[r].user = u
           THEN /\ r \notin Writers(kind, u)
                /\ Writers(kind, u)' = Writers(kind, u) \cup {r}
           ELSE Writers(kind, u)' = Writers(kind, u)
<1>1. \A q \in Request \ {r} : q \in Writers(kind, u)' <=> q \in Writers(kind, u)
  BY DEF Writers, Effect, Elsewhere
<1>2. CASE pc[r] \in Early
  <2>1. r \notin Writers(kind, u)
    BY <1>2 DEF Writers, AInv, EarlyIsClean
  <2>2. r \in Writers(kind, u)' <=> Writes(r) /\ op[r].kind = kind /\ op[r].user = u
    <3>1. CASE Writes(r)
      BY <3>1 DEF Writes, Writers
    <3>2. CASE ~Writes(r)
      BY <1>2, <3>2 DEF Effect, Arrives, Moves, Deletes, Commits, Records, Writers, Early,
         AInv, EarlyIsClean
    <3> QED
      BY <3>1, <3>2
  <2> QED
    BY <1>1, <2>1, <2>2 DEF Writers
<1>3. CASE pc[r] \notin Early
  <2>1. ~Writes(r) /\ op'[r] = op[r] /\ wrote'[r] = wrote[r]
    BY <1>3 DEF Effect, Arrives, Moves, Writes, Deletes, Commits, Records, Early
  <2> QED
    BY <1>1, <2>1 DEF Writers
<1> QED
  BY <1>2, <1>3

\* The accounts stay balanced.
LEMMA AccountStep ==
    ASSUME IInv, AInv, NEW r \in Request, Effect(r)
    PROVE  AssigneeAccounting'
<1> DEFINE present(u, s) == IF u \in s THEN 1 ELSE 0
           adds(u) == Cardinality(Writers("add", u))
           removes(u) == Cardinality(Writers("remove", u))
<1>1. ASSUME NEW u \in User
      PROVE  present(u, InitialAssignee) + adds(u) - removes(u) = present(u, assignees)
  BY DEF AInv, AssigneeAccounting, Writers
<1>2. ASSUME NEW u \in User
      PROVE  present(u, InitialAssignee) + adds(u)' - removes(u)' = present(u, assignees')
  <2>1. /\ adds(u) \in Nat /\ IsFiniteSet(Writers("add", u))
        /\ removes(u) \in Nat /\ IsFiniteSet(Writers("remove", u))
    BY WritersAreFew DEF AInv
  <2>2. CASE Writes(r) /\ op[r].kind = "add" /\ op[r].user = u
    <3>1. u \notin assignees /\ u \in assignees'
      BY <2>2 DEF Writes, AssigneesChange
    <3>2. adds(u)' = adds(u) + 1 /\ removes(u)' = removes(u)
      BY <2>1, <2>2, WritersAfter, OneMore
    <3> QED
      BY <1>1, <2>1, <3>1, <3>2
  <2>3. CASE Writes(r) /\ op[r].kind = "remove" /\ op[r].user = u
    <3>1. u \in assignees /\ u \notin assignees'
      BY <2>3 DEF Writes, AssigneesChange
    <3>2. removes(u)' = removes(u) + 1 /\ adds(u)' = adds(u)
      BY <2>1, <2>3, WritersAfter, OneMore
    <3> QED
      BY <1>1, <2>1, <3>1, <3>2
  <2>4. CASE ~(Writes(r) /\ op[r].kind \in {"add", "remove"} /\ op[r].user = u)
    <3>1. u \in assignees' <=> u \in assignees
      BY <2>4 DEF Effect, Arrives, Moves, Writes, Deletes, Commits, Records, AssigneesChange
    <3>2. adds(u)' = adds(u) /\ removes(u)' = removes(u)
      BY <2>4, WritersAfter
    <3> QED
      BY <1>1, <3>1, <3>2
  <2> QED
    BY <2>2, <2>3, <2>4
<1> QED
  BY <1>2 DEF AssigneeAccounting, Writers

\* Every step of the specification keeps the audit trail.
LEMMA AuditInductive == IInv /\ AInv /\ [Next]_vars => AInv'
<1> SUFFICES ASSUME IInv, AInv, [Next]_vars PROVE AInv'
  OBVIOUS
<1>1. ASSUME UNCHANGED vars PROVE AInv'
  BY <1>1 DEF vars, db, local, AInv, EarlyIsClean, RecordedIsBacked, OwedIsBacked, Backed,
     OneReport, TargetOrMoved, AnswerIsLast, ReplyIsExplained, FewWriters, AssigneeAccounting
<1>2. ASSUME NEW r \in Request, Effect(r) PROVE AInv'
  BY <1>2, EarlyStep, RecordedStep, OwedStep, ReportStep, TargetStep, LastStep, AnswerStep,
     FewStep, AccountStep, Zenon DEF AInv
<1> QED
  BY <1>1, <1>2, StepEffect DEF Next, Quiet

\* A matter that has just been created has nothing to account for.
LEMMA InitAInv == Init => AInv
<1> SUFFICES ASSUME Init PROVE AInv
  OBVIOUS
<1> USE DEF Init
<1>1. /\ \A r \in Request : /\ ~wrote[r] /\ todo[r] = <<>> /\ op[r].kind = "none"
                            /\ outcome[r] = "none"
      /\ activity = <<>> /\ assignees = InitialAssignee
  OBVIOUS
<1>2. DOMAIN activity = {} /\ \A r \in Request : DOMAIN todo[r] = {}
  BY <1>1
<1>3. FewWriters
  <2>1. {r \in Request : wrote[r]} = {}
    BY <1>1
  <2> QED
    BY <2>1, FS_EmptySet DEF FewWriters
<1>4. AssigneeAccounting
  <2>1. ASSUME NEW u, NEW kind PROVE Cardinality(Writers(kind, u)) = 0
    <3>1. Writers(kind, u) = {}
      BY <1>1 DEF Writers
    <3> QED
      BY <3>1, FS_EmptySet
  <2> DEFINE present(u, s) == IF u \in s THEN 1 ELSE 0
  <2>2. ASSUME NEW u \in User
        PROVE  present(u, InitialAssignee) + Cardinality(Writers("add", u))
                  - Cardinality(Writers("remove", u)) = present(u, assignees)
    BY <1>1, <2>1
  <2> QED
    BY <2>2 DEF AssigneeAccounting, Writers
<1> QED
  BY <1>1, <1>2, <1>3, <1>4 DEF AInv, EarlyIsClean, RecordedIsBacked, OwedIsBacked, OneReport,
     TargetOrMoved, AnswerIsLast, ReplyIsExplained

\* The audit trail's invariant holds in every reachable state.
THEOREM AuditInvariant == Spec => []AInv
BY InitAInv, AuditInductive, Invariant, PTL DEF Spec

\* matter_svc.go's SetStatus records after its transaction: each status_changed
\* activity still tells of a step that was committed, and no step is told twice.
THEOREM TrailIsTrue == Spec => []StatusTrail
<1>1. IInv /\ AInv => StatusTrail
  <2> SUFFICES ASSUME IInv, AInv PROVE StatusTrail
    OBVIOUS
  <2>1. ASSUME NEW i \in DOMAIN activity, activity[i].action = "status_changed"
        PROVE  /\ activity[i].req \in Request /\ op[activity[i].req].kind = "status"
               /\ \E k \in DOMAIN history : /\ history[k].req = activity[i].req
                                            /\ history[k].from = activity[i].from
                                            /\ history[k].to = activity[i].to
    BY <2>1, ActivityEntries DEF AInv, RecordedIsBacked, Backed, IInv, ActivityEntry
  <2> QED
    BY <2>1 DEF StatusTrail, AInv, OneReport
<1> QED
  BY <1>1, AuditInvariant, Invariant, PTL

\* The writes of matter_svc.go come before the activities that tell of them: what
\* failed, or lost a race, has left none.
THEOREM NothingIsMadeUp == Spec => []NoPhantomActivity
<1>1. AInv => NoPhantomActivity
  BY DEF AInv, RecordedIsBacked, Backed, NoPhantomActivity
<1> QED
  BY <1>1, AuditInvariant, PTL

\* SetStatus answers from a row it reads after its transaction: what the answer
\* shows is the target, or where somebody else took the matter from there;
\* a transition that was committed is not answered with a refusal.
THEOREM AnswersAreExplained == Spec => []ReplyIsExplained
<1>1. AInv => ReplyIsExplained
  BY DEF AInv
<1> QED
  BY <1>1, AuditInvariant, PTL

\* However AddAssignee and RemoveAssignee interleave, the successful ones explain
\* who is assigned.
THEOREM AssigneesAreAccounted == Spec => []AssigneeAccounting
<1>1. AInv => AssigneeAccounting
  BY DEF AInv
<1> QED
  BY <1>1, AuditInvariant, PTL
=============================================================================
