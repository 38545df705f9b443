-------------------------- MODULE NotifyWorkerProofs --------------------------
(***************************************************************************)
(* For any number of requests and workers and any buffer: no handler meets *)
(* the closed channel or the closed database, an orderly exit leaves no    *)
(* task behind, and the queue with its workers is a TaskPool.  The         *)
(* refinement rests on every task being in one place: the pool's tasks can *)
(* be counted by the length of the queue, and ending one leaves no copy.   *)
(***************************************************************************)
EXTENDS NotifyWorker, FiniteSetTheorems, SequenceTheorems, TLAPS

Leaving == {"close_db", "close_queue", "wait", "exited"}

Typed ==
    /\ handler \in [Request -> {"idle", "working", "committed", "answered"}]
    /\ result \in [Request -> Results]
    /\ DOMAIN busy = Worker
    /\ open \in BOOLEAN /\ db \in BOOLEAN

\* main is past srv.Shutdown, or has closed something, only when no handler is left;
\* while it serves nothing is closed.
ClosedAfterHandlers ==
    /\ (~open \/ ~db \/ main \in Leaving) => InFlight = {}
    /\ main = "serving" => open /\ db

\* Where tasks may be when the workers begin to return.
ReturnedIsDrained ==
    /\ \A w \in exited : w \in Worker /\ ~open /\ queue = <<>> /\ busy[w] = None
    /\ main = "exited" => exited = Worker

NInv == Typed /\ ClosedAfterHandlers /\ HandlersFinishFirst /\ ReturnedIsDrained
-----------------------------------------------------------------------------
\* The process starts with an open channel and an open database.
LEMMA InitNInv == Init => NInv
<1> SUFFICES ASSUME Init PROVE NInv
  OBVIOUS
<1>1. open /\ db /\ open \in BOOLEAN /\ db \in BOOLEAN
  BY Zenon DEF Init
<1> QED
  BY <1>1 DEF Init, NInv, Typed, Results, ClosedAfterHandlers, HandlersFinishFirst,
     ReturnedIsDrained, Leaving, InFlight

\* The handlers.
LEMMA HandlerStep ==
    ASSUME NInv, NEW r \in Request, Arrive(r) \/ Serve(r) \/ Submit(r)
    PROVE  NInv'
<1>1. open /\ db /\ main \notin Leaving
  <2>1. CASE Arrive(r)
    BY <2>1 DEF Arrive, NInv, ClosedAfterHandlers, Leaving
  <2>2. CASE Serve(r) \/ Submit(r)
    <3>1. r \in InFlight
      BY <2>2 DEF Serve, Submit, InFlight
    <3> QED
      BY <3>1 DEF NInv, ClosedAfterHandlers
  <2> QED
    BY <2>1, <2>2
<1>2. /\ UNCHANGED <<open, db, main, busy, exited>>
      /\ handler' \in [Request -> {"idle", "working", "committed", "answered"}]
  BY DEF Arrive, Serve, Submit, worker, NInv, Typed
<1>3. /\ result' \in [Request -> Results]
      /\ \A q \in Request : result'[q] # "send_on_closed"
  BY <1>1 DEF Arrive, Serve, Submit, Settle, Results, NInv, Typed, HandlersFinishFirst
<1>4. exited = {}
  BY <1>1 DEF NInv, ReturnedIsDrained
<1> QED
  BY <1>1, <1>2, <1>3, <1>4 DEF NInv, Typed, ClosedAfterHandlers, HandlersFinishFirst,
     ReturnedIsDrained, Leaving

\* The workers: a worker returns from a closed, empty channel, and is not seen again.
LEMMA WorkerStep ==
    ASSUME NInv, NEW w \in Worker, Take(w) \/ Read(w) \/ Post(w) \/ Return(w)
    PROVE  NInv'
<1>1. UNCHANGED <<handler, open, db, main>>
  BY DEF Take, Read, Post, Return
<1>2. CASE Return(w)
  <2>1. UNCHANGED <<queue, busy, result>> /\ exited' = exited \cup {w}
        /\ ~open /\ queue = <<>> /\ busy[w] = None
    BY <1>2 DEF Return
  <2>2. main = "exited" => exited' = Worker
    BY <2>1 DEF NInv, ReturnedIsDrained
  <2> QED
    BY <1>1, <2>1, <2>2 DEF NInv, Typed, ClosedAfterHandlers, HandlersFinishFirst,
       ReturnedIsDrained, InFlight
<1>3. CASE Take(w)
  <2>1. exited = {} /\ exited' = exited
    BY <1>3 DEF Take, NInv, ReturnedIsDrained
  <2>2. result' = result /\ DOMAIN busy' = Worker
    BY <1>3 DEF Take, NInv, Typed
  <2> QED
    BY <1>1, <2>1, <2>2 DEF NInv, Typed, ClosedAfterHandlers, HandlersFinishFirst,
       ReturnedIsDrained, InFlight
<1>4. CASE Read(w) \/ Post(w)
  <2>1. UNCHANGED <<queue, exited>> /\ w \notin exited
    BY <1>4 DEF Read, Post, NInv, ReturnedIsDrained
  <2>2. /\ DOMAIN busy' = Worker
        /\ \A v \in Worker \ {w} : busy'[v] = busy[v]
    BY <1>4 DEF Read, Post, End, NInv, Typed
  <2>3. PICK what \in Results \ {"send_on_closed"} :
          result' = result \/ result' = [result EXCEPT ![busy[w]] = what]
    BY <1>4 DEF Read, Post, End, Settle, Results
  <2>4. /\ result' \in [Request -> Results]
        /\ \A q \in Request : result'[q] # "send_on_closed"
    BY <2>3 DEF NInv, Typed, HandlersFinishFirst
  <2> QED
    BY <1>1, <2>1, <2>2, <2>4 DEF NInv, Typed, ClosedAfterHandlers, HandlersFinishFirst,
       ReturnedIsDrained, InFlight
<1> QED
  BY <1>2, <1>3, <1>4

\* main.
LEMMA MainStep ==
    ASSUME NInv, Signal \/ Shutdown \/ CloseDB \/ CloseQueue \/ Wait \/ Kill, Running
    PROVE  NInv'
<1>1. /\ UNCHANGED <<handler, queue, busy, exited, result>>
      /\ InFlight' = InFlight
  BY DEF Signal, Shutdown, CloseDB, CloseQueue, Wait, Kill, worker, InFlight
<1>2. open' \in BOOLEAN /\ db' \in BOOLEAN
  BY Zenon DEF NInv, Typed, Signal, Shutdown, CloseDB, CloseQueue, Wait, Kill
<1>3. ClosedAfterHandlers'
  BY <1>1 DEF NInv, ClosedAfterHandlers, Leaving, Running, Signal, Shutdown, CloseDB,
     CloseQueue, Wait, Kill
<1>4. ReturnedIsDrained'
  BY <1>1 DEF NInv, ReturnedIsDrained, Running, Signal, Shutdown, CloseDB, CloseQueue,
     Wait, Kill
<1> QED
  BY <1>1, <1>2, <1>3, <1>4 DEF NInv, Typed, HandlersFinishFirst, ClosedAfterHandlers

\* Every step keeps the invariant.
LEMMA InductiveNInv == NInv /\ [Next]_vars => NInv'
<1> SUFFICES ASSUME NInv, [Next]_vars PROVE NInv'
  OBVIOUS
<1>1. CASE UNCHANGED vars
  BY <1>1 DEF vars, worker, NInv, Typed, ClosedAfterHandlers, HandlersFinishFirst,
     ReturnedIsDrained, InFlight
<1> QED
  BY <1>1, HandlerStep, WorkerStep, MainStep DEF Next, Handle, Work, Leave

\* The invariant holds in every reachable state.
THEOREM WorkerInvariant == Spec => []NInv
BY InitNInv, InductiveNInv, PTL DEF Spec

\* main.go passes srv.Shutdown only when every handler is done, so worker.go's Submit
\* never sends on the channel that Shutdown closes.
THEOREM NoSendOnClosed == Spec => []HandlersFinishFirst
<1>1. NInv => HandlersFinishFirst
  BY DEF NInv
<1> QED
  BY <1>1, WorkerInvariant, PTL

\* When worker.go's Shutdown returns, no task is queued or running.
THEOREM NothingLeftBehind == Spec => []ExitDrains
<1>1. NInv => ExitDrains
  BY WorkerAssumption DEF NInv, ReturnedIsDrained, ExitDrains
<1> QED
  BY <1>1, WorkerInvariant, PTL
-----------------------------------------------------------------------------
(* The pool: where every task is.                                          *)

\* A task is in one place, the queue or one worker; there it has been handed over and
\* has no result, and until it is handed over it has none.
OnePlace ==
    /\ IsInjective(queue)
    /\ \A v, w \in Worker : busy[v] # None /\ busy[v] = busy[w] => v = w
    /\ Queued \cap Taken = {}
    /\ \A r \in Queued \cup Taken : handler[r] = "answered" /\ result[r] = "none"
    /\ \A r \in Request : handler[r] # "answered" => result[r] = "none"

PInv == TypeOK /\ OnePlace

\* The tasks of a queue without repetitions are as many as it is long.
LEMMA QueueCounts ==
    ASSUME NEW S, NEW q \in Seq(S), IsInjective(q)
    PROVE  IsFiniteSet(Range(q)) /\ Cardinality(Range(q)) = Len(q)
<1>1. Len(q) \in Nat /\ q \in [1..Len(q) -> S] /\ DOMAIN q = 1..Len(q)
  BY LenProperties
<1>2. q \in [1..Len(q) -> Range(q)]
  BY <1>1 DEF Range
<1>3. q \in Bijection(1..Len(q), Range(q))
  BY <1>1, <1>2 DEF Bijection, Injection, Surjection, Range, IsInjective
<1>4. ExistsBijection(1..Len(q), Range(q))
  BY <1>3 DEF ExistsBijection
<1> QED
  BY <1>1, <1>4, FS_NatBijection, FS_CountingElements

\* Append puts a task that is not in the queue behind the others.
LEMMA AppendRange ==
    ASSUME NEW S, NEW q \in Seq(S), NEW e \in S, IsInjective(q), e \notin Range(q)
    PROVE  Range(Append(q, e)) = Range(q) \cup {e} /\ IsInjective(Append(q, e))
<1> DEFINE p == Append(q, e)
<1>1. /\ Len(q) \in Nat /\ DOMAIN q = 1..Len(q) /\ DOMAIN p = 1..(Len(q) + 1)
      /\ \A i \in 1..Len(q) : p[i] = q[i]
      /\ p[Len(q) + 1] = e
  BY AppendProperties, LenProperties
<1> HIDE DEF p
<1>2. \A i \in 1..(Len(q) + 1) : i \in 1..Len(q) \/ i = Len(q) + 1
  BY <1>1
<1>3. Range(p) = Range(q) \cup {e}
  <2>1. Range(p) \subseteq Range(q) \cup {e}
    BY <1>1, <1>2 DEF Range
  <2>2. Len(q) + 1 \in DOMAIN p /\ \A i \in DOMAIN q : i \in DOMAIN p
    BY <1>1
  <2>3. Range(q) \cup {e} \subseteq Range(p)
    BY <1>1, <2>2 DEF Range
  <2> QED
    BY <2>1, <2>3
<1>4. IsInjective(p)
  BY <1>1, <1>2 DEF IsInjective, Range
<1> QED
  BY <1>3, <1>4 DEF p

\* Tail takes the first task out of the queue and leaves the others.
LEMMA TailRange ==
    ASSUME NEW S, NEW q \in Seq(S), q # <<>>, IsInjective(q)
    PROVE  /\ Range(Tail(q)) = Range(q) \ {Head(q)} /\ Head(q) \in Range(q)
           /\ IsInjective(Tail(q))
<1> DEFINE t == Tail(q)
           h == Head(q)
<1>1. /\ Len(q) \in Nat \ {0} /\ DOMAIN q = 1..Len(q)
      /\ h = q[1]
  BY LenProperties, EmptySeq
<1>2. /\ DOMAIN t = 1..(Len(q) - 1)
      /\ \A i \in 1..(Len(q) - 1) : t[i] = q[i + 1]
  BY <1>1, HeadTailProperties, LenProperties
<1> HIDE DEF t, h
<1>3. 1 \in DOMAIN q /\ \A i \in DOMAIN t : i + 1 \in DOMAIN q /\ i + 1 # 1
  BY <1>1, <1>2
<1>4. \A i \in DOMAIN q : i = 1 \/ (i - 1 \in DOMAIN t /\ t[i - 1] = q[i])
  BY <1>1, <1>2
<1>5. Range(t) \subseteq Range(q) \ {h}
  BY <1>1, <1>2, <1>3 DEF Range, IsInjective
<1>6. Range(q) \ {h} \subseteq Range(t)
  BY <1>1, <1>4 DEF Range
<1>7. IsInjective(t)
  <2> SUFFICES ASSUME NEW i \in DOMAIN t, NEW j \in DOMAIN t, t[i] = t[j] PROVE i = j
    BY DEF IsInjective
  <2>1. i + 1 = j + 1
    BY <1>2, <1>3 DEF IsInjective
  <2> QED
    BY <2>1, <1>2
<1> QED
  BY <1>1, <1>3, <1>5, <1>6, <1>7 DEF Range, t, h

\* There are no more running tasks than workers.
LEMMA TakenBound ==
    ASSUME TypeOK
    PROVE  IsFiniteSet(Taken) /\ Cardinality(Taken) <= Cardinality(Worker)
<1>1. busy \in Surjection(Worker, Range(busy)) /\ IsFiniteSet(Worker)
  BY WorkerAssumption DEF TypeOK, Surjection, Range
<1>2. IsFiniteSet(Range(busy)) /\ Cardinality(Range(busy)) <= Cardinality(Worker)
  BY <1>1, FS_Surjection
<1>3. Taken \in SUBSET Range(busy)
  BY DEF Taken
<1>4. IsFiniteSet(Taken) /\ Cardinality(Taken) <= Cardinality(Range(busy))
  BY <1>2, <1>3, FS_Subset
<1> QED
  BY <1>1, <1>2, <1>4, FS_CardinalityType

\* The process starts without tasks.
LEMMA InitPInv == Init => PInv /\ Pool!PoolInit
<1> SUFFICES ASSUME Init PROVE PInv /\ Pool!PoolInit
  OBVIOUS
<1>1. queue = <<>> /\ queue \in Seq(Request) /\ Len(queue) = 0 /\ DOMAIN queue = {}
  BY DEF Init
<1>2. Queued = {} /\ Taken = {}
  <2>1. Range(busy) \subseteq {None}
    BY DEF Init, Range
  <2> QED
    BY <1>1, <2>1 DEF Queued, Taken, Range
<1>3. TypeOK
  <2>1. open \in BOOLEAN /\ db \in BOOLEAN
    BY Zenon DEF Init
  <2>2. posting \in [Worker -> BOOLEAN]
    BY Zenon DEF Init
  <2> QED
    BY <1>1, <2>1, <2>2, WorkerAssumption DEF Init, TypeOK, Results
<1>4. OnePlace
  BY <1>1, <1>2 DEF Init, OnePlace, IsInjective
<1> QED
  BY <1>2, <1>3, <1>4 DEF PInv, Init, Pool!PoolInit

\* The variables of TaskPool.
Held    == Queued \cup Taken
Over    == {r \in Request : result[r] \notin {"none", "dropped", "send_on_closed"}}
Refused == {r \in Request : result[r] \in {"dropped", "send_on_closed"}}

PoolStep == [Pool!PoolNext]_<<Held, Over, Refused>>

\* TaskPool's operator is the standard one.
LEMMA SameCardinality == \A S : Pool!Cardinality(S) = Cardinality(S)
BY DEF Pool!Cardinality, Cardinality

\* A step that leaves the queue, the workers' tasks and the results alone stutters.
LEMMA ElsewherePool ==
    ASSUME UNCHANGED <<queue, busy, result>>
    PROVE  PoolStep /\ Queued' = Queued /\ Taken' = Taken
BY DEF PoolStep, Held, Over, Refused, Queued, Taken

\* A handler before its Submit has no task yet.
LEMMA HandlerPool ==
    ASSUME PInv, NEW r \in Request, Arrive(r) \/ Serve(r)
    PROVE  PInv' /\ PoolStep
<1>1. /\ UNCHANGED <<queue, open, busy, posting, exited, result, db, main>>
      /\ handler[r] \in {"idle", "working"}
      /\ handler' \in [Request -> {"idle", "working", "committed", "answered"}]
      /\ \A q \in Request \ {r} : handler'[q] = handler[q]
      /\ kind' \in [Request -> Kind \cup {None}]
  BY DEF Arrive, Serve, worker, PInv, TypeOK
<1>2. PoolStep /\ Queued' = Queued /\ Taken' = Taken
  BY <1>1, ElsewherePool
<1>3. TypeOK'
  BY <1>1 DEF PInv, TypeOK
<1>4. r \notin Queued \cup Taken /\ result[r] = "none"
  BY <1>1 DEF PInv, OnePlace
<1>5. Queued \cup Taken \subseteq Request
  BY RangeOfSeq DEF PInv, TypeOK, Queued, Taken, Range
<1>6. OnePlace'
  BY <1>1, <1>2, <1>4, <1>5 DEF PInv, OnePlace
<1> QED
  BY <1>2, <1>3, <1>6 DEF PInv

\* Submit hands the task over while the queue has room and refuses it otherwise.
LEMMA SubmitPool ==
    ASSUME NInv, PInv, NEW r \in Request, Submit(r)
    PROVE  PInv' /\ PoolStep
<1>1. /\ open /\ handler[r] = "committed" /\ handler'[r] = "answered"
      /\ \A q \in Request \ {r} : handler'[q] = handler[q]
      /\ handler' \in [Request -> {"idle", "working", "committed", "answered"}]
      /\ UNCHANGED <<kind, open, busy, posting, exited, db, main>>
      /\ Taken' = Taken
  <2>1. r \in InFlight
    BY DEF Submit, InFlight
  <2> QED
    BY <2>1 DEF Submit, worker, Taken, PInv, TypeOK, NInv, ClosedAfterHandlers
<1>2. r \notin Held /\ result[r] = "none" /\ r \in Pool!New
  <2>1. r \notin Held /\ result[r] = "none"
    BY <1>1 DEF PInv, OnePlace, Held
  <2> QED
    BY <2>1 DEF Pool!New, Held
<1>3. /\ IsFiniteSet(Queued) /\ Cardinality(Queued) = Len(queue)
      /\ IsFiniteSet(Taken) /\ Cardinality(Taken) <= Cardinality(Worker)
      /\ Len(queue) \in Nat /\ Buffer \in Nat /\ Cardinality(Worker) \in Nat
  BY QueueCounts, TakenBound, LenProperties, WorkerAssumption, FS_CardinalityType
     DEF PInv, OnePlace, TypeOK, Queued
<1>4. /\ IsFiniteSet(Held)
      /\ Cardinality(Held) <= Len(queue) + Cardinality(Worker)
      /\ Len(queue) <= Cardinality(Held)
  <2>1. /\ IsFiniteSet(Held)
        /\ Cardinality(Held) = Cardinality(Queued) + Cardinality(Taken)
                                 - Cardinality(Queued \cap Taken)
    BY <1>3, FS_Union DEF Held
  <2>2. Cardinality(Queued \cap Taken) \in Nat /\ Cardinality(Taken) \in Nat
    BY <1>3, FS_Intersection, FS_CardinalityType
  <2>3. Queued \in SUBSET Held
    BY DEF Held
  <2>4. Cardinality(Queued) <= Cardinality(Held)
    BY <2>1, <2>3, FS_Subset
  <2> QED
    BY <1>3, <2>1, <2>2, <2>4
<1>5. CASE Len(queue) < Buffer /\ queue' = Append(queue, r) /\ UNCHANGED result
  <2>1. Queued' = Queued \cup {r} /\ IsInjective(queue') /\ queue' \in Seq(Request)
        /\ Len(queue') = Len(queue) + 1
    BY <1>2, <1>5, AppendRange, AppendProperties DEF PInv, OnePlace, TypeOK, Queued, Held
  <2>2. Held' = Held \cup {r} /\ UNCHANGED <<Over, Refused>>
    BY <1>1, <1>5, <2>1 DEF Held, Over, Refused
  <2>3. Cardinality(Held) < Buffer + Cardinality(Worker)
    BY <1>3, <1>4, <1>5, FS_CardinalityType
  <2>4. Pool!Accept(r)
    BY <1>2, <2>2, <2>3, SameCardinality DEF Pool!Accept, Held, Over, Refused
  <2>5. TypeOK'
    BY <1>1, <1>3, <1>5, <2>1 DEF PInv, TypeOK
  <2>6. OnePlace'
    <3>1. Queued \cup Taken \subseteq Request
      BY RangeOfSeq DEF PInv, TypeOK, Queued, Taken, Range
    <3>2. (\A v, w \in Worker : busy[v] # None /\ busy[v] = busy[w] => v = w)'
      BY <1>1 DEF PInv, OnePlace
    <3>3. Queued' \cap Taken' = {}
      BY <1>1, <1>2, <2>1 DEF PInv, OnePlace, Held
    <3>4. (\A q \in Queued \cup Taken : handler[q] = "answered" /\ result[q] = "none")'
      BY <1>1, <1>2, <1>5, <2>1, <3>1 DEF PInv, OnePlace
    <3>5. (\A q \in Request : handler[q] # "answered" => result[q] = "none")'
      BY <1>1, <1>5 DEF PInv, OnePlace
    <3> QED
      BY <2>1, <3>2, <3>3, <3>4, <3>5 DEF OnePlace
  <2> QED
    BY <2>4, <2>5, <2>6 DEF PInv, PoolStep, Pool!PoolNext
<1>6. CASE Len(queue) = Buffer /\ Settle(r, "dropped") /\ UNCHANGED queue
  <2>1. /\ result' \in [Request -> Results] /\ result'[r] = "dropped"
        /\ \A q \in Request \ {r} : result'[q] = result[q]
    BY <1>6 DEF Settle, PInv, TypeOK, Results
  <2>2. Queued' = Queued
    BY <1>6 DEF Queued
  <2>3. Held' = Held /\ Over' = Over /\ Refused' = Refused \cup {r}
    BY <1>1, <1>2, <2>1, <2>2 DEF Held, Over, Refused
  <2>4. Pool!Refuse(r)
    <3>1. Cardinality(Held) >= Buffer
      BY <1>3, <1>4, <1>6, FS_CardinalityType
    <3> QED
      BY <1>2, <2>3, <3>1, SameCardinality DEF Pool!Refuse, Held, Over, Refused
  <2>5. TypeOK'
    BY <1>1, <1>6, <2>1 DEF PInv, TypeOK
  <2>6. Queued \cup Taken \subseteq Request
    BY RangeOfSeq DEF PInv, TypeOK, Queued, Taken, Range
  <2>7. OnePlace'
    BY <1>1, <1>2, <1>6, <2>1, <2>2, <2>6 DEF PInv, OnePlace, Held
  <2> QED
    BY <2>4, <2>5, <2>7 DEF PInv, PoolStep, Pool!PoolNext
<1> QED
  BY <1>1, <1>5, <1>6 DEF Submit

\* A worker that receives a task only moves it.
LEMMA TakePool ==
    ASSUME PInv, NEW w \in Worker, Take(w)
    PROVE  PInv' /\ PoolStep
<1> DEFINE h == Head(queue)
<1>1. /\ Queued' = Queued \ {h} /\ h \in Queued /\ IsInjective(queue')
      /\ queue' \in Seq(Request) /\ Len(queue') <= Buffer /\ h \in Request
  <2>1. queue \in Seq(Request) /\ queue # <<>> /\ IsInjective(queue) /\ queue' = Tail(queue)
        /\ Len(queue) \in Nat /\ Len(queue) <= Buffer /\ Buffer \in Nat
    BY LenProperties, WorkerAssumption DEF PInv, TypeOK, OnePlace, Take
  <2>2. /\ Range(Tail(queue)) = Range(queue) \ {h} /\ h \in Range(queue)
        /\ IsInjective(Tail(queue))
    BY <2>1, TailRange
  <2>3. h \in Request /\ Tail(queue) \in Seq(Request) /\ Len(Tail(queue)) = Len(queue) - 1
    BY <2>1, HeadTailProperties
  <2> QED
    BY <2>1, <2>2, <2>3 DEF Queued
<1>2. /\ busy[w] = None /\ busy'[w] = h /\ \A v \in Worker \ {w} : busy'[v] = busy[v]
      /\ busy' \in [Worker -> Request \cup {None}]
      /\ posting' \in [Worker -> BOOLEAN]
      /\ UNCHANGED <<handler, kind, open, exited, result, db, main>>
  BY <1>1 DEF Take, PInv, TypeOK
<1> HIDE DEF h
<1>3. h # None /\ h \notin Taken
  BY <1>1, WorkerAssumption DEF PInv, OnePlace
<1>4. Taken' = Taken \cup {h}
  BY <1>2, <1>3 DEF Taken, Range, PInv, TypeOK
<1>5. Held' = Held /\ UNCHANGED <<Over, Refused>>
  BY <1>1, <1>2, <1>4 DEF Held, Over, Refused
<1>6. TypeOK'
  BY <1>1, <1>2 DEF PInv, TypeOK
<1>7. OnePlace'
  <2>1. \A v \in Worker \ {w} : busy[v] # h
    BY <1>3 DEF Taken, Range, PInv, TypeOK
  <2> QED
    BY <1>1, <1>2, <1>4, <2>1 DEF PInv, OnePlace
<1> QED
  BY <1>5, <1>6, <1>7 DEF PInv, PoolStep

\* A task that ends is gone from its worker and has its result.
LEMMA EndPool ==
    ASSUME PInv, NEW w \in Worker, busy[w] # None,
           NEW what \in Results \ {"none", "dropped", "send_on_closed"}, End(w, what),
           UNCHANGED <<handler, kind, queue, open, exited, db, main>>
    PROVE  PInv' /\ PoolStep
<1>1. PICK t \in Request : t = busy[w]
  BY DEF PInv, TypeOK
<1>2. t \in Taken /\ t \notin Queued /\ result[t] = "none" /\ handler[t] = "answered"
  <2>1. t \in Taken
    BY <1>1 DEF Taken, Range, PInv, TypeOK
  <2> QED
    BY <2>1 DEF PInv, OnePlace
<1>3. /\ busy'[w] = None /\ \A v \in Worker \ {w} : busy'[v] = busy[v]
      /\ busy' \in [Worker -> Request \cup {None}] /\ posting' = posting
  BY DEF End, PInv, TypeOK
<1>4. /\ result' \in [Request -> Results] /\ result'[t] = what
      /\ \A q \in Request \ {t} : result'[q] = result[q]
  BY <1>1 DEF End, Settle, PInv, TypeOK
<1>5. \A v \in Worker \ {w} : busy[v] # t
  BY <1>1 DEF PInv, OnePlace
<1>6. Taken' = Taken \ {t}
  BY <1>1, <1>3, <1>5 DEF Taken, Range, PInv, TypeOK
<1>7. Queued' = Queued /\ IsInjective(queue')
  BY DEF Queued, PInv, OnePlace
<1>8. Held' = Held \ {t} /\ Over' = Over \cup {t} /\ Refused' = Refused /\ t \in Held
  BY <1>2, <1>4, <1>6, <1>7 DEF Held, Over, Refused
<1>9. Pool!Run(t)
  BY <1>8 DEF Pool!Run, Held, Over, Refused
<1>10. TypeOK'
  BY <1>3, <1>4 DEF PInv, TypeOK
<1>11. OnePlace'
  <2>1. Queued \cup Taken \subseteq Request
    BY RangeOfSeq DEF PInv, TypeOK, Queued, Taken, Range
  <2> QED
    BY <1>2, <1>3, <1>4, <1>6, <1>7, <2>1 DEF PInv, OnePlace
<1>12. Pool!PoolNext
  BY <1>9 DEF Pool!PoolNext
<1> QED
  BY <1>10, <1>11, <1>12 DEF PInv, PoolStep

\* The other steps of a worker and those of main do not move a task.
LEMMA IdlePool ==
    ASSUME PInv, UNCHANGED <<handler, kind, queue, busy, result>>,
           open' \in BOOLEAN, posting' \in [Worker -> BOOLEAN], exited' \subseteq Worker,
           db' \in BOOLEAN,
           main' \in {"serving", "shutdown", "close_db", "close_queue", "wait", "exited",
                      "killed"}
    PROVE  PInv' /\ PoolStep
<1>1. PoolStep /\ Queued' = Queued /\ Taken' = Taken
  BY ElsewherePool
<1>2. TypeOK'
  BY DEF PInv, TypeOK
<1>3. OnePlace'
  BY <1>1 DEF PInv, OnePlace
<1> QED
  BY <1>1, <1>2, <1>3 DEF PInv

\* The workers.
LEMMA WorkerPool ==
    ASSUME PInv, NEW w \in Worker, Take(w) \/ Read(w) \/ Post(w) \/ Return(w)
    PROVE  PInv' /\ PoolStep
<1>1. CASE Take(w)
  BY <1>1, TakePool
<1>2. CASE \E what \in {"read_failed", "db_closed", "sent", "post_failed", "panicked"} :
             End(w, what) /\ (Read(w) \/ Post(w))
  <2>1. busy[w] # None /\ UNCHANGED <<handler, kind, queue, open, exited, db, main>>
    BY <1>2 DEF Read, Post
  <2> QED
    BY <1>2, <2>1, EndPool DEF Results
<1>3. CASE Return(w) \/ (Read(w) /\ posting' = [posting EXCEPT ![w] = TRUE]
                               /\ UNCHANGED <<busy, result>>)
  <2>1. /\ UNCHANGED <<handler, kind, queue, open, busy, result, db, main>>
        /\ exited' \subseteq Worker
    BY <1>3 DEF Read, Return, PInv, TypeOK
  <2>2. posting' \in [Worker -> BOOLEAN]
    BY Zenon, <1>3 DEF Return, PInv, TypeOK
  <2>3. open' \in BOOLEAN /\ db' \in BOOLEAN
    BY Zenon, <2>1 DEF PInv, TypeOK
  <2> QED
    BY <2>1, <2>2, <2>3, IdlePool DEF PInv, TypeOK
<1> QED
  BY <1>1, <1>2, <1>3 DEF Read, Post

\* main.
LEMMA MainPool ==
    ASSUME PInv, Signal \/ Shutdown \/ CloseDB \/ CloseQueue \/ Wait \/ Kill
    PROVE  PInv' /\ PoolStep
<1>1. UNCHANGED <<handler, kind, queue, busy, posting, exited, result>>
  BY DEF Signal, Shutdown, CloseDB, CloseQueue, Wait, Kill, worker
<1>2. open' \in BOOLEAN /\ db' \in BOOLEAN
  BY Zenon DEF PInv, TypeOK, Signal, Shutdown, CloseDB, CloseQueue, Wait, Kill
<1>3. main' \in {"serving", "shutdown", "close_db", "close_queue", "wait", "exited",
                 "killed"}
  BY DEF Signal, Shutdown, CloseDB, CloseQueue, Wait, Kill
<1> QED
  BY <1>1, <1>2, <1>3, IdlePool DEF PInv, TypeOK

\* Every step keeps the tasks in their places and is a step of the pool.
LEMMA InductivePInv == NInv /\ PInv /\ [Next]_vars => PInv' /\ PoolStep
<1> SUFFICES ASSUME NInv, PInv, [Next]_vars PROVE PInv' /\ PoolStep
  OBVIOUS
<1>1. CASE UNCHANGED vars
  <2>1. UNCHANGED <<handler, kind, queue, open, busy, posting, exited, result, db, main>>
    BY <1>1 DEF vars, worker
  <2>2. open' \in BOOLEAN /\ db' \in BOOLEAN /\ posting' \in [Worker -> BOOLEAN]
    BY Zenon, <2>1 DEF PInv, TypeOK
  <2> QED
    BY <2>1, <2>2, IdlePool DEF PInv, TypeOK
<1>2. CASE Next
  <2>1. ASSUME NEW r \in Request, Arrive(r) \/ Serve(r) PROVE PInv' /\ PoolStep
    BY <2>1, HandlerPool
  <2>2. ASSUME NEW r \in Request, Submit(r) PROVE PInv' /\ PoolStep
    BY <2>2, SubmitPool
  <2> QED
    BY <1>2, <2>1, <2>2, WorkerPool, MainPool DEF Next, Handle, Work, Leave
<1> QED
  BY <1>1, <1>2

\* The tasks are in their places in every reachable state.
THEOREM TasksInPlace == Spec => []PInv
BY InitPInv, InductivePInv, WorkerInvariant, PTL DEF Spec

\* The types of the queue, the workers, the handlers and main: the channel never holds
\* more than its capacity.
THEOREM WorkerTypes == Spec => []TypeOK
<1>1. PInv => TypeOK
  BY DEF PInv
<1> QED
  BY <1>1, TasksInPlace, PTL

\* worker.go keeps the promise of the abstract pool: Submit takes a task or refuses it at
\* once, refuses it only when a buffer full of tasks waits, and no task is lost between
\* the queue and a worker or run twice, through the shutdown too.
THEOREM WorkerIsPool == Spec => ImplementsPool
<1>1. Init => Pool!PoolInit
  BY InitPInv
<1>2. NInv /\ PInv /\ [Next]_vars
        => [Pool!PoolNext]_<<Queued \cup Taken,
                             {r \in Request : result[r] \notin {"none", "dropped",
                                                                "send_on_closed"}},
                             {r \in Request : result[r] \in {"dropped", "send_on_closed"}}>>
  BY InductivePInv DEF PoolStep, Held, Over, Refused
<1>3. Spec => Pool!PoolSpec
  BY <1>1, <1>2, TasksInPlace, WorkerInvariant, PTL DEF Spec, Pool!PoolSpec
<1> QED
  BY <1>3 DEF ImplementsPool
=============================================================================
