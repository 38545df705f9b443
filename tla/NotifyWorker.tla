---------------------------- MODULE NotifyWorker ----------------------------
(***************************************************************************)
(* Notifications and the end of the process.  A handler whose mutation has *)
(* been committed submits a task to a bounded queue that a fixed number of *)
(* workers empty; the task reads the database and posts to the IM server.  *)
(* On a signal main waits for the handlers, closes the database, and its   *)
(* deferred calls close the queue and wait for the workers.                *)
(***************************************************************************)
EXTENDS Naturals, Sequences, FiniteSets, Functions

CONSTANTS
    Request,    \* requests that end in a notification, one task each
    Worker,     \* the worker goroutines
    Buffer,     \* the capacity of the queue
    Kind,       \* the events in play
    None

Events  == {"created", "status_changed", "assignee_added", "entry_added"}

\* The tasks of these events give up when the database fails them; a status
\* change goes on without its participants, a creation reads nothing.
NeedsDB == {"assignee_added", "entry_added"}

ASSUME WorkerAssumption ==
    /\ Buffer \in Nat \ {0}
    /\ IsFiniteSet(Worker) /\ Worker # {} /\ IsFiniteSet(Request)
    /\ Kind \subseteq Events
    /\ None \notin Request

VARIABLES
    handler,    \* where the handler of each request is
    kind,       \* the event each request ends in
    queue,      \* w.ch, the tasks in order
    open,       \* is the channel open?
    busy,       \* the task each worker runs, or None
    posting,    \* is that task past its database reads?
    exited,     \* the workers that have returned
    result,     \* what became of each task
    db,         \* is the connection pool open?
    main        \* where main is

worker == <<busy, posting, exited>>
vars   == <<handler, kind, queue, open, worker, result, db, main>>

InFlight == {r \in Request : handler[r] \in {"working", "committed"}}
Running  == main \notin {"exited", "killed"}

Settle(r, what) == result' = [result EXCEPT ![r] = what]
-----------------------------------------------------------------------------
(* The handlers.                                                           *)

\* The server accepts requests until its Shutdown is called.
Arrive(r) ==
    /\ handler[r] = "idle" /\ main = "serving"
    /\ handler' = [handler EXCEPT ![r] = "working"]
    /\ \E k \in Kind : kind' = [kind EXCEPT ![r] = k]
    /\ UNCHANGED <<queue, open, worker, result, db, main>>

\* The service method returns, with its mutation committed or with an error.
Serve(r) ==
    /\ handler[r] = "working"
    /\ \/ db /\ handler' = [handler EXCEPT ![r] = "committed"]
       \/ handler' = [handler EXCEPT ![r] = "answered"]
    /\ UNCHANGED <<kind, queue, open, worker, result, db, main>>

\* Mutant: refuse the task while the last slot is still free.
SubmitShort(r) ==
    /\ handler[r] = "committed"
    /\ handler' = [handler EXCEPT ![r] = "answered"]
    /\ IF Len(queue) < Buffer - 1
       THEN queue' = Append(queue, r) /\ UNCHANGED result
       ELSE Settle(r, "dropped") /\ UNCHANGED queue
    /\ UNCHANGED <<kind, open, worker, db, main>>

\* A send that never blocks; on a closed channel it panics.
Submit(r) ==
    /\ handler[r] = "committed"
    /\ handler' = [handler EXCEPT ![r] = "answered"]
    /\ \/ /\ ~open
          /\ Settle(r, "send_on_closed")
          /\ UNCHANGED queue
       \/ /\ open /\ Len(queue) < Buffer
          /\ queue' = Append(queue, r)
          /\ UNCHANGED result
       \/ /\ open /\ Len(queue) = Buffer
          /\ Settle(r, "dropped")
          /\ UNCHANGED queue
    /\ UNCHANGED <<kind, open, worker, db, main>>
-----------------------------------------------------------------------------
(* The workers.                                                            *)

\* A worker receives the next task, from a closed channel too.
Take(w) ==
    /\ busy[w] = None /\ w \notin exited /\ queue # <<>>
    /\ busy' = [busy EXCEPT ![w] = Head(queue)]
    /\ posting' = [posting EXCEPT ![w] = FALSE]
    /\ queue' = Tail(queue)
    /\ UNCHANGED <<handler, kind, open, exited, result, db, main>>

\* The task is over, whatever its end.
End(w, what) ==
    /\ Settle(busy[w], what)
    /\ busy' = [busy EXCEPT ![w] = None]
    /\ UNCHANGED posting

\* The task's database reads.  A panic is recovered and ends the task.
Read(w) ==
    /\ busy[w] # None /\ ~posting[w]
    /\ \/ /\ db \/ kind[busy[w]] \notin NeedsDB
          /\ posting' = [posting EXCEPT ![w] = TRUE]
          /\ UNCHANGED <<busy, result>>
       \/ /\ kind[busy[w]] \in NeedsDB
          /\ End(w, IF db THEN "read_failed" ELSE "db_closed")
       \/ End(w, "panicked")
    /\ UNCHANGED <<handler, kind, queue, open, exited, db, main>>

\* The POST, which is not repeated when it fails.
Post(w) ==
    /\ busy[w] # None /\ posting[w]
    /\ \E what \in {"sent", "post_failed", "panicked"} : End(w, what)
    /\ UNCHANGED <<handler, kind, queue, open, exited, db, main>>

\* Mutant: a closed channel ends the worker although tasks are queued.
ReturnAtOnce(w) ==
    /\ busy[w] = None /\ w \notin exited /\ ~open
    /\ exited' = exited \cup {w}
    /\ UNCHANGED <<handler, kind, queue, open, busy, posting, result, db, main>>

\* The range over the channel ends when it is closed and empty.
Return(w) ==
    /\ busy[w] = None /\ w \notin exited /\ ~open /\ queue = <<>>
    /\ exited' = exited \cup {w}
    /\ UNCHANGED <<handler, kind, queue, open, busy, posting, result, db, main>>
-----------------------------------------------------------------------------
(* main.                                                                   *)

Signal ==
    /\ main = "serving"
    /\ main' = "shutdown"
    /\ UNCHANGED <<handler, kind, queue, open, worker, result, db>>

\* Mutant: an error of Shutdown is logged and main goes on.
ShutdownIgnoringTimeout ==
    /\ main = "shutdown"
    /\ main' = "close_db"
    /\ UNCHANGED <<handler, kind, queue, open, worker, result, db>>

\* srv.Shutdown waits for the handlers; after 10s main gives up and dies.
Shutdown ==
    /\ main = "shutdown"
    /\ \/ InFlight = {} /\ main' = "close_db"
       \/ InFlight # {} /\ main' = "killed"
    /\ UNCHANGED <<handler, kind, queue, open, worker, result, db>>

CloseDB ==
    /\ main = "close_db"
    /\ db' = FALSE
    /\ main' = "close_queue"
    /\ UNCHANGED <<handler, kind, queue, open, worker, result>>

\* Mutant: Shutdown of the worker does not close the channel.
WaitOnly ==
    /\ main = "close_queue"
    /\ main' = "wait"
    /\ UNCHANGED <<handler, kind, queue, open, worker, result, db>>

CloseQueue ==
    /\ main = "close_queue"
    /\ open' = FALSE
    /\ main' = "wait"
    /\ UNCHANGED <<handler, kind, queue, worker, result, db>>

Wait ==
    /\ main = "wait"
    /\ exited = Worker
    /\ main' = "exited"
    /\ UNCHANGED <<handler, kind, queue, open, worker, result, db>>

\* The process is killed, or the listener fails.
Kill ==
    /\ main' = "killed"
    /\ UNCHANGED <<handler, kind, queue, open, worker, result, db>>

Init ==
    /\ handler = [r \in Request |-> "idle"]
    /\ kind = [r \in Request |-> None]
    /\ queue = <<>>
    /\ open = TRUE
    /\ busy = [w \in Worker |-> None]
    /\ posting = [w \in Worker |-> FALSE]
    /\ exited = {}
    /\ result = [r \in Request |-> "none"]
    /\ db = TRUE
    /\ main = "serving"

Work(w)   == Running /\ (Take(w) \/ Read(w) \/ Post(w) \/ Return(w))
Handle(r) == Running /\ (Serve(r) \/ Submit(r))
Leave     == Running /\ (Shutdown \/ CloseDB \/ CloseQueue \/ Wait)

Next ==
    \/ \E r \in Request : Arrive(r) \/ Handle(r)
    \/ \E w \in Worker : Work(w)
    \/ Leave
    \/ Running /\ (Signal \/ Kill)

Spec == Init /\ [][Next]_vars

\* The scheduler runs every goroutine; the reads and the POST come back, with an
\* answer or with the client's timeout of 10s.
FairSpec == Spec /\ WF_vars(Leave) /\ \A w \in Worker : WF_vars(Work(w))
-----------------------------------------------------------------------------
Results == {"none", "dropped", "send_on_closed", "sent", "read_failed", "db_closed",
            "post_failed", "panicked"}

\* The types of the queue, the workers, the handlers and main.
TypeOK ==
    /\ handler \in [Request -> {"idle", "working", "committed", "answered"}]
    /\ kind \in [Request -> Kind \cup {None}]
    /\ queue \in Seq(Request) /\ Len(queue) <= Buffer
    /\ open \in BOOLEAN
    /\ busy \in [Worker -> Request \cup {None}]
    /\ posting \in [Worker -> BOOLEAN]
    /\ exited \subseteq Worker
    /\ result \in [Request -> Results]
    /\ db \in BOOLEAN
    /\ main \in {"serving", "shutdown", "close_db", "close_queue", "wait", "exited", "killed"}

Queued  == Range(queue)
Taken   == Range(busy) \ {None}

\* Submit and the workers keep the pool's promise: no task is lost between the
\* queue and a worker, run twice, or refused while the queue has room.
Pool == INSTANCE TaskPool WITH
            Task <- Request, Workers <- Cardinality(Worker),
            held <- Queued \cup Taken,
            over <- {r \in Request : result[r] \notin {"none", "dropped", "send_on_closed"}},
            refused <- {r \in Request : result[r] \in {"dropped", "send_on_closed"}}
ImplementsPool == Pool!PoolSpec

\* Nobody sends on the closed channel and no request finds its database closed:
\* main passes srv.Shutdown only when every handler has submitted its task.
HandlersFinishFirst ==
    /\ ~open \/ ~db => InFlight = {}
    /\ \A r \in Request : result[r] # "send_on_closed"

\* A process that exits in order has finished every task it took.
ExitDrains ==
    main = "exited" => queue = <<>> /\ \A w \in Worker : busy[w] = None

\* The shutdown ends: workers drain the queue and return, or main gives up.
ShutdownEnds == main = "shutdown" ~> ~Running

\* worker.go says Shutdown waits for the tasks to complete: none of them is given
\* up because the process has already closed its database.
TasksComplete == \A r \in Request : result[r] # "db_closed"
=============================================================================
