---------------------------- MODULE RateLimiter ----------------------------
(***************************************************************************)
(* The in-memory cooldown limiter of the LLM-backed endpoints: calls of    *)
(* Allow share a sync.Map of stamps with one goroutine that sweeps stale   *)
(* stamps out of it.  A call is two atomic map operations, LoadOrStore and *)
(* CompareAndSwap, on a clock it read before the first of them; the sweep  *)
(* is, for each key, a load and a CompareAndDelete, against a cutoff it    *)
(* read once.  Time advances between any two of these.                     *)
(***************************************************************************)
EXTENDS Integers, FiniteSets

CONSTANTS
    Call,       \* the calls of Allow that are ever made
    Key,        \* the composite keys (the uid, or matter:uid)
    Cooldown,   \* r.cooldown
    Grace,      \* how long past its cooldown an entry is kept: 60s
    Interval,   \* evictionInterval
    MaxDelay,   \* how long a call may take from reading the clock to its answer
    LastStart,  \* bound: no call starts after this instant
    MaxTime,    \* bound: the last instant
    None

ASSUME LimiterAssumption ==
    /\ Cooldown \in Nat \ {0} /\ Grace \in Nat /\ Interval \in Nat \ {0}
    /\ MaxDelay \in Nat /\ LastStart \in Nat /\ MaxTime \in Nat
    /\ None \notin Int /\ None \notin Key

\* "short in-flight requests": what the sweep relies on.
ASSUME ShortRequests == MaxDelay <= Grace

VARIABLES
    clock,      \* time.Now()
    last,       \* r.last: the stamp of each key, or None
    pc,         \* where each call is; "allowed" and "denied" are the answers
    key,        \* the key of each call, None before it starts and when it is exempt
    now,        \* the clock a call has read
    prev,       \* the entry a call has loaded
    loop,       \* the goroutine: "select", "sweep", "delete" or "stopped"
    cutoff,     \* entries older than this are swept
    sweep,      \* the keys Range has still to visit
    victim,     \* the key and stamp of the entry to be deleted
    tick,       \* is a tick waiting in the ticker's channel?
    done        \* has Close closed the channel?

call    == <<pc, key, now, prev>>
evictor == <<loop, cutoff, sweep, victim>>
vars    == <<clock, last, call, evictor, tick, done>>

Time     == 0..MaxTime
Stamp    == Time
InFlight == {c \in Call : pc[c] \in {"store", "swap"}}
Allowed(k) == {c \in Call : pc[c] = "allowed" /\ key[c] = k}

Goto(c, label) == pc' = [pc EXCEPT ![c] = label]
-----------------------------------------------------------------------------
(* Allow.                                                                  *)

\* The middleware lets a request without a key pass; any other reads the clock.
Begin(c) ==
    /\ pc[c] = "idle"
    /\ clock <= LastStart
    /\ \/ /\ Goto(c, "exempt")
          /\ UNCHANGED <<key, now>>
       \/ /\ Goto(c, "store")
          /\ \E k \in Key : key' = [key EXCEPT ![c] = k]
          /\ now' = [now EXCEPT ![c] = clock]
    /\ UNCHANGED <<clock, last, prev, evictor, tick, done>>

\* LoadOrStore finds no entry and stores the call's stamp.
Store(c) ==
    /\ pc[c] = "store"
    /\ last[key[c]] = None
    /\ last' = [last EXCEPT ![key[c]] = now[c]]
    /\ Goto(c, "allowed")
    /\ UNCHANGED <<clock, key, now, prev, evictor, tick, done>>

\* LoadOrStore finds an entry: within the cooldown the call is over.
Load(c) ==
    /\ pc[c] = "store"
    /\ last[key[c]] # None
    /\ prev' = [prev EXCEPT ![c] = last[key[c]]]
    /\ IF now[c] - last[key[c]] < Cooldown THEN Goto(c, "denied") ELSE Goto(c, "swap")
    /\ UNCHANGED <<clock, last, key, now, evictor, tick, done>>

\* CompareAndSwap: allowed if the entry is still the one that was loaded.
Swap(c) ==
    /\ pc[c] = "swap"
    /\ IF last[key[c]] = prev[c]
       THEN /\ last' = [last EXCEPT ![key[c]] = now[c]]
            /\ Goto(c, "allowed")
       ELSE /\ Goto(c, "denied")
            /\ UNCHANGED last
    /\ UNCHANGED <<clock, key, now, prev, evictor, tick, done>>

Allow(c) == Store(c) \/ Load(c) \/ Swap(c)
-----------------------------------------------------------------------------
(* evictLoop.                                                              *)

\* Mutant: the cutoff leaves no time to the calls in flight.
CutoffWithoutGrace ==
    /\ loop = "select" /\ tick
    /\ tick' = FALSE
    /\ cutoff' = clock - Cooldown
    /\ sweep' = Key
    /\ loop' = "sweep"
    /\ UNCHANGED <<clock, last, call, victim, done>>

StartSweep ==
    /\ loop = "select" /\ tick
    /\ tick' = FALSE
    /\ cutoff' = clock - (Cooldown + Grace)
    /\ sweep' = Key
    /\ loop' = "sweep"
    /\ UNCHANGED <<clock, last, call, victim, done>>

\* Range loads the entry of one more key.
Visit(k) ==
    /\ loop = "sweep" /\ k \in sweep
    /\ sweep' = sweep \ {k}
    /\ IF last[k] # None /\ last[k] < cutoff
       THEN /\ victim' = [key |-> k, stamp |-> last[k]]
            /\ loop' = "delete"
       ELSE UNCHANGED <<victim, loop>>
    /\ UNCHANGED <<clock, last, call, cutoff, tick, done>>

\* Mutant: the entry is deleted whatever it has become.
Delete ==
    /\ loop = "delete"
    /\ loop' = "sweep"
    /\ last' = [last EXCEPT ![victim.key] = None]
    /\ UNCHANGED <<clock, call, cutoff, sweep, victim, tick, done>>

CompareAndDelete ==
    /\ loop = "delete"
    /\ loop' = "sweep"
    /\ last' = IF last[victim.key] = victim.stamp
               THEN [last EXCEPT ![victim.key] = None] ELSE last
    /\ UNCHANGED <<clock, call, cutoff, sweep, victim, tick, done>>

\* Mutant: the goroutine returns after its first sweep.
SweepOnce ==
    /\ loop = "sweep" /\ sweep = {}
    /\ loop' = "stopped"
    /\ UNCHANGED <<clock, last, call, cutoff, sweep, victim, tick, done>>

EndSweep ==
    /\ loop = "sweep" /\ sweep = {}
    /\ loop' = "select"
    /\ UNCHANGED <<clock, last, call, cutoff, sweep, victim, tick, done>>

Stop ==
    /\ loop = "select" /\ done
    /\ loop' = "stopped"
    /\ UNCHANGED <<clock, last, call, cutoff, sweep, victim, tick, done>>

Evict == StartSweep \/ (\E k \in Key : Visit(k)) \/ CompareAndDelete \/ EndSweep \/ Stop
-----------------------------------------------------------------------------
\* Close returns once the goroutine has stopped; closeOnce makes it one call.
Close ==
    /\ ~done
    /\ done' = TRUE
    /\ UNCHANGED <<clock, last, call, evictor, tick>>

\* Time passes, but no call in flight outlasts MaxDelay.  The ticker fires every
\* Interval into a channel that holds one tick.
Advance ==
    /\ clock < MaxTime
    /\ \A c \in InFlight : clock < now[c] + MaxDelay
    /\ clock' = clock + 1
    /\ tick' = (tick \/ clock' % Interval = 0)
    /\ UNCHANGED <<last, call, evictor, done>>

\* Time is up.
Quiet == /\ clock = MaxTime /\ InFlight = {}
         /\ loop = "stopped" \/ (loop = "select" /\ ~tick)
         /\ UNCHANGED vars

Init ==
    /\ clock = 0
    /\ last = [k \in Key |-> None]
    /\ pc = [c \in Call |-> "idle"]
    /\ key = [c \in Call |-> None]
    /\ now = [c \in Call |-> 0]
    /\ prev = [c \in Call |-> None]
    /\ loop = "select"
    /\ cutoff = 0
    /\ sweep = {}
    /\ victim = None
    /\ tick = FALSE
    /\ done = FALSE

Next == (\E c \in Call : Begin(c) \/ Allow(c)) \/ Evict \/ Close \/ Advance \/ Quiet

Spec == Init /\ [][Next]_vars

\* Time passes, and the Go scheduler runs the calls and the goroutine.
FairSpec ==
    /\ Spec
    /\ \A c \in Call : WF_vars(Allow(c))
    /\ WF_vars(Evict)
    /\ WF_vars(Advance)
-----------------------------------------------------------------------------
\* The types of the map, of the calls and of the goroutine; no stamp is in the
\* future.
TypeOK ==
    /\ clock \in Time
    /\ last \in [Key -> Stamp \cup {None}]
    /\ \A k \in Key : last[k] = None \/ last[k] <= clock
    /\ pc \in [Call -> {"idle", "exempt", "store", "swap", "allowed", "denied"}]
    /\ key \in [Call -> Key \cup {None}]
    /\ \A c \in Call : pc[c] \notin {"idle", "exempt"} => key[c] \in Key
    /\ now \in [Call -> Stamp]
    /\ \A c \in Call : now[c] <= clock
    /\ prev \in [Call -> Stamp \cup {None}]
    /\ loop \in {"select", "sweep", "delete", "stopped"}
    /\ cutoff \in Int
    /\ sweep \subseteq Key
    /\ loop = "delete" => victim \in [key : Key, stamp : Stamp]
    /\ tick \in BOOLEAN /\ done \in BOOLEAN

\* The limiter limits: two calls it allowed for one key read the clock at least a
\* cooldown apart, although the sweep may delete the entry that says so between
\* a call's reading of the clock and its LoadOrStore.
Spacing ==
    \A k \in Key : \A c, d \in Allowed(k) :
        c # d => now[c] - now[d] >= Cooldown \/ now[d] - now[c] >= Cooldown

\* The map never forgets too much: its entry is the stamp of the latest call that
\* was allowed, and a key without an entry has no call allowed within the
\* cooldown and the grace after it.
EntryIsLatest ==
    \A k \in Key : \A c \in Allowed(k) :
        IF last[k] = None THEN now[c] + Cooldown + Grace < clock
                          ELSE now[c] <= last[k]

\* Stale entries do not stay: unless the limiter is closed, the entry of a key
\* nobody uses any more is swept out in the end.
KeysAreSwept == \A k \in Key : last[k] # None ~> (last[k] = None \/ done)

\* The comment of Allow says that of concurrent callers "exactly one of them will
\* succeed": a call that is denied had another one allowed within its cooldown.
OneOfThemSucceeds ==
    \A c \in Call : pc[c] = "denied" =>
        \E d \in Allowed(key[c]) : now[d] + Cooldown > now[c]
=============================================================================
