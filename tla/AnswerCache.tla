---------------------------- MODULE AnswerCache ----------------------------
(***************************************************************************)
(* The answers of the IM server and the caches in front of them.  A lookup *)
(* asks whether any of some facts holds: that one of the caller's uids is  *)
(* a member of a channel, asked uid by uid, or that a token is valid.  The *)
(* membership cache keeps both answers, the caches of the token checks     *)
(* only the positive one.  An entry is used until it expires, the sweep    *)
(* removes it some time after, and a full cache is emptied.                *)
(*                                                                         *)
(* Facts change while a lookup is under way.  A call has a timeout; what   *)
(* the process does itself between two calls takes no time.                *)
(***************************************************************************)
EXTENDS Naturals, Sequences, FiniteSets, Functions

CONSTANTS
    Request, Fact,
    Lookup,         \* records of a token, or None, and a sequence of facts
    CacheNegatives, \* the membership cache
    Closable,       \* the client can be closed; the token caches cannot
    TTL,            \* 60 seconds
    Timeout,        \* of one call: 5 seconds
    Max,            \* membershipCacheMax, verifyCacheMaxSize: 10000
    MaxFacts,       \* bound: facts of a lookup
    MaxTime,        \* bound: from then on time passes only while a call is waited for
    None

ASSUME AnswerCacheAssumption ==
    /\ CacheNegatives \in BOOLEAN /\ Closable \in BOOLEAN
    /\ TTL \in Nat /\ Timeout \in Nat /\ Max \in Nat \ {0}
    /\ MaxFacts \in Nat /\ MaxTime \in Nat
    /\ None \notin Nat \cup {"yes", "no", "error"}
    /\ \A l \in Lookup : l.facts \in Seq(Fact) /\ Len(l.facts) <= MaxFacts

VARIABLES
    clock,
    holds,          \* what is true at the IM server
    lastYes, lastNo,\* when a fact was last true, and when the server last denied
                    \* it, rightly or not; None for never (ghosts)
    entries,        \* the cache: from some keys to their entries
    pc, lookup,     \* where each request is and what it asks
    index,          \* the fact it asks about
    sent,           \* when that call was sent
    reply,          \* what the server answered, None before
    tainted,        \* has a failure of the server counted as a no? (ghost)
    outcome,
    loop, closing   \* the sweeping goroutine, and the call of Close

calls  == <<index, sent, reply, tainted>>
facts  == <<holds, lastYes, lastNo>>
vars   == <<clock, facts, entries, pc, lookup, calls, outcome, loop, closing>>

\* The token and the uids, sorted.
Key(l) == [token |-> l.token, facts |-> Range(l.facts)]

Current(r) == lookup[r].facts[index[r]]

Exhausted(r) == index[r] = Len(lookup[r].facts)

\* The request is answered; what it kept for the calls is gone.
Finish(r, o) == /\ pc' = [pc EXCEPT ![r] = "done"]
                /\ outcome' = [outcome EXCEPT ![r] = o]
                /\ index' = [index EXCEPT ![r] = 0]
                /\ sent' = [sent EXCEPT ![r] = 0]
                /\ reply' = [reply EXCEPT ![r] = None]
                /\ tainted' = [tainted EXCEPT ![r] = FALSE]

\* Mutant: the time of an entry is not looked at.
AnyAge(k) == k \in DOMAIN entries

Usable(k) == k \in DOMAIN entries /\ clock <= entries[k].expire
-----------------------------------------------------------------------------
\* Without a token or a uid the answer is no; otherwise the cache is read.
Arrive(r) ==
    /\ pc[r] = "idle"
    /\ \E l \in Lookup :
         /\ lookup' = [lookup EXCEPT ![r] = l]
         /\ IF l.token = None \/ l.facts = <<>>
            THEN Finish(r, "no")
            ELSE pc' = [pc EXCEPT ![r] = "get"] /\ UNCHANGED <<outcome, calls>>
    /\ UNCHANGED <<clock, facts, entries, loop, closing>>

Get(r) ==
    /\ pc[r] = "get"
    /\ IF Usable(Key(lookup[r]))
       THEN Finish(r, entries[Key(lookup[r])].answer)
       ELSE pc' = [pc EXCEPT ![r] = "send"] /\ UNCHANGED <<outcome, calls>>
    /\ UNCHANGED <<clock, facts, entries, lookup, loop, closing>>

Send(r) ==
    /\ pc[r] = "send"
    /\ pc' = [pc EXCEPT ![r] = "wait"]
    /\ index' = [index EXCEPT ![r] = 1]
    /\ sent' = [sent EXCEPT ![r] = clock]
    /\ UNCHANGED <<clock, facts, entries, lookup, reply, tainted, outcome, loop, closing>>

\* The server looks, or refuses the caller, or fails: with a status of its own,
\* or with the status of a refusal.
Answer(r) ==
    /\ pc[r] = "wait" /\ reply[r] = None
    /\ \/ /\ reply' = [reply EXCEPT ![r] = IF holds[Current(r)] THEN "yes" ELSE "no"]
          /\ UNCHANGED <<lastNo, tainted>>
       \/ /\ reply' = [reply EXCEPT ![r] = "no"]
          /\ lastNo' = [lastNo EXCEPT ![Current(r)] = clock]
          /\ \E failed \in BOOLEAN : tainted' = [tainted EXCEPT ![r] = @ \/ failed]
       \/ /\ reply' = [reply EXCEPT ![r] = "error"]
          /\ UNCHANGED <<lastNo, tainted>>
    /\ UNCHANGED <<clock, holds, lastYes, entries, pc, lookup, index, sent, outcome,
                   loop, closing>>

\* Mutant: the cap is not looked at.
SetAlways(r, a) ==
    entries' = [k \in DOMAIN entries \cup {Key(lookup[r])} |->
                   IF k = Key(lookup[r])
                   THEN [answer |-> a, expire |-> clock + TTL, tainted |-> tainted[r]]
                   ELSE entries[k]]

Set(r, a) ==
    LET kept == IF Cardinality(DOMAIN entries) >= Max THEN {} ELSE DOMAIN entries
    IN  entries' = [k \in kept \cup {Key(lookup[r])} |->
                       IF k = Key(lookup[r])
                       THEN [answer |-> a, expire |-> clock + TTL, tainted |-> tainted[r]]
                       ELSE entries[k]]

ReceiveYes(r) ==
    /\ pc[r] = "wait" /\ reply[r] = "yes"
    /\ Set(r, "yes")
    /\ Finish(r, "yes")
    /\ UNCHANGED <<clock, facts, lookup, loop, closing>>

\* The next uid is asked about, until there is none.
ReceiveNo(r) ==
    /\ pc[r] = "wait" /\ reply[r] = "no"
    /\ \/ /\ ~Exhausted(r)
          /\ index' = [index EXCEPT ![r] = @ + 1]
          /\ sent' = [sent EXCEPT ![r] = clock]
          /\ reply' = [reply EXCEPT ![r] = None]
          /\ UNCHANGED <<entries, pc, outcome, tainted>>
       \/ /\ Exhausted(r)
          /\ IF CacheNegatives THEN Set(r, "no") ELSE UNCHANGED entries
          /\ Finish(r, "no")
    /\ UNCHANGED <<clock, facts, lookup, loop, closing>>

\* Mutant: a failure is kept as a no.
KeepError(r) ==
    /\ pc[r] = "wait" /\ reply[r] = "error"
    /\ Set(r, "no")
    /\ Finish(r, "error")
    /\ UNCHANGED <<clock, facts, lookup, loop, closing>>

ReceiveError(r) ==
    /\ pc[r] = "wait" /\ reply[r] = "error"
    /\ Finish(r, "error")
    /\ UNCHANGED <<clock, facts, entries, lookup, loop, closing>>

GiveUp(r) ==
    /\ pc[r] = "wait"
    /\ Finish(r, "error")
    /\ UNCHANGED <<clock, facts, entries, lookup, loop, closing>>

\* Mutant: the client has no timeout.
NoTimeout(r) == FALSE /\ GiveUp(r)

TimeOut(r) == clock >= sent[r] + Timeout /\ GiveUp(r)

\* The caller goes away.
Cancel(r) == GiveUp(r)
-----------------------------------------------------------------------------
\* Mutant: the sweep keeps what has expired.
EvictUsable ==
    /\ loop = "running"
    /\ entries' = Restrict(entries, {k \in DOMAIN entries : clock > entries[k].expire})
    /\ UNCHANGED <<clock, facts, pc, lookup, calls, outcome, loop, closing>>

\* The ticker fires now and then.
Evict ==
    /\ loop = "running"
    /\ entries' = Restrict(entries, {k \in DOMAIN entries : clock <= entries[k].expire})
    /\ UNCHANGED <<clock, facts, pc, lookup, calls, outcome, loop, closing>>

Stop ==
    /\ loop = "running" /\ closing # "no"
    /\ loop' = "over"
    /\ UNCHANGED <<clock, facts, entries, pc, lookup, calls, outcome, closing>>

\* Close tells the goroutine and waits for it; the cache can still be used.
Close ==
    /\ Closable
    /\ \/ closing = "no" /\ closing' = "waiting"
       \/ closing = "waiting" /\ loop = "over" /\ closing' = "returned"
    /\ UNCHANGED <<clock, facts, entries, pc, lookup, calls, outcome, loop>>

\* Somebody joins or leaves, a token is issued or revoked.
Change(f) ==
    /\ holds' = [holds EXCEPT ![f] = ~@]
    /\ IF holds[f] THEN lastNo' = [lastNo EXCEPT ![f] = clock] /\ UNCHANGED lastYes
       ELSE lastYes' = [lastYes EXCEPT ![f] = clock] /\ UNCHANGED lastNo
    /\ UNCHANGED <<clock, entries, pc, lookup, calls, outcome, loop, closing>>

\* Time does not pass the timeout of a call.
Tick ==
    /\ clock < MaxTime \/ \E r \in Request : pc[r] = "wait"
    /\ \A r \in Request : pc[r] = "wait" => clock < sent[r] + Timeout
    /\ clock' = clock + 1
    /\ lastYes' = [f \in Fact |-> IF holds[f] THEN clock' ELSE lastYes[f]]
    /\ lastNo' = [f \in Fact |-> IF holds[f] THEN lastNo[f] ELSE clock']
    /\ UNCHANGED <<holds, entries, pc, lookup, calls, outcome, loop, closing>>
-----------------------------------------------------------------------------
Init ==
    /\ clock = 0
    /\ holds = [f \in Fact |-> FALSE]
    /\ lastYes = [f \in Fact |-> None]
    /\ lastNo = [f \in Fact |-> 0]
    /\ entries = [k \in {} |-> None]
    /\ pc = [r \in Request |-> "idle"]
    /\ lookup = [r \in Request |-> None]
    /\ index = [r \in Request |-> 0]
    /\ sent = [r \in Request |-> 0]
    /\ reply = [r \in Request |-> None]
    /\ tainted = [r \in Request |-> FALSE]
    /\ outcome = [r \in Request |-> "none"]
    /\ loop = "running" /\ closing = "no"

Receive(r) == ReceiveYes(r) \/ ReceiveNo(r) \/ ReceiveError(r) \/ TimeOut(r)
Serve(r)   == Get(r) \/ Send(r) \/ Receive(r)

Next ==
    \/ \E r \in Request : Arrive(r) \/ Serve(r) \/ Answer(r) \/ Cancel(r)
    \/ \E f \in Fact : Change(f)
    \/ Evict \/ Stop \/ Close \/ Tick

Spec == Init /\ [][Next]_vars

\* Goroutines run, time passes, the ticker fires; the server may never answer.
\* A goroutine that is told to stop sees both channels ready and picks one.
FairSpec ==
    /\ Spec
    /\ \A r \in Request : WF_vars(Serve(r))
    /\ WF_vars(Tick) /\ WF_vars(Evict) /\ WF_vars(Stop)
    /\ WF_vars(closing = "waiting" /\ Close)
-----------------------------------------------------------------------------
FactsOK ==
    /\ clock \in Nat
    /\ holds \in [Fact -> BOOLEAN]
    /\ lastYes \in [Fact -> Nat \cup {None}] /\ lastNo \in [Fact -> Nat \cup {None}]

EntriesOK ==
    /\ DOMAIN entries \subseteq {Key(l) : l \in Lookup} /\ IsFiniteSet(DOMAIN entries)
    /\ entries \in [DOMAIN entries ->
                      [answer : {"yes", "no"}, expire : Nat, tainted : BOOLEAN]]

RequestsOK ==
    /\ pc \in [Request -> {"idle", "get", "send", "wait", "done"}]
    /\ lookup \in [Request -> Lookup \cup {None}]
    /\ index \in [Request -> Nat]
    /\ sent \in [Request -> Nat]
    /\ reply \in [Request -> {None, "yes", "no", "error"}]
    /\ tainted \in [Request -> BOOLEAN]
    /\ outcome \in [Request -> {"none", "yes", "no", "error"}]

LookupsOK ==
    \A r \in Request :
        /\ pc[r] \in {"get", "send", "wait"} => lookup[r] \in Lookup /\ lookup[r].facts # <<>>
        /\ pc[r] = "wait" => /\ index[r] \in 1..Len(lookup[r].facts)
                             /\ clock <= sent[r] + Timeout

\* Keys come from lookups, a request that waits asks about one of its facts, and
\* its call is not older than the timeout.
TypeOK ==
    /\ FactsOK /\ EntriesOK /\ RequestsOK /\ LookupsOK
    /\ loop \in {"running", "over"} /\ closing \in {"no", "waiting", "returned"}

\* A request admitted on a yes relied on a fact that was true at most a TTL and one
\* timeout ago, whoever filled the cache and in whatever order late answers of the
\* server overwrote each other.
YesIsFresh ==
    [][\A r \in Request : (outcome[r] = "none" /\ outcome'[r] = "yes") =>
         \E f \in Range(lookup[r].facts) :
             lastYes[f] # None /\ lastYes[f] + TTL + Timeout >= clock]_vars

\* A request turned away on a no had every fact of its lookup denied by the server
\* within a TTL and a timeout per fact, perhaps by several calls at different times.  A
\* call whose failure is reported as one is never taken for a denial; for a failure
\* that has the status of a refusal see FailuresAreNotCached.
NoIsFounded ==
    [][\A r \in Request : (pc[r] # "idle" /\ outcome[r] = "none" /\ outcome'[r] = "no") =>
         \A f \in Range(lookup[r].facts) :
             lastNo[f] # None /\ lastNo[f] + TTL + MaxFacts * Timeout >= clock]_vars

\* The cache does not outgrow its cap, with concurrent requests that each found it
\* below the cap when they missed.
Bounded == Cardinality(DOMAIN entries) <= Max

\* A request is answered although the server may never answer a call.
Answered == \A r \in Request : pc[r] # "idle" ~> pc[r] = "done"

\* What has expired does not stay, unless the client was closed.
ExpiredIsSwept ==
    \A l \in Lookup :
        (Key(l) \in DOMAIN entries /\ ~Usable(Key(l))) ~>
            (Key(l) \notin DOMAIN entries \/ Usable(Key(l)) \/ closing # "no")

\* "Do not cache transient failures", says IsChannelMember.
FailuresAreNotCached == \A k \in DOMAIN entries : ~entries[k].tainted
=============================================================================
