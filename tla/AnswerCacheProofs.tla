------------------------- MODULE AnswerCacheProofs -------------------------
(***************************************************************************)
(* How old an answer of the cache can be, for every cache size, number of  *)
(* requests and length of a lookup.  An entry is founded on answers of the *)
(* server (EntriesFounded), which arrived within their timeouts one after  *)
(* the other (CallsFounded), and the server told what was true (Truth).    *)
(***************************************************************************)
EXTENDS AnswerCache, FiniteSetTheorems, TLAPS

\* The ghosts never run ahead of the clock, and keep up with what is true.
Truth ==
    \A f \in Fact :
        /\ lastYes[f] # None => lastYes[f] <= clock
        /\ lastNo[f] # None => lastNo[f] <= clock
        /\ holds[f] => lastYes[f] = clock
        /\ ~holds[f] => lastNo[f] = clock

YesSince(f, t) == lastYes[f] # None /\ lastYes[f] >= t
NoSince(f, t)  == lastNo[f] # None /\ lastNo[f] >= t

\* The facts asked about before were denied, each call within its timeout, and so
\* far as the server has answered, the present one was looked at since it was sent.
Founded(r) ==
    /\ sent[r] <= clock
    /\ \A i \in 1..(index[r] - 1) :
         NoSince(lookup[r].facts[i], sent[r] - (index[r] - 1) * Timeout)
    /\ reply[r] = "yes" => YesSince(Current(r), sent[r])
    /\ reply[r] = "no" => NoSince(Current(r), sent[r])

CallsFounded == \A r \in Request : pc[r] = "wait" => Founded(r)

EntriesFounded ==
    \A k \in DOMAIN entries :
        /\ entries[k].answer = "yes" =>
             \E f \in k.facts : YesSince(f, entries[k].expire - TTL - Timeout)
        /\ entries[k].answer = "no" =>
             \A f \in k.facts : NoSince(f, entries[k].expire - TTL - MaxFacts * Timeout)

\* There is an answer only while a call waits.
NoReply == \A r \in Request : pc[r] # "wait" => reply[r] = None

CInv == TypeOK /\ Bounded /\ Truth /\ NoReply /\ CallsFounded /\ EntriesFounded
-----------------------------------------------------------------------------
LEMMA Products ==
    /\ \A n \in Nat : n * Timeout \in Nat
    /\ \A n \in Nat : (n + 1) * Timeout = n * Timeout + Timeout
    /\ \A m, n \in Nat : m <= n => m * Timeout <= n * Timeout
    /\ MaxFacts * Timeout \in Nat
  BY AnswerCacheAssumption

\* The keys and the facts of a lookup.
LEMMA Lookups ==
    ASSUME NEW l \in Lookup
    PROVE  /\ Len(l.facts) \in Nat /\ Len(l.facts) <= MaxFacts
           /\ \A i \in 1..Len(l.facts) : l.facts[i] \in Fact
           /\ Key(l).facts = Range(l.facts)
           /\ Range(l.facts) = {l.facts[i] : i \in 1..Len(l.facts)}
           /\ \A f \in Key(l).facts : f \in Fact
  BY AnswerCacheAssumption DEF Key, Range

\* A new entry: the others stay or all go, and the cap holds.
LEMMA NewEntry ==
    ASSUME TypeOK, Bounded, NEW r \in Request, NEW a \in {"yes", "no"},
           lookup[r] \in Lookup, Set(r, a)
    PROVE  /\ DOMAIN entries' \subseteq DOMAIN entries \cup {Key(lookup[r])}
           /\ DOMAIN entries' \subseteq {Key(l) : l \in Lookup}
           /\ IsFiniteSet(DOMAIN entries') /\ Bounded'
           /\ entries' \in [DOMAIN entries' ->
                              [answer : {"yes", "no"}, expire : Nat, tainted : BOOLEAN]]
           /\ \A k \in DOMAIN entries' \ {Key(lookup[r])} : entries'[k] = entries[k]
           /\ Key(lookup[r]) \in DOMAIN entries'
           /\ entries'[Key(lookup[r])].answer = a
           /\ entries'[Key(lookup[r])].expire = clock + TTL
  <1> DEFINE key  == Key(lookup[r])
             kept == IF Cardinality(DOMAIN entries) >= Max THEN {} ELSE DOMAIN entries
  <1>1. entries' = [k \in kept \cup {key} |->
                       IF k = key
                       THEN [answer |-> a, expire |-> clock + TTL, tainted |-> tainted[r]]
                       ELSE entries[k]]
    BY DEF Set
  <1>2. /\ kept \subseteq DOMAIN entries /\ IsFiniteSet(kept)
        /\ Cardinality(kept) \in Nat /\ Cardinality(kept) + 1 <= Max
    <2>1. Cardinality(DOMAIN entries) \in Nat /\ IsFiniteSet(DOMAIN entries)
      BY FS_CardinalityType DEF TypeOK, FactsOK, EntriesOK, RequestsOK, LookupsOK
    <2> QED BY <2>1, FS_EmptySet, AnswerCacheAssumption
  <1>3. /\ IsFiniteSet(kept \cup {key})
        /\ Cardinality(kept \cup {key}) <= Cardinality(kept) + 1
    BY <1>2, FS_AddElement
  <1>4. IsFiniteSet(DOMAIN entries') /\ Bounded'
    <2>1. Cardinality(kept \cup {key}) \in Nat
      BY <1>3, FS_CardinalityType
    <2> QED BY <1>1, <1>2, <1>3, <2>1, AnswerCacheAssumption DEF Bounded
  <1>5. clock + TTL \in Nat /\ tainted[r] \in BOOLEAN
    BY AnswerCacheAssumption DEF TypeOK, FactsOK, EntriesOK, RequestsOK, LookupsOK
  <1> HIDE DEF kept
  <1> QED BY <1>1, <1>2, <1>4, <1>5 DEF TypeOK, FactsOK, EntriesOK, RequestsOK, LookupsOK

\* What is founded stays founded while the ghosts only grow.
Grows ==
    \A f \in Fact, t \in Int : /\ YesSince(f, t) => YesSince(f, t)'
                               /\ NoSince(f, t) => NoSince(f, t)'

LEMMA Initially == ASSUME Init PROVE CInv
  <1> USE AnswerCacheAssumption DEF Init
  <1>1. Cardinality(DOMAIN entries) = 0 /\ IsFiniteSet(DOMAIN entries)
    BY FS_EmptySet
  <1>2. TypeOK
    BY <1>1 DEF TypeOK, FactsOK, EntriesOK, RequestsOK, LookupsOK
  <1> QED BY <1>1, <1>2 DEF CInv, Bounded, Truth, NoReply, CallsFounded, EntriesFounded

LEMMA Waiting ==
    ASSUME TypeOK, NEW r \in Request, pc[r] = "wait"
    PROVE  /\ lookup[r] \in Lookup
           /\ index[r] \in Nat /\ index[r] >= 1 /\ index[r] <= Len(lookup[r].facts)
           /\ Current(r) \in Fact /\ Current(r) \in Range(lookup[r].facts)
           /\ sent[r] \in Nat /\ clock \in Nat /\ clock <= sent[r] + Timeout
           /\ (index[r] - 1) * Timeout \in Nat
  <1>1. /\ lookup[r] \in Lookup /\ index[r] \in 1..Len(lookup[r].facts)
        /\ sent[r] \in Nat /\ clock \in Nat /\ clock <= sent[r] + Timeout
    BY DEF TypeOK, FactsOK, EntriesOK, RequestsOK, LookupsOK
  <1>2. Len(lookup[r].facts) \in Nat /\ Current(r) \in Fact
    BY <1>1, Lookups DEF Current
  <1>3. index[r] - 1 \in Nat
    BY <1>1, <1>2
  <1>4. (index[r] - 1) * Timeout \in Nat
    BY <1>3, Products
  <1>5. Current(r) \in Range(lookup[r].facts)
    <2>1. Range(lookup[r].facts) = {lookup[r].facts[i] : i \in 1..Len(lookup[r].facts)}
      BY <1>1, Lookups
    <2> QED BY <1>1, <2>1 DEF Current
  <1> QED BY <1>1, <1>2, <1>4, <1>5

\* What happens to the ghosts.
LEMMA GhostsGrow == ASSUME TypeOK, Truth, [Next]_vars PROVE Grows /\ Truth' /\ clock' >= clock
  <1> USE AnswerCacheAssumption DEF TypeOK, FactsOK, EntriesOK, RequestsOK, LookupsOK
  <1>1. CASE UNCHANGED <<clock, facts>>
    BY <1>1 DEF Grows, YesSince, NoSince, Truth, facts
  <1>2. ASSUME NEW r \in Request, Answer(r) PROVE Grows /\ Truth' /\ clock' >= clock
    <2>1. Current(r) \in Fact
      BY <1>2, Waiting DEF Answer
    <2>2. CASE UNCHANGED lastNo
      BY <1>2, <2>2 DEF Answer, Grows, YesSince, NoSince, Truth
    <2>3. CASE lastNo' = [lastNo EXCEPT ![Current(r)] = clock]
      BY <1>2, <2>1, <2>3 DEF Answer, Grows, YesSince, NoSince, Truth
    <2> QED BY <1>2, <2>2, <2>3 DEF Answer
  <1>3. ASSUME NEW f \in Fact, Change(f) PROVE Grows /\ Truth' /\ clock' >= clock
    <2>0. /\ \A g \in Fact \ {f} : holds'[g] <=> holds[g]
          /\ holds'[f] <=> ~holds[f]
      BY <1>3, Zenon DEF Change
    <2>1. CASE holds[f]
      <3>1. lastNo' = [lastNo EXCEPT ![f] = clock] /\ UNCHANGED <<clock, lastYes>>
        BY <1>3, <2>1 DEF Change
      <3> QED BY <2>0, <2>1, <3>1 DEF Grows, YesSince, NoSince, Truth
    <2>2. CASE ~holds[f]
      <3>1. lastYes' = [lastYes EXCEPT ![f] = clock] /\ UNCHANGED <<clock, lastNo>>
        BY <1>3, <2>2 DEF Change
      <3> QED BY <2>0, <2>2, <3>1 DEF Grows, YesSince, NoSince, Truth
    <2> QED BY <2>1, <2>2
  <1>4. CASE Tick
    BY <1>4 DEF Tick, Grows, YesSince, NoSince, Truth
  <1>5. CASE \/ \E r \in Request : Arrive(r) \/ Serve(r) \/ Cancel(r)
             \/ Evict \/ Stop \/ Close \/ UNCHANGED vars
    BY <1>1, <1>5 DEF Arrive, Serve, Get, Send, Receive, ReceiveYes, ReceiveNo, ReceiveError,
       TimeOut, Cancel, GiveUp, Evict, Stop, Close, vars
  <1> QED BY <1>2, <1>3, <1>4, <1>5 DEF Next

LEMMA KeepCall ==
    ASSUME CInv, Grows, TypeOK', clock' >= clock, NEW r \in Request,
           pc[r] = "wait", lookup'[r] = lookup[r], index'[r] = index[r],
           sent'[r] = sent[r], reply'[r] = reply[r]
    PROVE  Founded(r)'
  <1>1. Founded(r)
    BY DEF CInv, CallsFounded
  <1>2. Current(r)' = Current(r) /\ Current(r) \in Fact
    BY Waiting DEF Current, CInv
  <1>3. \A i \in 1..(index[r] - 1) : lookup[r].facts[i] \in Fact
    BY Waiting, Lookups DEF CInv
  <1>4. sent[r] \in Int /\ sent[r] - (index[r] - 1) * Timeout \in Int
    BY Waiting DEF CInv
  <1>5. sent[r] <= clock'
    BY <1>1, <1>4 DEF Founded, CInv, TypeOK, FactsOK, EntriesOK
  <1> QED BY <1>1, <1>2, <1>3, <1>4, <1>5 DEF Founded, Grows

LEMMA KeepEntries ==
    ASSUME CInv, Grows,
           NEW k \in DOMAIN entries, k \in DOMAIN entries', entries'[k] = entries[k]
    PROVE  /\ entries'[k].answer = "yes" =>
                \E f \in k.facts : YesSince(f, entries[k].expire - TTL - Timeout)'
           /\ entries'[k].answer = "no" =>
                \A f \in k.facts : NoSince(f, entries[k].expire - TTL - MaxFacts * Timeout)'
  <1>1. PICK l \in Lookup : k = Key(l)
    BY DEF CInv, TypeOK, FactsOK, EntriesOK, RequestsOK, LookupsOK
  <1>2. \A f \in k.facts : f \in Fact
    BY <1>1, Lookups
  <1>3. entries[k].expire \in Nat
    BY DEF CInv, TypeOK, FactsOK, EntriesOK, RequestsOK, LookupsOK
  <1>4. /\ entries[k].expire - TTL - Timeout \in Int
        /\ entries[k].expire - TTL - MaxFacts * Timeout \in Int
    <2>1. ASSUME NEW a \in Int, NEW b \in Int, NEW c \in Int PROVE a - b - c \in Int
      OBVIOUS
    <2>2. entries[k].expire \in Int /\ TTL \in Int /\ Timeout \in Int
      BY <1>3, AnswerCacheAssumption
    <2>3. \A n \in Nat : n \in Int
      OBVIOUS
    <2>4. MaxFacts * Timeout \in Int
      BY <2>3, Products, Zenon
    <2> QED BY <2>1, <2>2, <2>4, Zenon
  <1>5. entries'[k].expire = entries[k].expire
    OBVIOUS
  <1>6. \A f \in k.facts, t \in Int :
           (YesSince(f, t) => YesSince(f, t)') /\ (NoSince(f, t) => NoSince(f, t)')
    BY <1>2 DEF Grows
  <1> QED BY <1>4, <1>5, <1>6 DEF CInv, EntriesFounded, YesSince, NoSince

\* A step that makes no entry and no call.
LEMMA Frame ==
    ASSUME CInv, Grows, Truth', TypeOK', NoReply', Bounded', clock' >= clock,
           \A k \in DOMAIN entries' : k \in DOMAIN entries /\ entries'[k] = entries[k],
           \A r \in Request : pc'[r] = "wait" =>
               /\ pc[r] = "wait" /\ lookup'[r] = lookup[r] /\ index'[r] = index[r]
               /\ sent'[r] = sent[r] /\ reply'[r] = reply[r]
    PROVE  CInv'
  <1>1. CallsFounded'
    BY KeepCall DEF CallsFounded
  <1>2. EntriesFounded'
    <2> SUFFICES ASSUME NEW k \in DOMAIN entries'
                 PROVE  /\ entries'[k].answer = "yes" =>
                             \E f \in k.facts : YesSince(f, entries[k].expire - TTL - Timeout)'
                        /\ entries'[k].answer = "no" =>
                             \A f \in k.facts :
                                 NoSince(f, entries[k].expire - TTL - MaxFacts * Timeout)'
      BY DEF EntriesFounded
    <2> QED BY KeepEntries
  <1> QED BY <1>1, <1>2 DEF CInv
-----------------------------------------------------------------------------
\* The types, action by action.
LEMMA TypesKept == ASSUME TypeOK, Bounded, [Next]_vars PROVE TypeOK' /\ Bounded'
  <1> USE AnswerCacheAssumption
  <1>a. EntriesOK /\ FactsOK /\ RequestsOK /\ LookupsOK
    BY DEF TypeOK
  \* What a step that leaves a part of the state alone keeps.
  <1>e. UNCHANGED entries => EntriesOK' /\ Bounded'
    BY <1>a DEF EntriesOK, Bounded
  <1>f. UNCHANGED <<clock, facts>> => FactsOK'
    BY <1>a DEF FactsOK, facts
  <1>r. UNCHANGED <<pc, lookup, calls, outcome>> => RequestsOK'
    BY <1>a DEF RequestsOK, calls
  <1>l. UNCHANGED <<loop, closing>> =>
            loop' \in {"running", "over"} /\ closing' \in {"no", "waiting", "returned"}
    BY DEF TypeOK
  <1>i. UNCHANGED <<pc, lookup, index, sent, clock>> => LookupsOK'
    BY <1>a DEF LookupsOK
  <1> DEFINE Others(r) == \A q \in Request \ {r} :
                 pc'[q] = pc[q] /\ lookup'[q] = lookup[q] /\ index'[q] = index[q]
                 /\ sent'[q] = sent[q]
  \* An answered request: no call is pending any more.
  <1>d. ASSUME NEW r \in Request, NEW o \in {"yes", "no", "error"}, Finish(r, o),
               clock' = clock, UNCHANGED lookup
        PROVE  RequestsOK' /\ LookupsOK'
    <2>1. RequestsOK'
      BY <1>a, <1>d DEF Finish, RequestsOK
    <2>2. pc'[r] = "done" /\ Others(r)
      BY <1>a, <1>d DEF Finish, RequestsOK
    <2> QED BY <1>a, <1>d, <2>1, <2>2 DEF LookupsOK
  <1>1. ASSUME NEW r \in Request, Arrive(r) PROVE TypeOK' /\ Bounded'
    <2> PICK l \in Lookup :
          /\ lookup' = [lookup EXCEPT ![r] = l]
          /\ IF l.token = None \/ l.facts = <<>> THEN Finish(r, "no")
             ELSE pc' = [pc EXCEPT ![r] = "get"] /\ UNCHANGED <<outcome, calls>>
      BY <1>1 DEF Arrive
    <2>2. /\ lookup'[r] = l /\ \A q \in Request \ {r} : lookup'[q] = lookup[q]
          /\ lookup' \in [Request -> Lookup \cup {None}]
      BY <1>a DEF RequestsOK
    <2>3. /\ pc'[r] = "done" \/ (pc'[r] = "get" /\ l.facts # <<>>)
          /\ \A q \in Request \ {r} :
                 pc'[q] = pc[q] /\ index'[q] = index[q] /\ sent'[q] = sent[q]
          /\ RequestsOK'
      <3>1. CASE l.token = None \/ l.facts = <<>>
        <4>1. Finish(r, "no")
          BY <3>1
        <4>2. /\ pc'[r] = "done"
              /\ \A q \in Request \ {r} :
                     pc'[q] = pc[q] /\ index'[q] = index[q] /\ sent'[q] = sent[q]
          BY <1>a, <4>1 DEF Finish, RequestsOK
        <4>3. RequestsOK'
          BY <1>a, <2>2, <4>1 DEF Finish, RequestsOK
        <4> QED BY <4>2, <4>3
      <3>2. CASE ~(l.token = None \/ l.facts = <<>>)
        <4>1. pc' = [pc EXCEPT ![r] = "get"] /\ UNCHANGED <<outcome, calls>>
          BY <3>2
        <4> QED BY <1>a, <2>2, <3>2, <4>1 DEF RequestsOK, calls
      <3> QED BY <3>1, <3>2
    <2>5. clock' = clock
      BY <1>1 DEF Arrive
    <2>4. LookupsOK'
      BY <1>a, <2>2, <2>3, <2>5 DEF LookupsOK
    <2> QED BY <1>1, <1>e, <1>f, <1>l, <2>3, <2>4 DEF Arrive, TypeOK
  <1>2. ASSUME NEW r \in Request, Get(r) PROVE TypeOK' /\ Bounded'
    <2>1. CASE Usable(Key(lookup[r]))
      <3>1. entries[Key(lookup[r])].answer \in {"yes", "no"}
        BY <1>a, <2>1 DEF EntriesOK, Usable
      <3>2. RequestsOK' /\ LookupsOK'
        BY <1>2, <1>d, <2>1, <3>1 DEF Get
      <3> QED BY <1>2, <1>e, <1>f, <1>l, <3>2 DEF Get, TypeOK
    <2>2. CASE ~Usable(Key(lookup[r]))
      <3>1. RequestsOK'
        BY <1>2, <1>a, <2>2 DEF Get, RequestsOK, calls
      <3>2. LookupsOK'
        BY <1>2, <1>a, <2>2 DEF Get, RequestsOK, LookupsOK, calls
      <3> QED BY <1>2, <1>e, <1>f, <1>l, <3>1, <3>2 DEF Get, TypeOK
    <2> QED BY <2>1, <2>2
  <1>3. ASSUME NEW r \in Request, Send(r) PROVE TypeOK' /\ Bounded'
    <2>1. lookup[r] \in Lookup /\ lookup[r].facts # <<>>
      BY <1>3, <1>a DEF Send, LookupsOK
    <2>2. 1 \in 1..Len(lookup[r].facts)
      BY <2>1
    <2>3. RequestsOK'
      BY <1>3, <1>a DEF Send, RequestsOK, FactsOK
    <2>4. clock <= clock + Timeout
      BY <1>a DEF FactsOK
    <2>5. /\ Others(r) /\ pc'[r] = "wait" /\ index'[r] = 1 /\ sent'[r] = clock
          /\ lookup' = lookup /\ clock' = clock
      BY <1>3, <1>a DEF Send, RequestsOK
    <2>6. LookupsOK'
      BY <1>a, <2>1, <2>2, <2>4, <2>5 DEF LookupsOK
    <2> QED BY <1>3, <1>e, <1>f, <1>l, <2>3, <2>6 DEF Send, TypeOK
  <1>4. ASSUME NEW r \in Request, Answer(r) PROVE TypeOK' /\ Bounded'
    <2>1. Current(r) \in Fact
      BY <1>4, Waiting DEF Answer
    <2>2. FactsOK'
      BY <1>4, <1>a, <2>1 DEF Answer, FactsOK
    <2>3. reply' \in [Request -> {None, "yes", "no", "error"}]
      BY <1>4, <1>a DEF Answer, RequestsOK
    <2>4. tainted' \in [Request -> BOOLEAN]
      BY <1>4, <1>a DEF Answer, RequestsOK
    <2>5. RequestsOK' /\ LookupsOK'
      BY <1>4, <1>a, <1>i, <2>3, <2>4 DEF Answer, RequestsOK
    <2> QED BY <1>4, <1>e, <1>l, <2>2, <2>5 DEF Answer, TypeOK
  <1>5. ASSUME NEW r \in Request, NEW a \in {"yes", "no"}, pc[r] = "wait", Set(r, a),
               Finish(r, a), UNCHANGED <<clock, facts, lookup, loop, closing>>
        PROVE  TypeOK' /\ Bounded'
    <2>1. EntriesOK' /\ Bounded'
      BY <1>5, Waiting, NewEntry DEF EntriesOK
    <2> QED BY <1>5, <1>d, <1>f, <1>l, <2>1 DEF TypeOK
  <1>6. ASSUME NEW r \in Request, ReceiveNo(r) PROVE TypeOK' /\ Bounded'
    <2>1. CASE Exhausted(r) /\ CacheNegatives
      BY <1>6, <1>5, <2>1 DEF ReceiveNo
    <2>2. CASE Exhausted(r) /\ ~CacheNegatives
      BY <1>6, <1>d, <1>e, <1>f, <1>l, <2>2 DEF ReceiveNo, TypeOK
    <2>3. CASE ~Exhausted(r)
      <3>1. /\ index' = [index EXCEPT ![r] = @ + 1]
            /\ sent' = [sent EXCEPT ![r] = clock]
            /\ reply' = [reply EXCEPT ![r] = None]
            /\ UNCHANGED <<entries, pc, outcome, tainted, clock, facts, lookup, loop, closing>>
        BY <1>6, <2>3 DEF ReceiveNo
      <3>2. RequestsOK'
        BY <1>a, <3>1 DEF RequestsOK, FactsOK
      <3>3. index[r] + 1 \in 1..Len(lookup[r].facts)
        BY <1>6, <2>3, Waiting DEF ReceiveNo, Exhausted
      <3>4. index'[r] = index[r] + 1 /\ sent'[r] = clock /\ Others(r) /\ clock <= clock + Timeout
        BY <1>a, <3>1 DEF RequestsOK, FactsOK
      <3>5. LookupsOK'
        BY <1>a, <3>1, <3>3, <3>4 DEF LookupsOK
      <3> QED BY <1>e, <1>f, <1>l, <3>1, <3>2, <3>5 DEF TypeOK
    <2> QED BY <2>1, <2>2, <2>3
  <1>7. ASSUME NEW r \in Request, ReceiveError(r) \/ TimeOut(r) \/ Cancel(r)
        PROVE  TypeOK' /\ Bounded'
    BY <1>7, <1>d, <1>e, <1>f, <1>l DEF ReceiveError, TimeOut, Cancel, GiveUp, TypeOK
  <1>8. CASE Evict
    <2> DEFINE kept == {k \in DOMAIN entries : clock <= entries[k].expire}
    <2>1. entries' = [k \in kept |-> entries[k]] /\ kept \subseteq DOMAIN entries
      BY <1>8 DEF Evict, Restrict
    <2>2. IsFiniteSet(kept) /\ Cardinality(kept) <= Cardinality(DOMAIN entries)
      BY <1>a, <2>1, FS_Subset DEF EntriesOK
    <2>3. Cardinality(kept) \in Nat /\ Cardinality(DOMAIN entries) \in Nat
      BY <1>a, <2>2, FS_CardinalityType DEF EntriesOK
    <2> HIDE DEF kept
    <2>4. DOMAIN entries' = kept
      BY <2>1
    <2>5. Bounded'
      BY <2>2, <2>3, <2>4 DEF Bounded
    <2>6. EntriesOK'
      BY <1>a, <2>1, <2>2, <2>4 DEF EntriesOK
    <2> QED BY <1>8, <1>f, <1>r, <1>i, <1>l, <2>5, <2>6 DEF Evict, calls, TypeOK
  <1>9. ASSUME NEW f \in Fact, Change(f) PROVE TypeOK' /\ Bounded'
    <2>1. holds' \in [Fact -> BOOLEAN]
      BY <1>9, <1>a DEF Change, FactsOK
    <2>2. FactsOK'
      BY <1>9, <1>a, <2>1 DEF Change, FactsOK
    <2> QED BY <1>9, <1>e, <1>r, <1>i, <1>l, <2>2 DEF Change, calls, TypeOK
  <1>10. CASE Tick
    <2>1. FactsOK'
      BY <1>10, <1>a DEF Tick, FactsOK
    <2>2. LookupsOK'
      <3>1. UNCHANGED <<pc, lookup, index, sent>> /\ clock' = clock + 1
        BY <1>10 DEF Tick, calls
      <3>2. ASSUME NEW r \in Request, pc[r] = "wait" PROVE clock + 1 <= sent[r] + Timeout
        BY <1>10, <3>2, <1>a DEF Tick, FactsOK, RequestsOK
      <3> QED BY <1>a, <3>1, <3>2 DEF LookupsOK
    <2> QED BY <1>10, <1>e, <1>r, <1>l, <2>1, <2>2 DEF Tick, calls, TypeOK
  <1>11. CASE Stop \/ Close
    BY <1>11, <1>a, <1>e, <1>f, <1>r, <1>i DEF Stop, Close, calls, TypeOK
  <1>12. CASE UNCHANGED vars
    BY <1>12, <1>e, <1>f, <1>r, <1>i, <1>l DEF vars, calls, TypeOK
  <1>13. ASSUME NEW r \in Request, ReceiveYes(r) PROVE TypeOK' /\ Bounded'
    BY <1>13, <1>5 DEF ReceiveYes
  <1> QED BY <1>1, <1>2, <1>3, <1>4, <1>6, <1>7, <1>8, <1>9, <1>10, <1>11, <1>12, <1>13
          DEF Next, Serve, Receive

\* An answer is there only while its request waits.
LEMMA NoReplyKept == ASSUME TypeOK, NoReply, [Next]_vars PROVE NoReply'
  <1>a. reply \in [Request -> {None, "yes", "no", "error"}]
        /\ pc \in [Request -> {"idle", "get", "send", "wait", "done"}]
    BY DEF TypeOK, RequestsOK
  <1>1. ASSUME NEW r \in Request, NEW o, Finish(r, o) PROVE NoReply'
    BY <1>1, <1>a DEF Finish, NoReply
  <1>2. ASSUME NEW r \in Request,
               Get(r) \/ ReceiveYes(r) \/ ReceiveError(r) \/ TimeOut(r) \/ Cancel(r)
        PROVE  NoReply'
    BY <1>1, <1>2, <1>a
       DEF Get, ReceiveYes, ReceiveError, TimeOut, Cancel, GiveUp, NoReply, calls
  <1>3. ASSUME NEW r \in Request, Arrive(r) \/ Send(r) \/ Answer(r) \/ ReceiveNo(r)
        PROVE  NoReply'
    BY <1>1, <1>3, <1>a DEF Arrive, Send, Answer, ReceiveNo, NoReply, calls
  <1>4. CASE UNCHANGED <<pc, reply>>
    BY <1>4 DEF NoReply
  <1> QED BY <1>2, <1>3, <1>4
          DEF Next, Serve, Receive, Change, Evict, Stop, Close, Tick, calls, vars

\* A new entry is as well founded as the last call of its lookup.
LEMMA FoundedEntry ==
    ASSUME CInv, Grows, Truth', TypeOK', NoReply', Bounded', clock' = clock,
           NEW r \in Request, NEW a \in {"yes", "no"}, pc[r] = "wait", Set(r, a),
           Finish(r, a), UNCHANGED <<facts, lookup>>,
           a = "yes" => \E f \in Range(lookup[r].facts) : YesSince(f, clock - Timeout),
           a = "no" => \A f \in Range(lookup[r].facts) : NoSince(f, clock - MaxFacts * Timeout)
    PROVE  CInv'
  <1>1. CallsFounded'
    <2> SUFFICES ASSUME NEW q \in Request, pc'[q] = "wait" PROVE Founded(q)'
      BY DEF CallsFounded
    <2>1. q # r
      BY DEF Finish, CInv, TypeOK, RequestsOK
    <2>2. /\ pc[q] = "wait" /\ lookup'[q] = lookup[q] /\ index'[q] = index[q]
          /\ sent'[q] = sent[q] /\ reply'[q] = reply[q]
      BY <2>1 DEF Finish, CInv, TypeOK, RequestsOK
    <2>3. clock' >= clock
      BY DEF CInv, TypeOK, FactsOK
    <2> QED BY <2>2, <2>3, KeepCall
  <1>2. EntriesFounded'
    <2> SUFFICES ASSUME NEW k \in DOMAIN entries'
                 PROVE  /\ entries'[k].answer = "yes" =>
                             \E f \in k.facts : YesSince(f, entries[k].expire - TTL - Timeout)'
                        /\ entries'[k].answer = "no" =>
                             \A f \in k.facts :
                                 NoSince(f, entries[k].expire - TTL - MaxFacts * Timeout)'
      BY DEF EntriesFounded
    <2>1. lookup[r] \in Lookup
      BY Waiting DEF CInv
    <2>2. CASE k # Key(lookup[r])
      <3>1. k \in DOMAIN entries /\ entries'[k] = entries[k]
        BY <2>1, <2>2, NewEntry DEF CInv
      <3> QED BY <3>1, KeepEntries
    <2>3. CASE k = Key(lookup[r])
      <3>1. entries'[k].answer = a /\ entries'[k].expire = clock + TTL
        BY <2>1, <2>3, NewEntry DEF CInv
      <3>2. k.facts = Range(lookup[r].facts)
        BY <2>3 DEF Key
      <3>3. clock \in Nat /\ TTL \in Nat /\ Timeout \in Nat /\ MaxFacts * Timeout \in Nat
        BY Products, AnswerCacheAssumption DEF CInv, TypeOK, FactsOK
      <3>4. /\ entries'[k].expire - TTL - Timeout = clock - Timeout
            /\ entries'[k].expire - TTL - MaxFacts * Timeout = clock - MaxFacts * Timeout
        BY <3>1, <3>3
      <3>5. lastYes' = lastYes /\ lastNo' = lastNo
        BY DEF facts
      <3> QED BY <3>1, <3>2, <3>4, <3>5 DEF YesSince, NoSince
    <2> QED BY <2>2, <2>3
  <1> QED BY <1>1, <1>2 DEF CInv

\* The last denial of a lookup: all its facts were denied, each call in its time.
LEMMA AllDenied ==
    ASSUME CInv, NEW r \in Request, pc[r] = "wait", reply[r] = "no", Exhausted(r)
    PROVE  \A f \in Range(lookup[r].facts) : NoSince(f, clock - MaxFacts * Timeout)
  <1> DEFINE n == index[r]
  <1>1. /\ lookup[r] \in Lookup /\ n \in Nat /\ n >= 1 /\ n <= MaxFacts
        /\ n = Len(lookup[r].facts) /\ sent[r] \in Nat /\ clock \in Nat
        /\ clock <= sent[r] + Timeout
    BY Waiting, Lookups DEF CInv, Exhausted
  <1>2. /\ (n - 1) * Timeout \in Nat /\ MaxFacts * Timeout \in Nat
        /\ clock - MaxFacts * Timeout <= sent[r] - (n - 1) * Timeout
        /\ clock - MaxFacts * Timeout <= sent[r]
    <2>1. n - 1 \in Nat
      BY <1>1
    <2>2. ((n - 1) + 1) * Timeout = (n - 1) * Timeout + Timeout /\ (n - 1) * Timeout \in Nat
      BY <2>1, Products
    <2>3. n * Timeout <= MaxFacts * Timeout /\ MaxFacts * Timeout \in Nat
      BY <1>1, Products, AnswerCacheAssumption
    <2>4. (n - 1) + 1 = n
      BY <1>1
    <2>5. n * Timeout = (n - 1) * Timeout + Timeout
      BY <2>2, <2>4
    <2> HIDE DEF n
    <2>6. ASSUME NEW a \in Nat, NEW b \in Nat, NEW c \in Nat, c = a + Timeout, c <= b
          PROVE  clock - b <= sent[r] - a /\ clock - b <= sent[r]
      BY <1>1, <2>6, AnswerCacheAssumption
    <2> QED BY <2>2, <2>3, <2>5, <2>6, <1>1, Products
  <1>3. Founded(r)
    BY DEF CInv, CallsFounded
  <1>4. ASSUME NEW i \in 1..Len(lookup[r].facts)
        PROVE  NoSince(lookup[r].facts[i], clock - MaxFacts * Timeout)
    <2>1. lookup[r].facts[i] \in Fact
      BY <1>1, Lookups
    <2>2. lastNo[lookup[r].facts[i]] # None => lastNo[lookup[r].facts[i]] \in Nat
      BY <2>1 DEF CInv, TypeOK, FactsOK
    <2>3. CASE i = n
      BY <1>1, <1>2, <1>3, <2>2, <2>3 DEF Founded, NoSince, Current
    <2>4. CASE i # n
      <3>1. i \in 1..(n - 1)
        BY <1>1, <2>4
      <3>2. NoSince(lookup[r].facts[i], sent[r] - (n - 1) * Timeout)
        BY <1>3, <3>1 DEF Founded
      <3> HIDE DEF n
      <3> QED BY <1>1, <1>2, <2>2, <3>2 DEF NoSince
    <2> QED BY <2>3, <2>4
  <1>5. Range(lookup[r].facts) = {lookup[r].facts[i] : i \in 1..Len(lookup[r].facts)}
    BY <1>1, Lookups
  <1> HIDE DEF n
  <1> QED BY <1>4, <1>5
-----------------------------------------------------------------------------
\* A call that is sent, answered or followed by the next one.
LEMMA CallMoves ==
    ASSUME CInv, Grows, Truth', TypeOK', NoReply', Bounded', clock' = clock,
           UNCHANGED <<entries, lookup>>, NEW r \in Request,
           \A q \in Request \ {r} : /\ pc'[q] = pc[q] /\ index'[q] = index[q]
                                    /\ sent'[q] = sent[q] /\ reply'[q] = reply[q],
           Founded(r)'
    PROVE  CInv'
  <1>1. clock' >= clock
    BY DEF CInv, TypeOK, FactsOK
  <1>2. ASSUME NEW q \in Request, pc'[q] = "wait" PROVE Founded(q)'
    <2>1. CASE q = r
      BY <2>1
    <2>2. CASE q # r
      BY <1>1, <1>2, <2>2, KeepCall
    <2> QED BY <2>1, <2>2
  <1>3. EntriesFounded'
    <2> SUFFICES ASSUME NEW k \in DOMAIN entries'
                 PROVE  /\ entries'[k].answer = "yes" =>
                             \E f \in k.facts : YesSince(f, entries[k].expire - TTL - Timeout)'
                        /\ entries'[k].answer = "no" =>
                             \A f \in k.facts :
                                 NoSince(f, entries[k].expire - TTL - MaxFacts * Timeout)'
      BY DEF EntriesFounded
    <2> QED BY KeepEntries
  <1> QED BY <1>2, <1>3 DEF CInv, CallsFounded

LEMMA Preserved == ASSUME CInv, [Next]_vars PROVE CInv'
  <1>g. Grows /\ Truth' /\ TypeOK' /\ NoReply' /\ Bounded' /\ clock' >= clock
    BY GhostsGrow, TypesKept, NoReplyKept DEF CInv
  <1>t. /\ pc \in [Request -> {"idle", "get", "send", "wait", "done"}]
        /\ reply \in [Request -> {None, "yes", "no", "error"}]
        /\ index \in [Request -> Nat] /\ sent \in [Request -> Nat]
        /\ lookup \in [Request -> Lookup \cup {None}] /\ clock \in Nat
    BY DEF CInv, TypeOK, RequestsOK, FactsOK
  <1>1. ASSUME NEW r \in Request, Finish(r, outcome'[r]), UNCHANGED entries,
               \A q \in Request \ {r} : lookup'[q] = lookup[q]
        PROVE  CInv'
    BY <1>1, <1>g, <1>t, Frame DEF Finish
  <1>2. ASSUME NEW r \in Request,
               Get(r) \/ Arrive(r) \/ ReceiveError(r) \/ TimeOut(r) \/ Cancel(r)
        PROVE  CInv'
    <2>1. /\ UNCHANGED entries /\ \A q \in Request \ {r} : lookup'[q] = lookup[q]
          /\ pc'[r] # "wait"
          /\ \A q \in Request \ {r} :
                /\ pc'[q] = pc[q] /\ index'[q] = index[q]
                /\ sent'[q] = sent[q] /\ reply'[q] = reply[q]
      <3>1. CASE Get(r)
        <4>1. CASE Usable(Key(lookup[r]))
          <5>1. Finish(r, entries[Key(lookup[r])].answer) /\ UNCHANGED <<entries, lookup>>
            BY <3>1, <4>1 DEF Get
          <5> QED BY <1>t, <5>1 DEF Finish
        <4>2. CASE ~Usable(Key(lookup[r]))
          BY <1>t, <3>1, <4>2 DEF Get, calls
        <4> QED BY <4>1, <4>2
      <3>2. CASE Arrive(r)
        <4> PICK l \in Lookup :
              /\ lookup' = [lookup EXCEPT ![r] = l]
              /\ IF l.token = None \/ l.facts = <<>> THEN Finish(r, "no")
                 ELSE pc' = [pc EXCEPT ![r] = "get"] /\ UNCHANGED <<outcome, calls>>
          BY <3>2 DEF Arrive
        <4>1. UNCHANGED entries /\ \A q \in Request \ {r} : lookup'[q] = lookup[q]
          BY <1>t, <3>2 DEF Arrive
        <4>2. CASE Finish(r, "no")
          BY <1>t, <4>1, <4>2 DEF Finish
        <4>3. CASE pc' = [pc EXCEPT ![r] = "get"] /\ UNCHANGED calls
          BY <1>t, <4>1, <4>3 DEF calls
        <4> QED BY <4>2, <4>3
      <3>3. CASE ReceiveError(r) \/ TimeOut(r) \/ Cancel(r)
        <4>1. Finish(r, "error") /\ UNCHANGED <<entries, lookup>>
          BY <3>3 DEF ReceiveError, TimeOut, Cancel, GiveUp
        <4> QED BY <1>t, <4>1 DEF Finish
      <3> QED BY <1>2, <3>1, <3>2, <3>3
    <2> QED BY <1>g, <2>1, Frame
  <1>3. ASSUME NEW r \in Request, Send(r) PROVE CInv'
    <2>1. reply'[r] = None
      BY <1>3 DEF Send, CInv, NoReply
    <2>2. /\ sent'[r] = clock /\ index'[r] = 1 /\ clock' = clock
          /\ UNCHANGED <<entries, lookup>>
          /\ \A q \in Request \ {r} : /\ pc'[q] = pc[q] /\ index'[q] = index[q]
                                       /\ sent'[q] = sent[q] /\ reply'[q] = reply[q]
      BY <1>3, <1>t DEF Send
    <2>3. Founded(r)'
      <3>1. ~(reply'[r] = "yes") /\ ~(reply'[r] = "no")
        BY <2>1, AnswerCacheAssumption
      <3>2. sent'[r] <= clock'
        BY <1>t, <2>2
      <3>3. \A i \in 1..(index'[r] - 1) : FALSE
        BY <2>2
      <3> QED BY <3>1, <3>2, <3>3 DEF Founded
    <2> QED BY <1>g, <2>2, <2>3, CallMoves
  <1>4. ASSUME NEW r \in Request, Answer(r) PROVE CInv'
    <2>1. /\ pc[r] = "wait" /\ reply[r] = None /\ Current(r) \in Fact
          /\ lookup[r] \in Lookup /\ sent[r] <= clock /\ Founded(r)
      BY <1>4, Waiting DEF Answer, CInv, CallsFounded, Founded
    <2>2. /\ UNCHANGED <<clock, entries, lookup, pc, index, sent>>
          /\ \A q \in Request \ {r} : reply'[q] = reply[q]
      BY <1>4, <1>t DEF Answer
    <2>3. /\ reply'[r] = "yes" => holds[Current(r)] /\ lastYes' = lastYes
          /\ reply'[r] = "no" => \/ ~holds[Current(r)] /\ lastNo' = lastNo
                                 \/ lastNo'[Current(r)] = clock
      BY <1>4, <1>t, <2>1 DEF Answer, CInv, TypeOK, FactsOK
    <2>4. Current(r)' = Current(r)
      BY <2>2 DEF Current
    <2>5. \A i \in 1..(index[r] - 1) :
             NoSince(lookup[r].facts[i], sent[r] - (index[r] - 1) * Timeout)'
      <3>1. ASSUME NEW i \in 1..(index[r] - 1) PROVE lookup[r].facts[i] \in Fact
        BY <2>1, Waiting, Lookups DEF CInv
      <3>2. sent[r] - (index[r] - 1) * Timeout \in Int
        BY <2>1, Waiting DEF CInv
      <3> QED BY <1>g, <2>1, <2>2, <3>1, <3>2 DEF Founded, Grows, NoSince
    <2>6. /\ reply'[r] = "yes" => YesSince(Current(r), sent[r])'
          /\ reply'[r] = "no" => NoSince(Current(r), sent[r])'
      BY <1>t, <2>1, <2>2, <2>3, <2>4, AnswerCacheAssumption
         DEF YesSince, NoSince, CInv, Truth
    <2>7. Founded(r)'
      BY <2>1, <2>2, <2>5, <2>6 DEF Founded
    <2> QED BY <1>g, <2>2, <2>7, CallMoves
  <1>5. ASSUME NEW r \in Request, ReceiveYes(r) PROVE CInv'
    <2>1. /\ pc[r] = "wait" /\ reply[r] = "yes" /\ Set(r, "yes") /\ Finish(r, "yes")
          /\ UNCHANGED <<clock, facts, lookup>>
      BY <1>5 DEF ReceiveYes
    <2>2. Current(r) \in Range(lookup[r].facts) /\ Current(r) \in Fact
      BY <2>1, Waiting DEF CInv
    <2>3. YesSince(Current(r), sent[r])
      BY <2>1 DEF CInv, CallsFounded, Founded
    <2>4. YesSince(Current(r), clock - Timeout)
      BY <1>t, <2>1, <2>2, <2>3, Waiting, AnswerCacheAssumption
         DEF YesSince, CInv, TypeOK, FactsOK
    <2> QED BY <1>g, <2>1, <2>2, <2>4, FoundedEntry
  <1>6. ASSUME NEW r \in Request, ReceiveNo(r) PROVE CInv'
    <2>1. CASE Exhausted(r) /\ CacheNegatives
      BY <1>6, <1>g, <2>1, AllDenied, FoundedEntry DEF ReceiveNo
    <2>2. CASE Exhausted(r) /\ ~CacheNegatives
      <3>1. Finish(r, "no") /\ UNCHANGED <<entries, lookup>>
        BY <1>6, <2>2 DEF ReceiveNo
      <3> QED BY <1>g, <1>t, <3>1, Frame DEF Finish
    <2>3. CASE ~Exhausted(r)
      <3>1. /\ index' = [index EXCEPT ![r] = @ + 1]
            /\ sent' = [sent EXCEPT ![r] = clock]
            /\ reply' = [reply EXCEPT ![r] = None]
            /\ UNCHANGED <<entries, pc, clock, facts, lookup>>
            /\ pc[r] = "wait" /\ reply[r] = "no"
        BY <1>6, <2>3 DEF ReceiveNo
      <3>2. /\ index'[r] = index[r] + 1 /\ sent'[r] = clock /\ reply'[r] = None
            /\ \A q \in Request \ {r} : /\ pc'[q] = pc[q] /\ index'[q] = index[q]
                                         /\ sent'[q] = sent[q] /\ reply'[q] = reply[q]
        BY <1>t, <3>1
      <3>3. /\ Founded(r) /\ lookup[r] \in Lookup
            /\ index[r] \in Nat /\ index[r] >= 1 /\ index[r] <= Len(lookup[r].facts)
            /\ sent[r] \in Nat /\ clock <= sent[r] + Timeout
            /\ (index[r] - 1) * Timeout \in Nat
        BY <3>1, Waiting DEF CInv, CallsFounded
      <3>4. index[r] * Timeout = (index[r] - 1) * Timeout + Timeout /\ index[r] * Timeout \in Nat
        <4>1. index[r] - 1 \in Nat /\ (index[r] - 1) + 1 = index[r]
          BY <3>3
        <4>2. ((index[r] - 1) + 1) * Timeout = (index[r] - 1) * Timeout + Timeout
          BY <4>1, Products
        <4> QED BY <3>3, <4>1, <4>2, Products
      <3>m. ASSUME NEW a \in Nat, NEW b \in Nat, b = a + Timeout
            PROVE  clock - b <= sent[r] /\ clock - b <= sent[r] - a
        BY <1>t, <3>3, <3>m, AnswerCacheAssumption
      <3>5. ASSUME NEW i \in 1..index[r]
            PROVE  NoSince(lookup[r].facts[i], clock - index[r] * Timeout)
        <4>1. lookup[r].facts[i] \in Fact
          BY <3>3, Lookups
        <4>2. lastNo[lookup[r].facts[i]] # None => lastNo[lookup[r].facts[i]] \in Nat
          BY <4>1 DEF CInv, TypeOK, FactsOK
        <4>3. CASE i = index[r]
          <5>1. NoSince(lookup[r].facts[i], sent[r])
            BY <3>1, <3>3, <4>3 DEF Founded, Current
          <5>2. clock - index[r] * Timeout <= sent[r]
            BY <1>t, <3>3, <3>4, <3>m, AnswerCacheAssumption
          <5> QED BY <1>t, <3>3, <3>4, <4>2, <5>1, <5>2 DEF NoSince
        <4>4. CASE i # index[r]
          <5>1. i \in 1..(index[r] - 1)
            BY <3>3, <4>4
          <5>2. NoSince(lookup[r].facts[i], sent[r] - (index[r] - 1) * Timeout)
            BY <3>3, <5>1 DEF Founded
          <5>3. clock - index[r] * Timeout <= sent[r] - (index[r] - 1) * Timeout
            BY <1>t, <3>3, <3>4, <3>m, AnswerCacheAssumption
          <5> QED BY <1>t, <3>3, <3>4, <4>2, <5>2, <5>3 DEF NoSince
        <4> QED BY <4>3, <4>4
      <3>6. Founded(r)'
        <4>1. index'[r] - 1 = index[r]
          BY <3>2, <3>3
        <4>2. lastNo' = lastNo /\ clock' = clock /\ lookup' = lookup
          BY <3>1 DEF facts
        <4>3. ~(reply'[r] = "yes") /\ ~(reply'[r] = "no")
          BY <3>2, AnswerCacheAssumption
        <4>5. sent'[r] <= clock'
          BY <1>t, <3>2, <4>2
        <4>6. (\A i \in 1..(index[r] - 1) :
                  NoSince(lookup[r].facts[i], sent[r] - (index[r] - 1) * Timeout))'
          <5>1. ASSUME NEW i \in 1..index[r]
                PROVE  /\ lastNo'[lookup'[r].facts[i]] # None
                       /\ lastNo'[lookup'[r].facts[i]] >= clock - index[r] * Timeout
            BY <3>5, <4>2 DEF NoSince
          <5> QED BY <3>2, <4>1, <5>1 DEF NoSince
        <4> QED BY <4>3, <4>5, <4>6 DEF Founded
      <3> QED BY <1>g, <3>1, <3>2, <3>6, CallMoves
    <2> QED BY <2>1, <2>2, <2>3
  <1>7. CASE Evict
    BY <1>7, <1>g, Frame DEF Evict, Restrict, calls
  <1>8. CASE Stop \/ Close \/ Tick \/ (\E f \in Fact : Change(f)) \/ UNCHANGED vars
    BY <1>8, <1>g, Frame DEF Stop, Close, Tick, Change, vars, calls
  <1> QED BY <1>2, <1>3, <1>4, <1>5, <1>6, <1>7, <1>8 DEF Next, Serve, Receive
-----------------------------------------------------------------------------
\* Entries and pending calls rest on what the server answered.
THEOREM CacheInvariant == Spec => []CInv
  <1>1. Init => CInv
    BY Initially
  <1>2. CInv /\ [Next]_vars => CInv'
    BY Preserved
  <1> QED BY <1>1, <1>2, PTL DEF Spec

\* Keys come from lookups, and a waiting call is never older than its timeout.
THEOREM CacheTypes == Spec => []TypeOK
  <1>1. CInv => TypeOK
    BY DEF CInv
  <1> QED BY <1>1, CacheInvariant, PTL

\* The cache holds at most Max entries, however many requests fill it at once.
THEOREM CacheBounded == Spec => []Bounded
  <1>1. CInv => Bounded
    BY DEF CInv
  <1> QED BY <1>1, CacheInvariant, PTL

\* What a step does that answers a request.
LEMMA Answers ==
    ASSUME CInv, [Next]_vars, NEW r \in Request, outcome'[r] # outcome[r]
    PROVE  \/ Arrive(r) /\ outcome'[r] = "no"
           \/ Get(r) /\ Finish(r, entries[Key(lookup[r])].answer) /\ Usable(Key(lookup[r]))
           \/ ReceiveYes(r) /\ outcome'[r] = "yes"
           \/ ReceiveNo(r) /\ Exhausted(r) /\ outcome'[r] = "no"
           \/ outcome'[r] = "error"
  <1>o. outcome \in [Request -> {"none", "yes", "no", "error"}]
    BY DEF CInv, TypeOK, RequestsOK
  <1>1. PICK q \in Request : Arrive(q) \/ Serve(q) \/ Answer(q) \/ Cancel(q)
    BY DEF Next, Change, Evict, Stop, Close, Tick, vars
  <1>2. ASSUME NEW o \in {"yes", "no", "error"}, Finish(q, o)
        PROVE  q = r /\ outcome'[r] = o
    BY <1>o, <1>2 DEF Finish
  <1>3. CASE Arrive(q)
    <2>1. UNCHANGED outcome \/ Finish(q, "no")
      BY <1>3 DEF Arrive
    <2>2. Finish(q, "no")
      BY <2>1
    <2>3. q = r /\ outcome'[r] = "no"
      BY <1>2, <2>2
    <2> QED BY <1>3, <2>3
  <1>4. CASE Get(q)
    <2>1. CASE Usable(Key(lookup[q]))
      <3>1. Finish(q, entries[Key(lookup[q])].answer)
        BY <1>4, <2>1 DEF Get
      <3>2. entries[Key(lookup[q])].answer \in {"yes", "no"}
        BY <2>1 DEF Usable, CInv, TypeOK, EntriesOK
      <3>3. q = r
        BY <1>2, <3>1, <3>2
      <3> QED BY <1>4, <2>1, <3>1, <3>3
    <2>2. CASE ~Usable(Key(lookup[q]))
      BY <1>4, <2>2 DEF Get
    <2> QED BY <2>1, <2>2
  <1>5. CASE ReceiveYes(q)
    BY <1>2, <1>5 DEF ReceiveYes
  <1>6. CASE ReceiveNo(q)
    BY <1>2, <1>6 DEF ReceiveNo
  <1>7. CASE ReceiveError(q) \/ TimeOut(q) \/ Cancel(q)
    BY <1>2, <1>7 DEF ReceiveError, TimeOut, Cancel, GiveUp
  <1>8. CASE Send(q) \/ Answer(q)
    BY <1>8 DEF Send, Answer
  <1> QED BY <1>1, <1>3, <1>4, <1>5, <1>6, <1>7, <1>8 DEF Serve, Receive

\* An admitted request relied on a fact true at most a TTL and one timeout ago,
\* for every interleaving of the requests that fill the cache.
THEOREM PositivesAreFresh == Spec => YesIsFresh
  <1> DEFINE Fresh(r) == \E f \in Range(lookup[r].facts) :
                            lastYes[f] # None /\ lastYes[f] + TTL + Timeout >= clock
  <1>1. ASSUME CInv, [Next]_vars, NEW r \in Request, outcome[r] = "none", outcome'[r] = "yes"
        PROVE  Fresh(r)
    <2>t. clock \in Nat /\ TTL \in Nat /\ Timeout \in Nat
      BY <1>1, AnswerCacheAssumption DEF CInv, TypeOK, FactsOK
    <2>1. CASE /\ Get(r) /\ Usable(Key(lookup[r]))
               /\ Finish(r, entries[Key(lookup[r])].answer)
      <3> DEFINE k == Key(lookup[r])
      <3>1. /\ k \in DOMAIN entries /\ clock <= entries[k].expire
            /\ entries[k].expire \in Nat /\ lookup[r] \in Lookup
        BY <1>1, <2>1 DEF Usable, Get, CInv, TypeOK, EntriesOK, LookupsOK
      <3>2. outcome \in [Request -> {"none", "yes", "no", "error"}]
        BY <1>1 DEF CInv, TypeOK, RequestsOK
      <3>3. entries[k].answer = "yes"
        BY <1>1, <2>1, <3>2 DEF Finish
      <3>4. PICK f \in k.facts : YesSince(f, entries[k].expire - TTL - Timeout)
        BY <1>1, <3>1, <3>3 DEF CInv, EntriesFounded
      <3>5. f \in Fact /\ f \in Range(lookup[r].facts)
        BY <3>1, <3>4, Lookups
      <3>6. lastYes[f] # None /\ lastYes[f] \in Nat
        BY <1>1, <3>4, <3>5 DEF YesSince, CInv, TypeOK, FactsOK
      <3>7. lastYes[f] >= entries[k].expire - TTL - Timeout
        BY <3>4 DEF YesSince
      <3> HIDE DEF k
      <3>8. lastYes[f] + TTL + Timeout >= clock
        BY <2>t, <3>1, <3>6, <3>7
      <3> QED BY <3>5, <3>6, <3>8
    <2>2. CASE ReceiveYes(r)
      <3>1. pc[r] = "wait" /\ reply[r] = "yes"
        BY <2>2 DEF ReceiveYes
      <3>2. Current(r) \in Fact /\ sent[r] \in Nat /\ clock <= sent[r] + Timeout
        BY <1>1, <3>1, Waiting DEF CInv
      <3>3. Current(r) \in Range(lookup[r].facts)
        BY <1>1, <3>1, Waiting DEF CInv
      <3>4. YesSince(Current(r), sent[r])
        BY <1>1, <3>1 DEF CInv, CallsFounded, Founded
      <3>5. lastYes[Current(r)] # None /\ lastYes[Current(r)] \in Nat
        BY <1>1, <3>2, <3>4 DEF YesSince, CInv, TypeOK, FactsOK
      <3>6. lastYes[Current(r)] + TTL + Timeout >= clock
        BY <2>t, <3>2, <3>4, <3>5 DEF YesSince
      <3> QED BY <3>3, <3>5, <3>6
    <2> QED BY <1>1, <2>1, <2>2, Answers
  <1>2. CInv /\ [Next]_vars =>
          [\A r \in Request : (outcome[r] = "none" /\ outcome'[r] = "yes") =>
               \E f \in Range(lookup[r].facts) :
                   lastYes[f] # None /\ lastYes[f] + TTL + Timeout >= clock]_vars
    BY <1>1
  <1> QED BY <1>2, CacheInvariant, PTL DEF Spec, YesIsFresh

\* A request turned away had every fact of its lookup denied by the server within
\* a TTL and one timeout per fact: nothing else makes a no, a failed call included.
THEOREM NegativesAreFounded == Spec => NoIsFounded
  <1> DEFINE Recent(r) == \A f \in Range(lookup[r].facts) :
                 lastNo[f] # None /\ lastNo[f] + TTL + MaxFacts * Timeout >= clock
  <1>1. ASSUME CInv, [Next]_vars, NEW r \in Request, pc[r] # "idle",
               outcome[r] = "none", outcome'[r] = "no"
        PROVE  Recent(r)
    <2>t. clock \in Nat /\ TTL \in Nat /\ MaxFacts * Timeout \in Nat
      BY <1>1, Products, AnswerCacheAssumption DEF CInv, TypeOK, FactsOK
    <2>s. ASSUME NEW f \in Fact, NEW t \in Int, NoSince(f, t),
                 t + TTL + MaxFacts * Timeout >= clock
          PROVE  lastNo[f] # None /\ lastNo[f] + TTL + MaxFacts * Timeout >= clock
      <3>1. lastNo[f] # None /\ lastNo[f] \in Nat /\ lastNo[f] >= t
        BY <1>1, <2>s DEF NoSince, CInv, TypeOK, FactsOK
      <3>2. ASSUME NEW a \in Nat PROVE a = MaxFacts * Timeout => lastNo[f] + TTL + a >= clock
        BY <2>t, <2>s, <3>1
      <3> QED BY <2>t, <3>1, <3>2
    <2>1. CASE /\ Get(r) /\ Usable(Key(lookup[r]))
               /\ Finish(r, entries[Key(lookup[r])].answer)
      <3> DEFINE k == Key(lookup[r])
      <3>1. /\ k \in DOMAIN entries /\ clock <= entries[k].expire
            /\ entries[k].expire \in Nat /\ lookup[r] \in Lookup
        BY <1>1, <2>1 DEF Usable, Get, CInv, TypeOK, EntriesOK, LookupsOK
      <3>2. outcome \in [Request -> {"none", "yes", "no", "error"}]
        BY <1>1 DEF CInv, TypeOK, RequestsOK
      <3>3. entries[k].answer = "no"
        BY <1>1, <2>1, <3>2 DEF Finish
      <3>4. \A f \in k.facts : NoSince(f, entries[k].expire - TTL - MaxFacts * Timeout)
        BY <1>1, <3>1, <3>3 DEF CInv, EntriesFounded
      <3>5. k.facts = Range(lookup[r].facts) /\ \A f \in k.facts : f \in Fact
        BY <3>1, Lookups
      <3>6. /\ entries[k].expire - TTL - MaxFacts * Timeout \in Int
            /\ (entries[k].expire - TTL - MaxFacts * Timeout) + TTL + MaxFacts * Timeout >= clock
        <4>1. ASSUME NEW a \in Nat, NEW e \in Nat, clock <= e
              PROVE  e - TTL - a \in Int /\ (e - TTL - a) + TTL + a >= clock
          BY <2>t, <4>1
        <4> HIDE DEF k
        <4> QED BY <2>t, <3>1, <4>1
      <3> HIDE DEF k
      <3> QED BY <2>s, <3>4, <3>5, <3>6
    <2>2. CASE ReceiveNo(r) /\ Exhausted(r)
      <3>1. pc[r] = "wait" /\ reply[r] = "no"
        BY <2>2 DEF ReceiveNo
      <3>2. \A f \in Range(lookup[r].facts) : NoSince(f, clock - MaxFacts * Timeout)
        BY <1>1, <2>2, <3>1, AllDenied
      <3>3. \A f \in Range(lookup[r].facts) : f \in Fact
        <4>1. lookup[r] \in Lookup
          BY <1>1, <3>1, Waiting DEF CInv
        <4>2. /\ Key(lookup[r]).facts = Range(lookup[r].facts)
              /\ \A f \in Key(lookup[r]).facts : f \in Fact
          BY <4>1, Lookups
        <4> QED BY <4>2
      <3>4. /\ clock - MaxFacts * Timeout \in Int
            /\ (clock - MaxFacts * Timeout) + TTL + MaxFacts * Timeout >= clock
        BY <2>t
      <3> QED BY <2>s, <3>2, <3>3, <3>4
    <2>3. ~Arrive(r)
      BY <1>1 DEF Arrive
    <2> QED BY <1>1, <2>1, <2>2, <2>3, Answers
  <1>2. CInv /\ [Next]_vars =>
          [\A r \in Request : (pc[r] # "idle" /\ outcome[r] = "none" /\ outcome'[r] = "no") =>
               \A f \in Range(lookup[r].facts) :
                   lastNo[f] # None /\ lastNo[f] + TTL + MaxFacts * Timeout >= clock]_vars
    BY <1>1
  <1> QED BY <1>2, CacheInvariant, PTL DEF Spec, NoIsFounded
=============================================================================
