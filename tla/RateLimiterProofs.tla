-------------------------- MODULE RateLimiterProofs --------------------------
(***************************************************************************)
(* For any number of calls and keys, any cooldown and any delays up to the *)
(* grace: calls allowed for one key are a cooldown apart, although entries *)
(* are swept from the map while calls are in flight.                       *)
(***************************************************************************)
EXTENDS RateLimiter, TLAPS

\* A call in flight is no older than MaxDelay.
InTime == \A c \in InFlight : clock <= now[c] + MaxDelay

\* A call about to swap is past the cooldown of the entry it has loaded.
SwapperIsPast ==
    \A c \in Call : pc[c] = "swap" => prev[c] # None /\ now[c] - prev[c] >= Cooldown

\* What a sweep may delete is past its cooldown and the grace.
SweepIsLate ==
    /\ loop \in {"sweep", "delete"} => cutoff + Cooldown + Grace <= clock
    /\ loop = "delete" => victim.stamp < cutoff

LInv == TypeOK /\ InTime /\ SwapperIsPast /\ SweepIsLate /\ EntryIsLatest /\ Spacing
-----------------------------------------------------------------------------
\* The limiter starts with an empty map.
LEMMA InitLInv == Init => LInv
<1> SUFFICES ASSUME Init PROVE LInv
  OBVIOUS
<1> USE LimiterAssumption DEF Init
<1>1. 0 \in Time /\ clock = 0 /\ last \in [Key -> {None}] /\ now \in [Call -> {0}]
  BY DEF Time
<1>2. TypeOK
  <2>1. last \in [Key -> Stamp \cup {None}] /\ now \in [Call -> Stamp]
    BY <1>1 DEF Stamp
  <2>2. \A c \in Call : now[c] <= clock
    BY <1>1
  <2>3. key \in [Call -> Key \cup {None}] /\ prev \in [Call -> Stamp \cup {None}]
    OBVIOUS
  <2>4. /\ pc \in [Call -> {"idle", "exempt", "store", "swap", "allowed", "denied"}]
        /\ \A c \in Call : pc[c] = "idle"
    OBVIOUS
  <2>5. \A k \in Key : last[k] = None
    OBVIOUS
  <2>6. /\ loop \in {"select", "sweep", "delete", "stopped"} /\ loop # "delete"
        /\ cutoff \in Int /\ sweep \subseteq Key
    OBVIOUS
  <2>7. tick \in BOOLEAN /\ done \in BOOLEAN
    BY Zenon
  <2> HIDE DEF Init
  <2> QED
    BY <1>1, <2>1, <2>2, <2>3, <2>4, <2>5, <2>6, <2>7 DEF TypeOK
<1> QED
  BY <1>2 DEF LInv, InTime, InFlight, SwapperIsPast, SweepIsLate, EntryIsLatest, Spacing,
     Allowed

\* A call that stores its stamp is allowed: every call allowed before it for the
\* key lies a cooldown back.
LEMMA AllowedStep ==
    ASSUME LInv, NEW c \in Call, pc[c] \in {"store", "swap"},
           Goto(c, "allowed"), last' = [last EXCEPT ![key[c]] = now[c]],
           UNCHANGED <<clock, key, now, prev, evictor, tick, done>>,
           \A d \in Allowed(key[c]) : now[c] - now[d] >= Cooldown
    PROVE  LInv'
<1> USE LimiterAssumption DEF Goto, evictor
<1>1. /\ key[c] \in Key /\ now[c] \in Int /\ now[c] <= clock /\ clock \in Int
      /\ Cooldown \in Nat /\ Cooldown > 0
      /\ \A d \in Call : now[d] \in Int
  BY DEF LInv, TypeOK, Time, Stamp
<1>2. /\ pc'[c] = "allowed" /\ \A d \in Call \ {c} : pc'[d] = pc[d]
      /\ last'[key[c]] = now[c] /\ \A k \in Key \ {key[c]} : last'[k] = last[k]
  BY <1>1 DEF LInv, TypeOK
<1>3. TypeOK'
  BY <1>1, <1>2 DEF LInv, TypeOK
<1>4. InTime' /\ SwapperIsPast' /\ SweepIsLate'
  BY <1>2 DEF LInv, InTime, InFlight, SwapperIsPast, SweepIsLate
<1>5. \A k \in Key : \A d \in Allowed(k)' : (d = c /\ k = key[c]) \/ d \in Allowed(k)
  BY <1>2 DEF Allowed
<1>6. EntryIsLatest'
  <2> SUFFICES ASSUME NEW k \in Key, NEW d \in Allowed(k)'
               PROVE  IF last'[k] = None THEN now'[d] + Cooldown + Grace < clock'
                                         ELSE now'[d] <= last'[k]
    BY DEF EntryIsLatest
  <2>1. now[c] # None
    BY <1>1
  <2>2. CASE k = key[c]
    <3>1. d = c \/ now[c] - now[d] >= Cooldown
      BY <1>5, <2>2
    <3>2. now[d] <= now[c]
      BY <3>1, <1>1 DEF Allowed
    <3> QED
      BY <2>1, <2>2, <3>2, <1>2
  <2>3. CASE k # key[c]
    <3>1. d \in Allowed(k) /\ last'[k] = last[k]
      BY <1>2, <1>5, <2>3
    <3> QED
      BY <3>1 DEF LInv, EntryIsLatest
  <2> QED
    BY <2>2, <2>3
<1>7. Spacing'
  <2> SUFFICES ASSUME NEW k \in Key, NEW d \in Allowed(k)', NEW e \in Allowed(k)', d # e
               PROVE  now[d] - now[e] >= Cooldown \/ now[e] - now[d] >= Cooldown
    BY DEF Spacing
  <2>1. CASE d \in Allowed(k) /\ e \in Allowed(k)
    BY <2>1 DEF LInv, Spacing
  <2>2. CASE d = c /\ k = key[c] /\ e \in Allowed(k)
    BY <2>2
  <2>3. CASE e = c /\ k = key[c] /\ d \in Allowed(k)
    BY <2>3
  <2> QED
    BY <1>5, <2>1, <2>2, <2>3
<1> QED
  BY <1>3, <1>4, <1>6, <1>7 DEF LInv

\* A call moves without being allowed, and leaves the map alone.
LEMMA CallStep ==
    ASSUME LInv, NEW c \in Call, pc[c] # "allowed",
           NEW label \in {"exempt", "store", "swap", "denied"}, Goto(c, label),
           UNCHANGED <<clock, last, evictor, tick, done>>,
           TypeOK', InTime', SwapperIsPast',
           \A d \in Call : pc[d] = "allowed" => now'[d] = now[d] /\ key'[d] = key[d]
    PROVE  LInv'
<1> USE DEF Goto, evictor
<1>1. \A k \in Key : Allowed(k)' = Allowed(k)
  BY DEF LInv, TypeOK, Allowed
<1>2. \A k \in Key : \A d \in Allowed(k) : now'[d] = now[d]
  BY DEF Allowed
<1>3. EntryIsLatest'
  BY <1>1, <1>2 DEF LInv, EntryIsLatest
<1>4. Spacing'
  BY <1>1, <1>2 DEF LInv, Spacing
<1>5. SweepIsLate'
  BY DEF LInv, SweepIsLate
<1> QED
  BY <1>3, <1>4, <1>5 DEF LInv

\* A call begins.
LEMMA BeginStep == ASSUME LInv, NEW c \in Call, Begin(c) PROVE LInv'
<1> USE LimiterAssumption DEF Begin, Goto, evictor
<1>1. CASE pc' = [pc EXCEPT ![c] = "exempt"] /\ UNCHANGED <<key, now>>
  <2>1. TypeOK'
    BY <1>1 DEF LInv, TypeOK
  <2>2. InTime' /\ SwapperIsPast'
    BY <1>1 DEF LInv, TypeOK, InTime, InFlight, SwapperIsPast
  <2> QED
    BY <1>1, <2>1, <2>2, CallStep
<1>2. ASSUME NEW k \in Key, pc' = [pc EXCEPT ![c] = "store"],
             key' = [key EXCEPT ![c] = k], now' = [now EXCEPT ![c] = clock]
      PROVE  LInv'
  <2>1. TypeOK'
    BY <1>2 DEF LInv, TypeOK, Time, Stamp
  <2>2. /\ pc'[c] = "store" /\ now'[c] = clock /\ clock \in Int
        /\ \A d \in Call \ {c} : pc'[d] = pc[d] /\ now'[d] = now[d] /\ key'[d] = key[d]
    BY <1>2 DEF LInv, TypeOK, Time
  <2>3. InTime'
    BY <2>2 DEF LInv, InTime, InFlight
  <2>4. SwapperIsPast'
    BY <2>2 DEF LInv, SwapperIsPast
  <2> QED
    BY <1>2, <2>1, <2>2, <2>3, <2>4, CallStep
<1> QED
  BY <1>1, <1>2

\* A call on its way: allowed by an empty entry or by an unchanged one, denied, or
\* on to its swap.
LEMMA AllowStep == ASSUME LInv, NEW c \in Call, Allow(c) PROVE LInv'
<1> USE LimiterAssumption
<1>1. /\ key[c] \in Key /\ now[c] \in Int /\ clock \in Int
      /\ Cooldown \in Nat /\ Grace \in Nat /\ MaxDelay \in Nat
      /\ \A d \in Call : now[d] \in Int
  BY DEF LInv, TypeOK, Time, Stamp, Allow, Store, Load, Swap
<1>2. CASE Store(c)
  <2>1. ASSUME NEW d \in Allowed(key[c]) PROVE now[c] - now[d] >= Cooldown
    <3>1. now[d] + Cooldown + Grace < clock
      BY <1>1, <1>2 DEF LInv, EntryIsLatest, Store
    <3>2. clock <= now[c] + MaxDelay
      BY <1>2 DEF LInv, InTime, InFlight, Store
    <3>3. now[d] \in Int
      BY <1>1 DEF Allowed
    <3> QED
      BY <1>1, <3>1, <3>2, <3>3, ShortRequests
  <2> QED
    BY <1>2, <2>1, AllowedStep DEF Store
<1>3. CASE Swap(c) /\ last[key[c]] = prev[c]
  <2>1. ASSUME NEW d \in Allowed(key[c]) PROVE now[c] - now[d] >= Cooldown
    <3>1. prev[c] # None /\ now[c] - prev[c] >= Cooldown /\ prev[c] \in Int
      BY <1>3 DEF LInv, SwapperIsPast, Swap, TypeOK, Time, Stamp
    <3>2. now[d] <= prev[c]
      BY <1>1, <1>3, <3>1 DEF LInv, EntryIsLatest
    <3>3. now[d] \in Int
      BY <1>1 DEF Allowed
    <3> QED
      BY <1>1, <3>1, <3>2, <3>3
  <2> QED
    BY <1>3, <2>1, AllowedStep DEF Swap
<1>4. CASE Swap(c) /\ last[key[c]] # prev[c]
  <2> USE <1>4 DEF Swap, Goto, evictor
  <2>1. TypeOK'
    BY DEF LInv, TypeOK
  <2>2. InTime' /\ SwapperIsPast'
    BY DEF LInv, TypeOK, InTime, InFlight, SwapperIsPast
  <2> QED
    BY <2>1, <2>2, CallStep
<1>5. CASE Load(c)
  <2> USE <1>5 DEF Load, Goto, evictor
  <2>1. last[key[c]] \in Stamp /\ last[key[c]] \in Int
    BY <1>1 DEF LInv, TypeOK, Stamp, Time
  <2>2. TypeOK'
    BY <2>1 DEF LInv, TypeOK
  <2>3. /\ prev'[c] = last[key[c]] /\ prev'[c] # None
        /\ \A d \in Call \ {c} : pc'[d] = pc[d] /\ prev'[d] = prev[d]
        /\ pc'[c] = IF now[c] - last[key[c]] < Cooldown THEN "denied" ELSE "swap"
    BY <2>1 DEF LInv, TypeOK
  <2>4. InTime'
    BY <2>3 DEF LInv, InTime, InFlight
  <2>5. SwapperIsPast'
    BY <1>1, <2>1, <2>3 DEF LInv, SwapperIsPast
  <2> QED
    BY <2>2, <2>4, <2>5, CallStep
<1> QED
  BY <1>2, <1>3, <1>4, <1>5 DEF Allow

\* The goroutine deletes an entry only when no call in flight can need it.
LEMMA EvictStep == ASSUME LInv, Evict PROVE LInv'
<1> USE LimiterAssumption DEF call
<1>0. clock \in Int /\ Cooldown \in Nat /\ Grace \in Nat
  BY DEF LInv, TypeOK, Time
<1>1. CASE StartSweep \/ EndSweep \/ Stop
  <2> USE <1>1 DEF StartSweep, EndSweep, Stop
  <2>1. TypeOK'
    <3>1. clock - (Cooldown + Grace) \in Int
      BY <1>0
    <3>2. loop' \in {"select", "sweep", "stopped"} /\ cutoff' \in Int
          /\ sweep' \subseteq Key /\ tick' \in BOOLEAN
      BY <3>1 DEF LInv, TypeOK
    <3> QED
      BY <3>2 DEF LInv, TypeOK
  <2>2. InTime' /\ SwapperIsPast' /\ EntryIsLatest' /\ Spacing'
    BY DEF LInv, InTime, InFlight, SwapperIsPast, EntryIsLatest, Spacing, Allowed
  <2>3. SweepIsLate'
    BY <1>0 DEF LInv, SweepIsLate
  <2> QED
    BY <2>1, <2>2, <2>3 DEF LInv
<1>2. ASSUME NEW k \in Key, Visit(k) PROVE LInv'
  <2> USE <1>2 DEF Visit
  <2>1. TypeOK'
    <3>1. loop' = "delete" => victim' \in [key : Key, stamp : Stamp]
      BY DEF LInv, TypeOK
    <3>2. loop' \in {"select", "sweep", "delete", "stopped"} /\ sweep' \subseteq Key
      BY DEF LInv, TypeOK
    <3> QED
      BY <3>1, <3>2 DEF LInv, TypeOK
  <2>2. InTime' /\ SwapperIsPast' /\ EntryIsLatest' /\ Spacing'
    BY DEF LInv, InTime, InFlight, SwapperIsPast, EntryIsLatest, Spacing, Allowed
  <2>3. SweepIsLate'
    BY <1>0 DEF LInv, SweepIsLate
  <2> QED
    BY <2>1, <2>2, <2>3 DEF LInv
<1>3. CASE CompareAndDelete
  <2> USE <1>3 DEF CompareAndDelete
  <2>1. victim.key \in Key /\ victim.stamp \in Int /\ cutoff \in Int
    BY DEF LInv, TypeOK, Stamp, Time
  <2>2. TypeOK'
    BY <2>1 DEF LInv, TypeOK
  <2>3. InTime' /\ SwapperIsPast' /\ Spacing' /\ SweepIsLate'
    BY DEF LInv, InTime, InFlight, SwapperIsPast, Spacing, Allowed, SweepIsLate
  <2>4. EntryIsLatest'
    <3> SUFFICES ASSUME NEW k \in Key, NEW c \in Allowed(k)
                 PROVE  IF last'[k] = None THEN now[c] + Cooldown + Grace < clock
                                           ELSE now[c] <= last'[k]
      BY DEF EntryIsLatest, Allowed
    <3>1. CASE last'[k] = last[k]
      BY <3>1 DEF LInv, EntryIsLatest
    <3>2. CASE last'[k] # last[k]
      <4>1. k = victim.key /\ last[k] = victim.stamp /\ last'[k] = None
        BY <2>1, <3>2 DEF LInv, TypeOK
      <4>2. now[c] <= victim.stamp
        BY <2>1, <4>1 DEF LInv, EntryIsLatest
      <4>3. victim.stamp < cutoff /\ cutoff + Cooldown + Grace <= clock
        BY DEF LInv, SweepIsLate
      <4>4. now[c] \in Int
        BY DEF LInv, TypeOK, Allowed, Stamp, Time
      <4> QED
        BY <1>0, <2>1, <4>1, <4>2, <4>3, <4>4
    <3> QED
      BY <3>1, <3>2
  <2> QED
    BY <2>2, <2>3, <2>4 DEF LInv
<1> QED
  BY <1>1, <1>2, <1>3 DEF Evict

\* Time passes.
LEMMA AdvanceStep == ASSUME LInv, Advance PROVE LInv'
<1> USE LimiterAssumption DEF Advance, call, evictor
<1>1. /\ clock \in Int /\ Cooldown \in Nat /\ Grace \in Nat /\ MaxDelay \in Nat
      /\ \A c \in Call : now[c] \in Int
      /\ \A k \in Key : last[k] = None \/ last[k] \in Int
  BY DEF LInv, TypeOK, Time, Stamp
<1>2. TypeOK'
  <2>1. clock' \in Time /\ clock' > clock /\ tick' \in BOOLEAN
    BY <1>1 DEF LInv, TypeOK, Time
  <2> QED
    BY <1>1, <2>1 DEF LInv, TypeOK
<1>3. InTime'
  BY <1>1 DEF LInv, InTime, InFlight
<1>4. SwapperIsPast' /\ Spacing'
  BY DEF LInv, SwapperIsPast, Spacing, Allowed
<1>5. SweepIsLate'
  BY <1>1 DEF LInv, SweepIsLate, TypeOK
<1>6. EntryIsLatest'
  BY <1>1 DEF LInv, EntryIsLatest, Allowed
<1> QED
  BY <1>2, <1>3, <1>4, <1>5, <1>6 DEF LInv

\* Every step keeps the invariant.
LEMMA InductiveLInv == LInv /\ [Next]_vars => LInv'
<1> SUFFICES ASSUME LInv, [Next]_vars PROVE LInv'
  OBVIOUS
<1>1. CASE UNCHANGED vars \/ Close
  <2> USE <1>1 DEF vars, call, evictor, Close
  <2>1. TypeOK'
    BY DEF LInv, TypeOK
  <2> QED
    BY <2>1 DEF LInv, InTime, InFlight, SwapperIsPast, SweepIsLate, EntryIsLatest,
       Spacing, Allowed
<1> QED
  BY <1>1, BeginStep, AllowStep, EvictStep, AdvanceStep DEF Next, Quiet

\* The inductive invariant holds in every reachable state.
THEOREM LimiterInvariant == Spec => []LInv
BY InitLInv, InductiveLInv, PTL DEF Spec

\* rate_limit.go's Allow: two calls allowed for one key are a cooldown apart, for
\* every cooldown, as long as calls take no longer than the grace of the sweep.
THEOREM LimiterSpacing == Spec => []Spacing
<1>1. LInv => Spacing
  BY DEF LInv
<1> QED
  BY <1>1, LimiterInvariant, PTL

\* An entry is swept only after its cooldown and the grace; one that is present is
\* the stamp of the latest allowed call.
THEOREM LimiterRemembers == Spec => []EntryIsLatest
<1>1. LInv => EntryIsLatest
  BY DEF LInv
<1> QED
  BY <1>1, LimiterInvariant, PTL
=============================================================================
