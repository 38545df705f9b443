---------------------------- MODULE AccessProofs ----------------------------
(***************************************************************************)
(* However old the answers in the caches are and however the facts change  *)
(* between the gates of a request, what it is granted was once its due.    *)
(* A fact that was granted on is dated: it holds, or has changed since a   *)
(* time that the expiry of an entry, the sending of a call or the          *)
(* beginning of the request gives (RecentIn).  Time moves these dates      *)
(* from calls to entries and from entries to requests, losing at most a    *)
(* TTL and a timeout on the way (Weaker).                                  *)
(***************************************************************************)
EXTENDS Access, TLAPS

\* Given the facts h and the times fl of their changes: f is true, or was so at some time
\* since at, if w is added to what is known; f has been true all the time since at - w.
RecentIn(h, fl, f, at, w) == f \in h \/ (f \in DOMAIN fl /\ fl[f] + w >= at)
SteadyIn(h, fl, f, at, w) == f \in h /\ (f \in DOMAIN fl => fl[f] + w < at)

\* What verify says of a token: the uids it acts for, the owner and the space of a bot.
\* The uids are right, none left out that the token has acted for all the time; so are
\* the owner and the space, if there is one, and none is said if there has been none.
IdentifiesIn(h, fl, t, id, at, w) ==
    /\ id[1] \subseteq Uid /\ id[1] # {} /\ (t \in Bots => id[1] = {Self[t]})
    /\ \A u \in id[1] : /\ RecentIn(h, fl, Acts(t, u), at, w)
                        /\ RecentIn(h, fl, Acts(t, Self[t]), at, w)
    /\ \A u \in Uid : (/\ SteadyIn(h, fl, Acts(t, Self[t]), at, w)
                       /\ SteadyIn(h, fl, Acts(t, u), at, w)
                       /\ t \in Bots => u = Self[t]) => u \in id[1]
    /\ id[2] \in Uid \cup {None} /\ id[3] \in Space \cup {None}
    /\ id[2] # None => t \in Bots /\ RecentIn(h, fl, Owns(t, id[2]), at, w)
    /\ id[3] # None => t \in Bots /\ RecentIn(h, fl, Home(t, id[3]), at, w)
    /\ (id[3] = None /\ t \in Bots) =>
           \A s \in Space : ~SteadyIn(h, fl, Home(t, s), at, w)

\* The key's question was rightly answered with yes: for a space by the answer to some
\* token of the same beginning, for a channel by that about some uid of the key.
SpaceIn(h, fl, k, at, w) ==
    /\ k[1] = "space" /\ k[4] \in Space
    /\ \E t \in Token : Prefix[t] = k[2] /\ RecentIn(h, fl, In(t, k[4]), at, w)

MemberIn(h, fl, k, at, w) ==
    /\ k[1] = "member" /\ k[4] \in Channel
    /\ \E u \in Uid : u \in k[3] /\ RecentIn(h, fl, Member(u, k[4]), at, w)

AssignedIn(h, fl, us, at) ==
    \E u \in Uid : u \in us /\ (u = Creator \/ RecentIn(h, fl, Assignee(u), at, 0))

RoleIn(h, fl, us, at) ==
    \E u \in Uid : /\ u \in us
                   /\ \/ u = Creator \/ RecentIn(h, fl, Assignee(u), at, 0)
                      \/ RecentIn(h, fl, Participant(u), at, 0)

\* From h and fl to h2 and fl2 a fact changes at the time c, if it changes at all.
Moves(h, fl, h2, fl2, c) ==
    /\ c \in Nat /\ \A f \in DOMAIN fl : fl[f] \in Nat /\ fl[f] <= c
    /\ \A f \in Fact :
         \/ /\ f \in h2 <=> f \in h
            /\ f \in DOMAIN fl2 <=> f \in DOMAIN fl
            /\ f \in DOMAIN fl => fl2[f] = fl[f]
         \/ f \in DOMAIN fl2 /\ fl2[f] = c
-----------------------------------------------------------------------------
LEMMA Facts ==
    /\ \A t \in Token, u \in Uid : Acts(t, u) \in Fact
    /\ \A t \in Bots, u \in Uid : Owns(t, u) \in Fact
    /\ \A t \in Bots, s \in Space : Home(t, s) \in Fact
    /\ \A t \in Token, s \in Space : In(t, s) \in Fact
    /\ \A u \in Uid, c \in Channel : Member(u, c) \in Fact
    /\ \A u \in Uid : Assignee(u) \in Fact /\ Participant(u) \in Fact
    /\ \A c \in Channel : Link(c) \in Fact
    /\ Live \in Fact
  BY DEF Fact

\* What was recent stays so, and what is steady was so, while facts change.
LEMMA RecentMoves ==
    ASSUME NEW h, NEW fl, NEW h2, NEW fl2, NEW c, Moves(h, fl, h2, fl2, c),
           NEW at \in Nat, NEW w \in Nat, at <= c + w, NEW f \in Fact
    PROVE  /\ RecentIn(h, fl, f, at, w) => RecentIn(h2, fl2, f, at, w)
           /\ SteadyIn(h2, fl2, f, at, w) => SteadyIn(h, fl, f, at, w)
  BY DEF Moves, RecentIn, SteadyIn

LEMMA Moved ==
    ASSUME NEW h, NEW fl, NEW h2, NEW fl2, NEW c, Moves(h, fl, h2, fl2, c),
           NEW at \in Nat, NEW w \in Nat, at <= c + w
    PROVE  /\ \A id : \A t \in Token : IdentifiesIn(h, fl, t, id, at, w) =>
                                       IdentifiesIn(h2, fl2, t, id, at, w)
           /\ \A k : SpaceIn(h, fl, k, at, w) => SpaceIn(h2, fl2, k, at, w)
           /\ \A k : MemberIn(h, fl, k, at, w) => MemberIn(h2, fl2, k, at, w)
           /\ \A us : w = 0 => /\ AssignedIn(h, fl, us, at) => AssignedIn(h2, fl2, us, at)
                               /\ RoleIn(h, fl, us, at) => RoleIn(h2, fl2, us, at)
  <1>1. \A f \in Fact : /\ RecentIn(h, fl, f, at, w) => RecentIn(h2, fl2, f, at, w)
                        /\ SteadyIn(h2, fl2, f, at, w) => SteadyIn(h, fl, f, at, w)
    BY RecentMoves
  <1>2. ASSUME NEW t \in Token, NEW id, IdentifiesIn(h, fl, t, id, at, w)
        PROVE  IdentifiesIn(h2, fl2, t, id, at, w)
    <2>1. Self[t] \in Uid
      BY AccessAssumption
    <2>2. /\ id[2] # None => RecentIn(h2, fl2, Owns(t, id[2]), at, w)
          /\ id[3] # None => RecentIn(h2, fl2, Home(t, id[3]), at, w)
          /\ (id[3] = None /\ t \in Bots) =>
                 \A s \in Space : ~SteadyIn(h2, fl2, Home(t, s), at, w)
      BY <1>1, <1>2, Facts DEF IdentifiesIn
    <2>3. /\ \A u \in id[1] : /\ RecentIn(h2, fl2, Acts(t, u), at, w)
                             /\ RecentIn(h2, fl2, Acts(t, Self[t]), at, w)
          /\ \A u \in Uid : (/\ SteadyIn(h2, fl2, Acts(t, Self[t]), at, w)
                             /\ SteadyIn(h2, fl2, Acts(t, u), at, w)
                             /\ t \in Bots => u = Self[t]) => u \in id[1]
      BY <1>1, <1>2, <2>1, Facts DEF IdentifiesIn
    <2> QED BY <1>2, <2>2, <2>3 DEF IdentifiesIn
  <1>3. \A k : SpaceIn(h, fl, k, at, w) => SpaceIn(h2, fl2, k, at, w)
    BY <1>1, Facts DEF SpaceIn
  <1>4. \A k : MemberIn(h, fl, k, at, w) => MemberIn(h2, fl2, k, at, w)
    BY <1>1, Facts DEF MemberIn
  <1>5. \A us : w = 0 => /\ AssignedIn(h, fl, us, at) => AssignedIn(h2, fl2, us, at)
                         /\ RoleIn(h, fl, us, at) => RoleIn(h2, fl2, us, at)
    BY <1>1, Facts DEF AssignedIn, RoleIn
  <1> QED BY <1>2, <1>3, <1>4, <1>5

\* From one date to another.
LEMMA Weaker ==
    ASSUME NEW h, NEW fl, \A f \in DOMAIN fl : fl[f] \in Nat,
           NEW at \in Nat, NEW w \in Nat, NEW b \in Nat, NEW v \in Nat, b + w <= at + v
    PROVE  /\ \A id : \A t \in Token : IdentifiesIn(h, fl, t, id, at, w) =>
                                       IdentifiesIn(h, fl, t, id, b, v)
           /\ \A k : SpaceIn(h, fl, k, at, w) => SpaceIn(h, fl, k, b, v)
           /\ \A k : MemberIn(h, fl, k, at, w) => MemberIn(h, fl, k, b, v)
  <1>1. \A f : /\ RecentIn(h, fl, f, at, w) => RecentIn(h, fl, f, b, v)
               /\ SteadyIn(h, fl, f, b, v) => SteadyIn(h, fl, f, at, w)
    BY DEF RecentIn, SteadyIn
  <1>2. \A id : \A t \in Token : IdentifiesIn(h, fl, t, id, at, w) =>
                                 IdentifiesIn(h, fl, t, id, b, v)
    BY <1>1 DEF IdentifiesIn
  <1>3. \A k : SpaceIn(h, fl, k, at, w) => SpaceIn(h, fl, k, b, v)
    BY <1>1 DEF SpaceIn
  <1>4. \A k : MemberIn(h, fl, k, at, w) => MemberIn(h, fl, k, b, v)
    BY <1>1 DEF MemberIn
  <1> QED BY <1>2, <1>3, <1>4
-----------------------------------------------------------------------------
Early  == {"idle", "reply", "done"}
Inside == {"load", "gate", "member_call", "decide", "query", "show", "model", "act"}

W == TTL + Timeout

\* What is known of a request's token, and what is kept of a token.
Told(r) == <<req[r].who, req[r].owner, req[r].home>>
Kept(t) == <<ids[t].uids, ids[t].owner, ids[t].home>>

ClaimKey(r, k) == <<"member", Cred(r), req[r].who, Named(r, k)>>

Typed(r) ==
    /\ req[r] \in RequestRecord
    /\ pc(r) \notin Early => Asked(r) \in Query
    /\ Calling(r) => clock <= req[r].sent + Timeout

Timed(r) ==
    pc(r) \notin Early =>
        /\ req[r].begun <= clock
        /\ Calling(r) => req[r].begun <= req[r].sent /\ req[r].sent <= clock

\* What an operation still asks about channels, and where it can be.
Staged(r) ==
    /\ pc(r) \in {"load", "decide"} => Op(r) \in {"get", "audit", "write", "progress", "link"}
    /\ pc(r) = "decide" => "source" \notin req[r].todo
    /\ pc(r) = "query" => Op(r) = "list"
    /\ pc(r) = "show" => Op(r) \in {"get", "audit"}
    /\ pc(r) = "model" => Op(r) \in {"extract", "progress"}
    /\ pc(r) = "act" => Op(r) \in {"write", "progress", "link", "create", "extract"}
    /\ pc(r) \in {"gate", "member_call"} => req[r].todo # {}
    /\ pc(r) = "member_call" => req[r].left \subseteq req[r].who
    /\ pc(r) \in Inside \ {"member_call"} => req[r].reply = None
    /\ pc(r) \in Inside => \A k \in req[r].todo : Op(r) \in Asks(k) /\ Named(r, k) \in Channel
    /\ (pc(r) \in Inside /\ IsBot(r)) => req[r].todo = {}

\* A link or the messages of a channel wait for the answer about the channel, and whoever
\* names an author acts for him.
Owned(r) ==
    /\ (pc(r) \in Inside /\ ~IsBot(r) /\ Op(r) \in {"progress", "link", "extract"}) =>
           "own" \in req[r].todo \cup req[r].granted
    /\ (pc(r) \in Inside /\ IsBot(r)) => Op(r) # "link"
    /\ (pc(r) \in Inside /\ Op(r) \in {"progress", "extract"}) =>
           Asked(r).target \in AuthorizedActors(r)
    /\ (pc(r) \in {"model", "act"} \/ (Op(r) = "link" /\ pc(r) \in {"load", "decide"})) =>
           req[r].todo = {}

Identified(r) ==
    /\ pc(r) \in Inside \cup {"space", "space_call"} =>
           IdentifiesIn(holds, flip, Cred(r), Told(r), req[r].begun, W)
    /\ (pc(r) = "auth_call" /\ req[r].reply = "yes") =>
           IdentifiesIn(holds, flip, Cred(r), Told(r), req[r].sent, 0)

Admitted(r) ==
    /\ pc(r) = "space_call" =>
           /\ Asking(r) /\ Asked(r).space # None
           /\ req[r].reply = "yes" => SpaceIn(holds, flip, SpaceKey(r), req[r].sent, 0)
    /\ (pc(r) \in Inside /\ Asking(r)) =>
           SpaceIn(holds, flip, SpaceKey(r), req[r].begun, W)

\* What is granted was confirmed for the channel that is named.
Vouched(r) ==
    /\ pc(r) \notin Inside => req[r].granted = {}
    /\ \A k \in req[r].granted :
           /\ ~IsBot(r) /\ Op(r) \in Asks(k) /\ Named(r, k) \in Channel
           /\ MemberIn(holds, flip, ClaimKey(r, k), req[r].begun, W)
    /\ (pc(r) = "member_call" /\ req[r].reply = "yes") =>
           MemberIn(holds, flip, MemberKey(r), req[r].sent, 0)

PastLoad(r) ==
    \/ pc(r) \in {"decide", "show"}
    \/ pc(r) = "act" /\ Op(r) = "link"
    \/ /\ pc(r) \in {"gate", "member_call", "model", "act"}
       /\ Op(r) \in {"get", "audit", "write", "progress"}

Loaded(r) ==
    PastLoad(r) => SpaceOf(r) = Place /\ RecentIn(holds, flip, Live, req[r].begun, 0)

\* The creator is not asked about anything.
Undecided(r) ==
    \/ pc(r) = "decide"
    \/ pc(r) \in {"gate", "member_call"} /\ "source" \in req[r].todo /\ Op(r) # "list"

Outsider(r) == Undecided(r) => Creator \notin UIDs(r)

Linked(r) == /\ "source" \in req[r].granted
             /\ RecentIn(holds, flip, Link(Asked(r).source), req[r].begun, 0)

PastDecide(r) ==
    \/ pc(r) = "show"
    \/ pc(r) = "act" /\ Op(r) \in {"write", "progress", "link"}
    \/ pc(r) = "model" /\ Op(r) = "progress"
    \/ pc(r) \in {"gate", "member_call"} /\ Op(r) = "progress" /\ "source" \notin req[r].todo

Decided(r) ==
    PastDecide(r) =>
        /\ Op(r) = "link" => AssignedIn(holds, flip, UIDs(r), req[r].begun)
        /\ Op(r) # "link" => RoleIn(holds, flip, UIDs(r), req[r].begun) \/ Linked(r)

Good(r) == /\ Typed(r) /\ Timed(r) /\ Staged(r) /\ Owned(r) /\ Identified(r)
           /\ Admitted(r) /\ Vouched(r) /\ Loaded(r) /\ Outsider(r) /\ Decided(r)

Dated == \A f \in DOMAIN flip : flip[f] <= clock

IdsFounded ==
    \A t \in DOMAIN ids :
        /\ ids[t].expire <= clock + TTL
        /\ IdentifiesIn(holds, flip, t, Kept(t), ids[t].expire, W)

AnswersFounded ==
    \A k \in DOMAIN answers :
        /\ answers[k].expire <= clock + TTL
        /\ k[1] = "space" => SpaceIn(holds, flip, k, answers[k].expire, W)
        /\ (k[1] = "member" /\ answers[k].yes) =>
               MemberIn(holds, flip, k, answers[k].expire, W)

IInv ==
    /\ FactsOK /\ CachesOK /\ Dated /\ IdsFounded /\ AnswersFounded
    /\ req \in [Request -> RequestRecord]
    /\ \A r \in Request : Good(r)
-----------------------------------------------------------------------------
\* The parts of a request that depend on what it asks and whom it acts for.
LEMMA Static ==
    ASSUME NEW r \in Request, req'[r].query = req[r].query, req'[r].who = req[r].who,
           req'[r].owner = req[r].owner, req'[r].home = req[r].home
    PROVE  /\ Asked(r)' = Asked(r) /\ Op(r)' = Op(r) /\ Cred(r)' = Cred(r)
           /\ IsBot(r)' = IsBot(r) /\ SpaceOf(r)' = SpaceOf(r) /\ UIDs(r)' = UIDs(r)
           /\ SpaceKey(r)' = SpaceKey(r) /\ Told(r)' = Told(r) /\ Asking(r)' = Asking(r)
           /\ Header(r)' = Header(r) /\ AuthorizedActors(r)' = AuthorizedActors(r)
           /\ \A k : Named(r, k)' = Named(r, k) /\ ClaimKey(r, k)' = ClaimKey(r, k)
  BY DEF Asked, Op, Cred, IsBot, SpaceOf, UIDs, SpaceKey, Named, ClaimKey, Owner, Told, Asking,
     Header, AuthorizedActors

LEMMA Claiming ==
    ASSUME NEW r \in Request, req[r] \in RequestRecord, req[r].todo # {}
    PROVE  /\ Claim(r) \in req[r].todo /\ Claim(r) \in ClaimKinds
           /\ "source" \in req[r].todo <=> Claim(r) = "source"
           /\ MemberKey(r) = ClaimKey(r, Claim(r))
  BY DEF Claim, ClaimKinds, RequestRecord, MemberKey, ClaimKey

\* A request that nobody touches, while facts change and time passes.
LEMMA Untouched ==
    ASSUME IInv, NEW r \in Request, req'[r] = req[r],
           Moves(holds, flip, holds', flip', clock), clock' \in Nat, clock' >= clock,
           Calling(r) => clock' <= req[r].sent + Timeout
    PROVE  Good(r)'
  <1> DEFINE b == req[r].begun
             n == req[r].sent
  <1>1. /\ b \in Nat /\ n \in Nat /\ clock \in Nat /\ W \in Nat /\ b <= b /\ Good(r)
        /\ req[r] \in RequestRecord
    BY AccessAssumption DEF IInv, RequestRecord, FactsOK, W
  <1>2. /\ Asked(r)' = Asked(r) /\ Op(r)' = Op(r) /\ Cred(r)' = Cred(r)
        /\ IsBot(r)' = IsBot(r) /\ SpaceOf(r)' = SpaceOf(r) /\ UIDs(r)' = UIDs(r)
        /\ SpaceKey(r)' = SpaceKey(r) /\ Told(r)' = Told(r) /\ Asking(r)' = Asking(r)
        /\ AuthorizedActors(r)' = AuthorizedActors(r)
        /\ \A k : Named(r, k)' = Named(r, k) /\ ClaimKey(r, k)' = ClaimKey(r, k)
        /\ pc(r)' = pc(r) /\ Calling(r)' = Calling(r) /\ MemberKey(r)' = MemberKey(r)
    BY Static DEF pc, Calling, MemberKey, Claim, Cred, Asked, Named
  <1>3. CASE pc(r) \in Early
    BY <1>1, <1>2, <1>3 DEF Good, Typed, Timed, Staged, Owned, Identified, Admitted, Vouched,
       Loaded, PastLoad, Outsider, Undecided, Decided, PastDecide, Calling, Early, Inside
  <1>4. CASE pc(r) \notin Early
    <2>1. b <= clock /\ (Calling(r) => b <= n /\ n <= clock)
      BY <1>1, <1>4 DEF Good, Timed
    <2>2. Typed(r)' /\ Timed(r)' /\ Staged(r)' /\ Owned(r)' /\ Outsider(r)'
      BY <1>1, <1>2, <2>1 DEF Good, Typed, Timed, Staged, Owned, Outsider, Undecided
    <2>3. /\ \A id : \A t \in Token : IdentifiesIn(holds, flip, t, id, b, W) =>
                                         IdentifiesIn(holds', flip', t, id, b, W)
          /\ \A k : SpaceIn(holds, flip, k, b, W) => SpaceIn(holds', flip', k, b, W)
          /\ \A k : MemberIn(holds, flip, k, b, W) => MemberIn(holds', flip', k, b, W)
      BY <1>1, <2>1, Moved
    <2>4. Calling(r) =>
          /\ \A id : \A t \in Token : IdentifiesIn(holds, flip, t, id, n, 0) =>
                                         IdentifiesIn(holds', flip', t, id, n, 0)
          /\ \A k : SpaceIn(holds, flip, k, n, 0) => SpaceIn(holds', flip', k, n, 0)
          /\ \A k : MemberIn(holds, flip, k, n, 0) => MemberIn(holds', flip', k, n, 0)
      BY <1>1, <2>1, Moved
    <2>5. /\ \A us : /\ AssignedIn(holds, flip, us, b) => AssignedIn(holds', flip', us, b)
                     /\ RoleIn(holds, flip, us, b) => RoleIn(holds', flip', us, b)
          /\ \A f \in Fact : RecentIn(holds, flip, f, b, 0) => RecentIn(holds', flip', f, b, 0)
      BY <1>1, <2>1, Moved, RecentMoves
    <2>6. Cred(r) \in Token /\ (Asked(r).source # None => Link(Asked(r).source) \in Fact)
      BY <1>1, <1>4, AccessAssumption, Facts DEF Good, Typed, Cred
    <2>7. Identified(r)'
      BY <1>1, <1>2, <2>3, <2>4, <2>6 DEF Good, Identified, Calling
    <2>8. Admitted(r)'
      BY <1>1, <1>2, <2>3, <2>4 DEF Good, Admitted, Calling
    <2>9. Vouched(r)'
      BY <1>1, <1>2, <2>3, <2>4 DEF Good, Vouched, Calling
    <2>10. Loaded(r)'
      BY <1>1, <1>2, <2>5, Facts DEF Good, Loaded, PastLoad
    <2>11. Decided(r)'
      <3>1. Linked(r) => Linked(r)'
        <4>1. "source" \in req[r].granted => Asked(r).source # None
          BY <1>1, AccessAssumption DEF Good, Vouched, Named
        <4> QED BY <1>1, <1>2, <2>5, <2>6, <4>1 DEF Linked
      <3> QED BY <1>1, <1>2, <2>5, <3>1 DEF Good, Decided, PastDecide
    <2> QED BY <2>2, <2>7, <2>8, <2>9, <2>10, <2>11 DEF Good
  <1> QED BY <1>3, <1>4
-----------------------------------------------------------------------------
LEMMA EarlyIsGood ==
    ASSUME NEW r \in Request, req'[r] \in RequestRecord, pc(r)' \in Early,
           req'[r].granted = {}
    PROVE  Good(r)'
  BY DEF Good, Typed, Timed, Staged, Owned, Identified, Admitted, Vouched, Loaded, PastLoad,
     Outsider, Undecided, Decided, PastDecide, Calling, Early, Inside, pc

\* A step of one request leaves the others as they are.
OfOne(r) ==
    /\ req' \in [Request -> RequestRecord]
    /\ \A s \in Request \ {r} : req'[s] = req[s]
    /\ Good(r)'

LEMMA Finished ==
    ASSUME IInv, NEW r \in Request, NEW o \in Outcomes, Finish(r, o)
    PROVE  OfOne(r)
  <1>1. req'[r] = [Idle EXCEPT !.pc = "reply", !.outcome = o]
    BY DEF Finish, IInv
  <1>2. /\ req'[r] \in RequestRecord /\ pc(r)' \in Early /\ req'[r].granted = {}
    <2>1. Idle \in RequestRecord /\ Idle.granted = {}
      BY DEF Idle, RequestRecord, Labels, Outcomes
    <2> QED BY <1>1, <2>1 DEF RequestRecord, Labels, pc, Early
  <1>3. req' \in [Request -> RequestRecord] /\ \A s \in Request \ {r} : req'[s] = req[s]
    BY <1>1, <1>2 DEF Finish, IInv
  <1> QED BY <1>2, <1>3, EarlyIsGood DEF OfOne

\* The labels that follow the gates.
LEMMA Following ==
    ASSUME NEW op \in Ops, NEW asks \in SUBSET ClaimKinds
    PROVE  /\ asks # {} => Onward(op, asks) = "gate"
           /\ asks = {} =>
                /\ op = "list" => Onward(op, asks) = "query"
                /\ op = "link" => Onward(op, asks) = "load"
                /\ op = "create" => Onward(op, asks) = "act"
                /\ op \in {"extract", "progress"} => Onward(op, asks) = "model"
           /\ op \in {"get", "audit"} => Accepted(op, asks) = "show"
           /\ op \in {"write", "link"} => Accepted(op, asks) = "act"
           /\ op = "progress" => Accepted(op, asks) = Onward(op, asks)
           /\ op \in {"get", "audit", "write", "progress"} => Begin(op, asks) = "load"
           /\ op \in {"list", "link", "create", "extract"} => Begin(op, asks) = Onward(op, asks)
  <1>1. asks # {} => Onward(op, asks) = "gate"
    BY Zenon DEF Onward
  <1>2. asks = {} /\ op = "list" => Onward(op, asks) = "query"
    BY Zenon DEF Onward
  <1>3. asks = {} /\ op = "link" => Onward(op, asks) = "load"
    BY Zenon DEF Onward
  <1>4. asks = {} /\ op = "create" => Onward(op, asks) = "act"
    BY Zenon DEF Onward
  <1>5. asks = {} /\ op \in {"extract", "progress"} => Onward(op, asks) = "model"
    BY Zenon DEF Onward
  <1>6. op \in {"get", "audit"} => Accepted(op, asks) = "show"
    BY Zenon DEF Accepted
  <1>7. op \in {"write", "link"} => Accepted(op, asks) = "act"
    BY Zenon DEF Accepted
  <1>8. op = "progress" => Accepted(op, asks) = Onward(op, asks)
    BY Zenon DEF Accepted
  <1>9. /\ op \in {"get", "audit", "write", "progress"} => Begin(op, asks) = "load"
        /\ op \in {"list", "link", "create", "extract"} => Begin(op, asks) = Onward(op, asks)
    BY DEF Begin
  <1> QED BY <1>1, <1>2, <1>3, <1>4, <1>5, <1>6, <1>7, <1>8, <1>9

\* What is known of a request that is served.
LEMMA Serving ==
    ASSUME IInv, NEW r \in Request
    PROVE  /\ req[r] \in RequestRecord /\ req \in [Request -> RequestRecord] /\ Good(r)
           /\ clock \in Nat /\ W \in Nat /\ TTL \in Nat /\ Timeout \in Nat
           /\ req[r].begun \in Nat /\ req[r].sent \in Nat
           /\ req[r].todo \subseteq ClaimKinds /\ req[r].granted \subseteq ClaimKinds
           /\ pc(r) \notin Early => /\ Asked(r) \in Query /\ Op(r) \in Ops /\ Cred(r) \in Token
                                    /\ req[r].begun <= clock
           /\ \A f \in DOMAIN flip : flip[f] \in Nat
  BY AccessAssumption DEF IInv, Good, Typed, Timed, RequestRecord, FactsOK, W, Op, Cred, Asked

LEMMA ArriveStep == ASSUME IInv, NEW r \in Request, Arrive(r) PROVE OfOne(r)
  <1>1. PICK q \in Query : req' = [req EXCEPT ![r].pc = "auth", ![r].query = q, ![r].begun = clock]
    BY DEF Arrive
  <1>2. /\ req[r] \in RequestRecord /\ req \in [Request -> RequestRecord] /\ clock \in Nat
        /\ req[r].granted = {} /\ clock' = clock
    BY Serving DEF Arrive, Good, Vouched, Inside
  <1>3. req'[r] = [req[r] EXCEPT !.pc = "auth", !.query = q, !.begun = clock]
    BY <1>1, <1>2
  <1>4. req'[r] \in RequestRecord /\ req'[r].query = q
        /\ req'[r].pc = "auth" /\ req'[r].granted = {} /\ req'[r].begun = clock
    <2>1. "auth" \in Labels
      BY DEF Labels
    <2>2. req'[r] \in RequestRecord
      BY <1>2, <1>3, <2>1 DEF RequestRecord
    <2> QED BY <1>2, <1>3, <2>2 DEF RequestRecord
  <1>5. Good(r)'
    BY <1>2, <1>4 DEF Good, Typed, Timed, Staged, Owned, Identified, Admitted, Vouched, Loaded,
       PastLoad, Outsider, Undecided, Decided, PastDecide, Calling, Early, Inside, pc, Asked
  <1> QED BY <1>1, <1>2, <1>4, <1>5 DEF OfOne

\* A token whose uids are known.
LEMMA KnownIds ==
    ASSUME IInv, NEW t \in Token, Known(t), NEW b \in Nat, b <= clock
    PROVE  /\ IdentifiesIn(holds, flip, t, Kept(t), b, W)
           /\ ids[t].uids \in SUBSET Uid /\ ids[t].owner \in Uid \cup {None}
           /\ ids[t].home \in Space \cup {None}
  <1>1. /\ t \in DOMAIN ids /\ clock <= ids[t].expire /\ ids[t].expire \in Nat
        /\ ids[t].uids \in SUBSET Uid /\ ids[t].owner \in Uid \cup {None}
        /\ ids[t].home \in Space \cup {None}
    BY DEF Known, IInv, CachesOK
  <1>2. IdentifiesIn(holds, flip, t, Kept(t), ids[t].expire, W)
    BY <1>1 DEF IInv, IdsFounded
  <1>3. clock \in Nat /\ W \in Nat /\ \A f \in DOMAIN flip : flip[f] \in Nat
    BY AccessAssumption DEF IInv, FactsOK, W
  <1>4. b + W <= ids[t].expire + W
    BY <1>1, <1>3
  <1>5. \A id : IdentifiesIn(holds, flip, t, id, ids[t].expire, W) =>
                    IdentifiesIn(holds, flip, t, id, b, W)
    BY <1>1, <1>3, <1>4, Weaker
  <1> QED BY <1>1, <1>2, <1>5

LEMMA AuthenticateStep == ASSUME IInv, NEW r \in Request, Authenticate(r) PROVE OfOne(r)
  <1> DEFINE t == Cred(r)
  <1>1. /\ pc(r) = "auth" /\ clock' = clock /\ holds' = holds /\ flip' = flip
        /\ req[r].granted = {} /\ Asked(r) \in Query /\ Cred(r) \in Token
    BY Serving DEF Authenticate, facts, Good, Vouched, Inside, Early
  <1>2. CASE Known(t) /\ req' = [req EXCEPT ![r].pc = "space", ![r].who = ids[t].uids,
                                           ![r].owner = ids[t].owner, ![r].home = ids[t].home]
    <2>1. /\ IdentifiesIn(holds, flip, t, Kept(t), req[r].begun, W)
          /\ ids[t].uids \in SUBSET Uid /\ ids[t].owner \in Uid \cup {None}
          /\ ids[t].home \in Space \cup {None}
      BY <1>1, <1>2, Serving, KnownIds DEF Early
    <2>2. req'[r] = [req[r] EXCEPT !.pc = "space", !.who = ids[t].uids, !.owner = ids[t].owner,
                                   !.home = ids[t].home]
      BY <1>2, Serving
    <2>3. /\ req'[r] \in RequestRecord /\ req'[r].pc = "space" /\ req'[r].who = ids[t].uids
          /\ req'[r].owner = ids[t].owner /\ req'[r].home = ids[t].home
          /\ req'[r].query = req[r].query /\ req'[r].begun = req[r].begun /\ req'[r].granted = {}
      BY <1>1, <2>1, <2>2, Serving DEF RequestRecord, Labels
    <2>4. Cred(r)' = t /\ Asked(r)' = Asked(r) /\ pc(r)' = "space" /\ Told(r)' = Kept(t)
      BY <2>3 DEF Cred, Asked, pc, Told, Kept
    <2>5. Good(r)'
      BY <1>1, <2>1, <2>3, <2>4, Serving DEF Good, Typed, Timed, Staged, Owned, Identified,
         Admitted, Vouched, Loaded, PastLoad, Outsider, Undecided, Decided, PastDecide, Calling,
         Early, Inside
    <2> QED BY <1>2, <2>3, <2>5, Serving DEF OfOne
  <1>3. CASE Call(r, "auth_call")
    <2>1. req'[r] = [req[r] EXCEPT !.pc = "auth_call", !.sent = clock, !.reply = None]
      BY <1>3, Serving DEF Call
    <2>2. /\ req'[r] \in RequestRecord /\ req'[r].pc = "auth_call" /\ req'[r].sent = clock
          /\ req'[r].query = req[r].query /\ req'[r].begun = req[r].begun /\ req'[r].granted = {}
          /\ req'[r].reply = None
      BY <1>1, <2>1, Serving DEF RequestRecord, Labels
    <2>3. Asked(r)' = Asked(r) /\ pc(r)' = "auth_call"
      BY <2>2 DEF Asked, pc
    <2>4. Good(r)'
      BY <1>1, <2>2, <2>3, Serving, AccessAssumption DEF Good, Typed, Timed, Staged, Owned, Identified,
         Admitted, Vouched, Loaded, PastLoad, Outsider, Undecided, Decided, PastDecide, Calling,
         Early, Inside
    <2> QED BY <1>3, <2>2, <2>4, Serving DEF OfOne, Call
  <1> QED BY <1>2, <1>3 DEF Authenticate

LEMMA AnswerAuthStep == ASSUME IInv, NEW r \in Request, AnswerAuth(r) PROVE OfOne(r)
  <1> DEFINE t == Cred(r)
             n == req[r].sent
  <1>1. /\ pc(r) = "auth_call" /\ clock' = clock /\ holds' = holds /\ flip' = flip
        /\ req[r].granted = {} /\ Asked(r) \in Query /\ t \in Token
    BY Serving DEF AnswerAuth, facts, Good, Vouched, Inside, Early
  <1>2. ASSUME NEW us \in SUBSET Uid, NEW o \in Uid \cup {None}, NEW s \in Space \cup {None},
               NEW a \in {"yes", "no"},
               req' = [req EXCEPT ![r].reply = a, ![r].who = us, ![r].owner = o, ![r].home = s],
               a = "yes" => IdentifiesIn(holds, flip, t, <<us, o, s>>, n, 0)
        PROVE  OfOne(r)
    <2>1. req'[r] = [req[r] EXCEPT !.reply = a, !.who = us, !.owner = o, !.home = s]
      BY <1>2, Serving
    <2>2. /\ req'[r] \in RequestRecord /\ req'[r].pc = "auth_call" /\ req'[r].who = us
          /\ req'[r].owner = o /\ req'[r].home = s
          /\ req'[r].query = req[r].query /\ req'[r].begun = req[r].begun /\ req'[r].granted = {}
          /\ req'[r].reply = a /\ req'[r].sent = n
      BY <1>1, <2>1, Serving DEF RequestRecord, pc
    <2>3. Asked(r)' = Asked(r) /\ pc(r)' = "auth_call" /\ Cred(r)' = t /\ Told(r)' = <<us, o, s>>
      BY <2>2 DEF Asked, pc, Cred, Told
    <2>4. Good(r)'
      BY <1>1, <1>2, <2>2, <2>3, Serving DEF Good, Typed, Timed, Staged, Owned, Identified,
         Admitted, Vouched, Loaded, PastLoad, Outsider, Undecided, Decided, PastDecide, Calling,
         Early, Inside
    <2> QED BY <1>2, <2>2, <2>4, Serving DEF OfOne
  <1>3. CASE Identity(t) = {} /\ Reply(r, "no")
    <2>1. req' = [req EXCEPT ![r].reply = "no", ![r].who = req[r].who,
                             ![r].owner = req[r].owner, ![r].home = req[r].home]
      BY <1>3, Serving DEF Reply, RequestRecord
    <2>2. /\ req[r].who \in SUBSET Uid /\ req[r].owner \in Uid \cup {None}
          /\ req[r].home \in Space \cup {None}
      BY Serving DEF RequestRecord
    <2> QED BY <1>2, <2>1, <2>2
  <1>4. ASSUME NEW o \in Owners(t), NEW s \in Homes(t), Identity(t) # {},
               req' = [req EXCEPT ![r].reply = "yes", ![r].who = Identity(t),
                                  ![r].owner = o, ![r].home = s]
        PROVE  OfOne(r)
    <2>1. /\ o \in Uid \cup {None} /\ s \in Space \cup {None}
          /\ o # None => t \in Bots /\ Owns(t, o) \in holds
          /\ s # None => t \in Bots /\ Home(t, s) \in holds
          /\ (s = None /\ t \in Bots) => \A x \in Space : Home(t, x) \notin holds
      BY AccessAssumption DEF Owners, Homes, OrNone
    <2> DEFINE us == Identity(t)
    <2>2. /\ us \in SUBSET Uid /\ us # {} /\ (t \in Bots => us = {Self[t]})
          /\ \A u \in us : Acts(t, u) \in holds /\ Acts(t, Self[t]) \in holds
          /\ \A u \in Uid : (/\ Acts(t, Self[t]) \in holds /\ Acts(t, u) \in holds
                             /\ t \in Bots => u = Self[t]) => u \in us
      <3> HIDE DEF t
      <3>1. \A u : u \in us <=> /\ u \in Uid /\ Acts(t, Self[t]) \in holds
                               /\ Acts(t, u) \in holds /\ (t \in Bots => u = Self[t])
        BY Zenon DEF Identity
      <3> HIDE DEF us
      <3>2. us # {}
        BY <1>4 DEF us, t
      <3>3. t \in Bots => us = {Self[t]}
        BY <3>1, <3>2
      <3> QED BY <3>1, <3>2, <3>3
    <2>3. IdentifiesIn(holds, flip, t, <<us, o, s>>, n, 0)
      <3> DEFINE id == <<us, o, s>>
      <3> HIDE DEF us, t, n
      <3>1. id[1] = us /\ id[2] = o /\ id[3] = s
        OBVIOUS
      <3> HIDE DEF id
      <3>2. \A f : /\ f \in holds => RecentIn(holds, flip, f, n, 0)
                   /\ SteadyIn(holds, flip, f, n, 0) => f \in holds
        BY DEF RecentIn, SteadyIn
      <3>3. IdentifiesIn(holds, flip, t, id, n, 0)
        BY <2>1, <2>2, <3>1, <3>2 DEF IdentifiesIn
      <3> QED BY <3>3 DEF id
    <2> HIDE DEF us
    <2>4. us \in SUBSET Uid /\ o \in Uid \cup {None} /\ s \in Space \cup {None}
      BY <2>1, <2>2
    <2>5. req' = [req EXCEPT ![r].reply = "yes", ![r].who = us, ![r].owner = o, ![r].home = s]
      BY <1>4 DEF us
    <2>6. "yes" \in {"yes", "no"}
      OBVIOUS
    <2> QED BY <1>2, <2>3, <2>4, <2>5, <2>6, Zenon
  <1> QED BY <1>3, <1>4 DEF AnswerAuth

LEMMA AuthenticatedStep == ASSUME IInv, NEW r \in Request, Authenticated(r) PROVE OfOne(r)
  <1> DEFINE t == Cred(r)
  <1>1. /\ pc(r) = "auth_call" /\ clock' = clock /\ holds' = holds /\ flip' = flip
        /\ req[r].granted = {} /\ Asked(r) \in Query /\ t \in Token
    BY Serving DEF Authenticated, facts, Good, Vouched, Inside, Early
  <1>2. CASE req[r].reply = "yes" /\ HangUp(r, "space")
    <2>1. IdentifiesIn(holds, flip, t, Told(r), req[r].begun, W)
      <3>1. /\ IdentifiesIn(holds, flip, t, Told(r), req[r].sent, 0)
            /\ req[r].begun + 0 <= req[r].sent + W
        BY <1>1, <1>2, Serving DEF Good, Identified, Timed, Calling, Early
      <3>2. \A id : \A s \in Token : IdentifiesIn(holds, flip, s, id, req[r].sent, 0) =>
                                     IdentifiesIn(holds, flip, s, id, req[r].begun, W)
        <4>1. /\ req[r].sent \in Nat /\ req[r].begun \in Nat /\ W \in Nat
              /\ \A f \in DOMAIN flip : flip[f] \in Nat
          BY Serving
        <4> QED BY ONLY <3>1, <4>1, Weaker
      <3> HIDE DEF t
      <3> QED BY <1>1, <3>1, <3>2
    <2> DEFINE zero == 0
    <2>2. /\ req'[r] = [req[r] EXCEPT !.pc = "space", !.sent = zero, !.reply = None]
          /\ req[r] \in RequestRecord /\ zero \in Nat
      BY <1>2, Serving DEF HangUp
    <2> HIDE DEF zero
    <2>3. /\ req'[r] \in RequestRecord /\ req'[r].pc = "space" /\ req'[r].who = req[r].who
          /\ req'[r].owner = req[r].owner /\ req'[r].home = req[r].home
          /\ req'[r].query = req[r].query /\ req'[r].begun = req[r].begun /\ req'[r].granted = {}
      BY <1>1, <2>2 DEF RequestRecord, Labels
    <2>4. Asked(r)' = Asked(r) /\ pc(r)' = "space" /\ Cred(r)' = t /\ Told(r)' = Told(r)
      BY <2>3, Static DEF pc
    <2>5. Good(r)'
      BY <1>1, <2>1, <2>3, <2>4, Serving DEF Good, Typed, Timed, Staged, Owned, Identified,
         Admitted, Vouched, Loaded, PastLoad, Outsider, Undecided, Decided, PastDecide, Calling,
         Early, Inside
    <2> QED BY <1>2, <2>3, <2>5, Serving DEF OfOne, HangUp
  <1>3. CASE Finish(r, "unauthorized")
    BY <1>3, Finished DEF Outcomes
  <1> QED BY <1>2, <1>3 DEF Authenticated

\* The handler begins.
LEMMA Handled ==
    ASSUME IInv, NEW r \in Request, pc(r) \in {"space", "space_call"}, Handle(r),
           clock' = clock, holds' = holds, flip' = flip,
           Asking(r) => SpaceIn(holds, flip, SpaceKey(r), req[r].begun, W)
    PROVE  OfOne(r)
  <1>1. CASE Finish(r, "forbidden")
    BY <1>1, Finished DEF Outcomes
  <1>2. CASE /\ ~Barred(r)
             /\ req' = [req EXCEPT ![r].pc = Begin(Op(r), Claims(r)), ![r].todo = Claims(r),
                                   ![r].sent = 0, ![r].reply = None]
    <2> DEFINE label == Begin(Op(r), Claims(r))
    <2>1. /\ req[r].granted = {} /\ Asked(r) \in Query /\ Cred(r) \in Token /\ Op(r) \in Ops
          /\ IdentifiesIn(holds, flip, Cred(r), Told(r), req[r].begun, W)
          /\ req[r].begun <= clock /\ pc(r) \notin Early
      BY Serving DEF Good, Vouched, Identified, Inside, Early
    <2>2. /\ Claims(r) \in SUBSET ClaimKinds
          /\ \A k \in Claims(r) : ~IsBot(r) /\ Op(r) \in Asks(k) /\ Named(r, k) \in Channel
          /\ (~IsBot(r) /\ Op(r) \in {"progress", "link", "extract"}) => "own" \in Claims(r)
      BY <2>1, AccessAssumption DEF Claims, ClaimKinds, Named, Op, Asks
    <2>3. /\ label \in {"load", "gate", "query", "act", "model"}
          /\ label = "load" => Op(r) \in {"get", "audit", "write", "progress", "link"}
          /\ label = "load" /\ Op(r) = "link" => Claims(r) = {}
          /\ label = "gate" => Claims(r) # {} /\ Op(r) \in {"list", "link", "create", "extract"}
          /\ label = "query" => Op(r) = "list"
          /\ label = "act" => Op(r) = "create" /\ Claims(r) = {}
          /\ label = "model" => Op(r) = "extract" /\ Claims(r) = {}
      BY <2>1, <2>2, Following DEF Ops
    <2> HIDE DEF label
    <2> DEFINE zero == 0
    <2>4. /\ req'[r] = [req[r] EXCEPT !.pc = label, !.todo = Claims(r), !.sent = zero,
                                      !.reply = None]
          /\ req[r] \in RequestRecord /\ zero \in Nat
      BY <1>2, Serving DEF label
    <2> HIDE DEF zero
    <2>5. /\ req'[r] \in RequestRecord /\ req'[r].pc = label /\ req'[r].who = req[r].who
          /\ req'[r].owner = req[r].owner /\ req'[r].home = req[r].home
          /\ req'[r].query = req[r].query /\ req'[r].begun = req[r].begun /\ req'[r].granted = {}
          /\ req'[r].todo = Claims(r) /\ req'[r].reply = None
      BY <2>1, <2>2, <2>3, <2>4 DEF RequestRecord, Labels
    <2>6. pc(r)' = label
      BY <2>5 DEF pc
    <2>7. "source" \in Claims(r) => Op(r) \notin {"link", "create", "extract"}
      BY <2>2 DEF Asks
    <2>8. /\ IsBot(r) => Op(r) # "link"
          /\ Op(r) \in {"progress", "extract"} => Asked(r).target \in AuthorizedActors(r)
      BY <1>2 DEF Barred
    <2>9. Good(r)'
      BY <2>1, <2>2, <2>3, <2>5, <2>6, <2>7, <2>8, Serving, Static DEF Good, Typed, Timed,
         Staged, Owned, Identified, Admitted, Vouched, Loaded, PastLoad, Outsider, Undecided,
         Decided, PastDecide, Calling, Early, Inside
    <2> QED BY <1>2, <2>5, <2>9, Serving DEF OfOne
  <1> QED BY <1>1, <1>2 DEF Handle

\* The answer in the space cache is as good as a new one.
LEMMA EnterSpaceStep == ASSUME IInv, NEW r \in Request, EnterSpace(r) PROVE OfOne(r)
  <1>1. /\ pc(r) = "space" /\ clock' = clock /\ holds' = holds /\ flip' = flip
        /\ req[r].granted = {} /\ Asked(r) \in Query /\ Cred(r) \in Token
        /\ IdentifiesIn(holds, flip, Cred(r), Told(r), req[r].begun, W)
    BY Serving DEF EnterSpace, facts, Good, Vouched, Identified, Inside, Early
  <1>2. CASE Finish(r, "invalid")
    BY <1>2, Finished DEF Outcomes
  <1>3. CASE (Asking(r) => Usable(SpaceKey(r))) /\ Handle(r)
    <2>1. ASSUME Usable(SpaceKey(r))
          PROVE  SpaceIn(holds, flip, SpaceKey(r), req[r].begun, W)
      <3> DEFINE k == SpaceKey(r)
                 x == answers[k].expire
      <3>1. k \in DOMAIN answers /\ clock <= x /\ x \in Nat
        BY <2>1 DEF Usable, IInv, CachesOK
      <3>2. k[1] = "space"
        BY DEF SpaceKey
      <3>3. SpaceIn(holds, flip, k, x, W)
        BY <3>1, <3>2 DEF IInv, AnswersFounded
      <3>4. req[r].begun + W <= x + W
        BY <1>1, <3>1, Serving DEF Early
      <3> HIDE DEF k, x
      <3>5. \A j : SpaceIn(holds, flip, j, x, W) => SpaceIn(holds, flip, j, req[r].begun, W)
        BY <3>1, <3>4, Serving, Weaker
      <3> QED BY <3>3, <3>5 DEF k
    <2> QED BY <1>1, <1>3, <2>1, Handled
  <1>4. CASE SpaceOf(r) # None /\ Asking(r) /\ Call(r, "space_call")
    <2>1. req'[r] = [req[r] EXCEPT !.pc = "space_call", !.sent = clock, !.reply = None]
      BY <1>4, Serving DEF Call
    <2>2. /\ req'[r] \in RequestRecord /\ req'[r].pc = "space_call" /\ req'[r].sent = clock
          /\ req'[r].query = req[r].query /\ req'[r].begun = req[r].begun /\ req'[r].granted = {}
          /\ req'[r].reply = None /\ req'[r].who = req[r].who
          /\ req'[r].owner = req[r].owner /\ req'[r].home = req[r].home
      BY <1>1, <2>1, Serving DEF RequestRecord, Labels
    <2>3. pc(r)' = "space_call"
      BY <2>2 DEF pc
    <2>4. Asked(r).space # None
      BY <1>4 DEF SpaceOf, Asking
    <2>5. Good(r)'
      BY <1>1, <1>4, <2>2, <2>3, <2>4, Serving, Static, AccessAssumption DEF Good, Typed, Timed,
         Staged, Owned, Identified, Admitted, Vouched, Loaded, PastLoad, Outsider, Undecided,
         Decided, PastDecide, Calling, Early, Inside
    <2> QED BY <1>4, <2>2, <2>5, Serving DEF OfOne, Call
  <1> QED BY <1>2, <1>3, <1>4 DEF EnterSpace

LEMMA AnswerSpaceStep == ASSUME IInv, NEW r \in Request, AnswerSpace(r) PROVE OfOne(r)
  <1>1. /\ pc(r) = "space_call" /\ clock' = clock /\ holds' = holds /\ flip' = flip
        /\ req[r].granted = {} /\ Asked(r) \in Query /\ Cred(r) \in Token
    BY Serving DEF AnswerSpace, facts, Good, Vouched, Inside, Early
  <1>2. req'[r] = [req[r] EXCEPT !.reply = "yes"]
    BY Serving DEF AnswerSpace, Reply
  <1>3. /\ req'[r] \in RequestRecord /\ req'[r].pc = "space_call" /\ req'[r].sent = req[r].sent
        /\ req'[r].query = req[r].query /\ req'[r].begun = req[r].begun /\ req'[r].granted = {}
        /\ req'[r].reply = "yes" /\ req'[r].who = req[r].who
        /\ req'[r].owner = req[r].owner /\ req'[r].home = req[r].home
    BY <1>1, <1>2, Serving DEF RequestRecord, pc
  <1>4. pc(r)' = "space_call"
    BY <1>3 DEF pc
  <1>5. SpaceIn(holds, flip, SpaceKey(r), req[r].sent, 0)
    <2>1. Asked(r).space \in Space
      BY <1>1, Serving, AccessAssumption DEF Good, Admitted
    <2>2. RecentIn(holds, flip, In(Header(r), Asked(r).space), req[r].sent, 0)
      BY DEF AnswerSpace, RecentIn
    <2>3. SpaceKey(r)[1] = "space" /\ SpaceKey(r)[2] = Prefix[Header(r)]
          /\ SpaceKey(r)[4] = Asked(r).space
      BY DEF SpaceKey
    <2>4. Header(r) \in Token
      BY <1>1, Serving, AccessAssumption DEF Good, Admitted, Asking, Header
    <2> QED BY <2>1, <2>2, <2>3, <2>4 DEF SpaceIn
  <1>6. Good(r)'
    BY <1>1, <1>3, <1>4, <1>5, Serving, Static DEF Good, Typed, Timed, Staged, Owned, Identified,
       Admitted, Vouched, Loaded, PastLoad, Outsider, Undecided, Decided, PastDecide, Calling,
       Early, Inside
  <1> QED BY <1>3, <1>6, Serving DEF OfOne, AnswerSpace, Reply

LEMMA EnteredStep == ASSUME IInv, NEW r \in Request, Entered(r) PROVE OfOne(r)
  <1>1. /\ pc(r) = "space_call" /\ clock' = clock /\ holds' = holds /\ flip' = flip
        /\ Handle(r) /\ req[r].reply = "yes"
    BY DEF Entered, facts
  <1>2. /\ SpaceIn(holds, flip, SpaceKey(r), req[r].sent, 0)
        /\ req[r].begun + 0 <= req[r].sent + W
    BY <1>1, Serving DEF Good, Admitted, Timed, Calling, Early
  <1>3. \A k : SpaceIn(holds, flip, k, req[r].sent, 0) =>
                   SpaceIn(holds, flip, k, req[r].begun, W)
    BY <1>2, Serving, Weaker
  <1>4. SpaceIn(holds, flip, SpaceKey(r), req[r].begun, W)
    BY <1>2, <1>3
  <1> QED BY <1>1, <1>4, Handled

\* A request that goes on inside its operation.
LEMMA GoesOn ==
    ASSUME IInv, NEW r \in Request, pc(r) \in Inside, req'[r] \in RequestRecord,
           pc(r)' \in Inside \ {"member_call"},
           req'[r].query = req[r].query, req'[r].who = req[r].who, req'[r].begun = req[r].begun,
           req'[r].owner = req[r].owner, req'[r].home = req[r].home,
           clock' = clock, holds' = holds, flip' = flip,
           \A k \in req'[r].granted \ req[r].granted :
               /\ ~IsBot(r) /\ Op(r) \in Asks(k) /\ Named(r, k) \in Channel
               /\ MemberIn(holds, flip, ClaimKey(r, k), req[r].begun, W),
           Staged(r)', Owned(r)', Loaded(r)', Outsider(r)', Decided(r)'
    PROVE  Good(r)'
  <1>1. Typed(r)' /\ Timed(r)'
    BY Serving DEF Good, Typed, Timed, Early, Inside, Calling, Asked
  <1>2. Identified(r)' /\ Admitted(r)'
    BY Serving, Static DEF Good, Identified, Admitted, Inside
  <1>3. Vouched(r)'
    <2>1. \A k \in req'[r].granted :
               /\ ~IsBot(r) /\ Op(r) \in Asks(k) /\ Named(r, k) \in Channel
               /\ MemberIn(holds, flip, ClaimKey(r, k), req[r].begun, W)
      BY Serving DEF Good, Vouched
    <2> QED BY <2>1, Static DEF Vouched
  <1> QED BY <1>1, <1>2, <1>3 DEF Good

LEMMA LoadStep == ASSUME IInv, NEW r \in Request, Load(r) PROVE OfOne(r)
  <1> DEFINE left == req[r].todo \ {"source"}
             label == IF Creator \in UIDs(r) THEN Accepted(Op(r), left)
                      ELSE IF "source" \in req[r].todo THEN "gate" ELSE "decide"
             asks == IF Creator \in UIDs(r) THEN left ELSE req[r].todo
  <1>1. /\ pc(r) = "load" /\ clock' = clock /\ holds' = holds /\ flip' = flip
        /\ pc(r) \notin Early /\ pc(r) \in Inside /\ Op(r) \in Ops
        /\ Op(r) \in {"get", "audit", "write", "progress", "link"}
        /\ Op(r) = "link" => req[r].todo = {}
        /\ req[r].todo \in SUBSET ClaimKinds
        /\ \A k \in req[r].todo : Op(r) \in Asks(k) /\ Named(r, k) \in Channel
        /\ IsBot(r) => req[r].todo = {} /\ Op(r) # "link"
        /\ (~IsBot(r) /\ Op(r) \in {"progress", "link"}) =>
               "own" \in req[r].todo \cup req[r].granted
        /\ Op(r) \in {"progress", "extract"} => Asked(r).target \in AuthorizedActors(r)
        /\ req[r].reply = None
    BY Serving DEF Load, facts, Good, Staged, Owned, Inside, Early
  <1>2. CASE Finish(r, "not_found")
    BY <1>2, Finished DEF Outcomes
  <1>3. CASE Found(r) /\ req' = [req EXCEPT ![r].pc = label, ![r].todo = asks]
    <2>1. /\ left \in SUBSET ClaimKinds /\ asks \in SUBSET ClaimKinds
          /\ asks \subseteq req[r].todo
          /\ "own" \in req[r].todo => "own" \in asks
          /\ Op(r) \in {"write", "get", "audit"} => left = {}
      BY <1>1 DEF Asks, ClaimKinds
    <2>2. Creator \in UIDs(r) =>
            /\ label = Accepted(Op(r), asks) /\ "source" \notin asks
            /\ label \in {"show", "act", "gate", "model"}
            /\ label = "show" => Op(r) \in {"get", "audit"}
            /\ label = "act" => Op(r) \in {"write", "link"} /\ asks = {}
            /\ label \in {"gate", "model"} => Op(r) = "progress"
            /\ label = "gate" => asks # {}
            /\ label = "model" => asks = {}
      BY <1>1, <2>1, Following
    <2>3. Creator \notin UIDs(r) =>
            /\ label \in {"gate", "decide"} /\ asks = req[r].todo
            /\ label = "gate" => "source" \in asks /\ Op(r) # "link"
            /\ label = "decide" => "source" \notin asks
      BY <1>1
    <2>4. Creator \in UIDs(r) =>
             RoleIn(holds, flip, UIDs(r), req[r].begun) /\ AssignedIn(holds, flip, UIDs(r), req[r].begun)
      BY AccessAssumption DEF RoleIn, AssignedIn
    <2>5. SpaceOf(r) = Place /\ RecentIn(holds, flip, Live, req[r].begun, 0)
      BY <1>3 DEF Found, RecentIn
    <2> HIDE DEF label, asks, left
    <2>6. req'[r] = [req[r] EXCEPT !.pc = label, !.todo = asks]
      BY <1>3, Serving
    <2>7. /\ req'[r] \in RequestRecord /\ req'[r].pc = label /\ req'[r].todo = asks
          /\ req'[r].query = req[r].query /\ req'[r].begun = req[r].begun
          /\ req'[r].granted = req[r].granted /\ req'[r].who = req[r].who
          /\ req'[r].owner = req[r].owner /\ req'[r].home = req[r].home
          /\ req'[r].reply = req[r].reply
      BY <2>1, <2>2, <2>3, <2>6, Serving DEF RequestRecord, Labels
    <2>8. pc(r)' = label /\ label \in Inside \ {"member_call"}
      BY <2>2, <2>3, <2>7 DEF pc, Inside
    <2>9. Staged(r)' /\ Owned(r)'
      BY <1>1, <2>1, <2>2, <2>3, <2>7, <2>8, Static DEF Staged, Owned, Inside
    <2>10. Loaded(r)'
      BY <2>5, <2>7, Static, <1>1 DEF Loaded
    <2>11. Outsider(r)'
      BY <1>1, <2>2, <2>3, <2>7, <2>8, Static DEF Outsider, Undecided
    <2>12. Decided(r)'
      BY <1>1, <2>2, <2>3, <2>4, <2>7, <2>8, Static DEF Decided, PastDecide
    <2>13. Good(r)'
      BY <1>1, <2>7, <2>8, <2>9, <2>10, <2>11, <2>12, GoesOn
    <2> QED BY <1>3, <2>7, <2>13, Serving DEF OfOne
  <1>4. Creator \notin UIDs(r) /\ Goto(r, label) =>
            req' = [req EXCEPT ![r].pc = label, ![r].todo = asks]
    BY Serving DEF Goto, RequestRecord
  <1> QED BY <1>2, <1>3, <1>4, Serving DEF Load

\* What follows an answer about a channel that was rightly given.
LEMMA Judged ==
    ASSUME IInv, NEW r \in Request, pc(r) \in {"gate", "member_call"},
           NEW yes \in BOOLEAN, Judge(r, yes),
           clock' = clock, holds' = holds, flip' = flip,
           yes => MemberIn(holds, flip, MemberKey(r), req[r].begun, W)
    PROVE  OfOne(r)
  <1> DEFINE k == Claim(r)
             asks == req[r].todo \ {k}
             had == IF yes THEN req[r].granted \cup {k} ELSE req[r].granted
             label == IF k = "source" /\ Op(r) # "list" THEN "decide" ELSE Onward(Op(r), asks)
             zero == 0
             none == {}
  <1>1. /\ pc(r) \in Inside /\ pc(r) \notin Early /\ Op(r) \in Ops /\ Cred(r) \in Token
        /\ req[r].todo \in SUBSET ClaimKinds /\ req[r].granted \in SUBSET ClaimKinds
        /\ req[r].todo # {} /\ ~IsBot(r)
        /\ \A j \in req[r].todo : Op(r) \in Asks(j) /\ Named(r, j) \in Channel
        /\ Op(r) \in {"progress", "link", "extract"} => "own" \in req[r].todo \cup req[r].granted
        /\ Op(r) \in {"progress", "extract"} => Asked(r).target \in AuthorizedActors(r)
    BY Serving DEF Good, Staged, Owned, Inside, Early
  <1>2. /\ k \in req[r].todo /\ k \in ClaimKinds
        /\ "source" \in req[r].todo <=> k = "source"
        /\ MemberKey(r) = ClaimKey(r, k)
    BY <1>1, Serving, Claiming
  <1>3. CASE Finish(r, "forbidden")
    BY <1>3, Finished DEF Outcomes
  <1>4. CASE /\ ~(k = "own" /\ ~yes)
             /\ req' = [req EXCEPT ![r].pc = label, ![r].todo = asks, ![r].granted = had,
                                   ![r].left = none, ![r].sent = zero, ![r].reply = None]
    <2>1. /\ asks \in SUBSET ClaimKinds /\ had \in SUBSET ClaimKinds
          /\ had \subseteq req[r].granted \cup {k}
          /\ req[r].granted \subseteq had
          /\ k = "own" => "own" \in had
      BY <1>1, <1>2, <1>4
    <2>2. /\ k = "source" /\ Op(r) # "list" =>
                Op(r) \in {"get", "write", "progress"} /\ label = "decide"
          /\ k \in {"only", "own"} => "source" \notin req[r].todo
          /\ k = "only" => Op(r) = "list"
          /\ k = "own" => Op(r) \in {"progress", "link", "create", "extract"}
          /\ Op(r) = "list" \/ k # "source" => label = Onward(Op(r), asks)
          /\ k = "own" => asks = {}
      BY <1>1, <1>2 DEF Asks, ClaimKinds
    <2>3. /\ label \in {"decide", "gate", "query", "load", "act", "model"}
          /\ label = "decide" => k = "source" /\ Op(r) \in {"get", "write", "progress"}
          /\ label = "gate" => asks # {} /\ Op(r) = "list"
          /\ label = "query" => Op(r) = "list"
          /\ label = "load" => Op(r) = "link" /\ k = "own" /\ asks = {}
          /\ label = "act" => Op(r) = "create" /\ asks = {}
          /\ label = "model" => Op(r) \in {"extract", "progress"} /\ k = "own" /\ asks = {}
      <3>1. CASE k = "source" /\ Op(r) # "list"
        BY <2>2, <3>1
      <3>2. CASE Op(r) = "list"
        BY <2>1, <2>2, <3>2, Following DEF Ops
      <3>3. CASE k # "source" /\ Op(r) # "list"
        BY <1>2, <2>1, <2>2, <3>3, Following DEF Ops, ClaimKinds
      <3> QED BY <3>1, <3>2, <3>3
    <2>4. /\ PastLoad(r) => /\ SpaceOf(r) = Place
                            /\ RecentIn(holds, flip, Live, req[r].begun, 0)
          /\ Undecided(r) => Creator \notin UIDs(r)
          /\ label = "decide" => PastLoad(r) /\ Undecided(r)
          /\ label = "model" /\ Op(r) = "progress" => PastLoad(r) /\ PastDecide(r)
          /\ PastDecide(r) /\ Op(r) # "link" =>
                 RoleIn(holds, flip, UIDs(r), req[r].begun) \/ Linked(r)
      BY <1>2, <2>2, <2>3, Serving DEF Good, Loaded, Outsider, Decided, PastLoad, Undecided,
         PastDecide
    <2>5. \A j \in had \ req[r].granted :
               /\ ~IsBot(r) /\ Op(r) \in Asks(j) /\ Named(r, j) \in Channel
               /\ MemberIn(holds, flip, ClaimKey(r, j), req[r].begun, W)
      BY <1>1, <1>2
    <2>6. /\ req'[r] = [req[r] EXCEPT !.pc = label, !.todo = asks, !.granted = had,
                                      !.left = none, !.sent = zero, !.reply = None]
          /\ req[r] \in RequestRecord /\ zero \in Nat /\ none \in SUBSET Uid
      BY <1>4, Serving
    <2> HIDE DEF label, asks, had, zero, none
    <2>7. /\ req'[r] \in RequestRecord /\ req'[r].pc = label /\ req'[r].todo = asks
          /\ req'[r].query = req[r].query /\ req'[r].begun = req[r].begun
          /\ req'[r].granted = had /\ req'[r].who = req[r].who /\ req'[r].reply = None
          /\ req'[r].owner = req[r].owner /\ req'[r].home = req[r].home
      <3>1. label \in Labels
        BY <2>3 DEF Labels
      <3>2. [req[r] EXCEPT !.pc = label, !.todo = asks, !.granted = had] \in RequestRecord
        BY <2>1, <2>6, <3>1 DEF RequestRecord
      <3>3. req'[r] \in RequestRecord
        BY <2>6, <3>2 DEF RequestRecord
      <3> QED BY <2>6, <3>3 DEF RequestRecord
    <2>8. pc(r)' = label /\ label \in Inside \ {"member_call"}
      BY <2>3, <2>7 DEF pc, Inside
    <2>9. Staged(r)' /\ Owned(r)'
      BY <1>1, <1>2, <2>1, <2>2, <2>3, <2>7, <2>8, Static DEF Staged, Owned, Inside, asks
    <2>10. Loaded(r)'
      BY <2>3, <2>4, <2>7, <2>8, Static DEF Loaded, PastLoad
    <2>11. Outsider(r)'
      BY <2>3, <2>4, <2>7, <2>8, Static DEF Outsider, Undecided
    <2>12. Decided(r)'
      <3>1. Linked(r) => Linked(r)'
        BY <2>1, <2>7, Static DEF Linked
      <3> QED BY <2>3, <2>4, <2>7, <2>8, <3>1, Static DEF Decided, PastDecide
    <2>13. Good(r)'
      BY <1>1, <2>5, <2>7, <2>8, <2>9, <2>10, <2>11, <2>12, GoesOn
    <2> QED BY <1>4, <2>7, <2>13, Serving DEF OfOne
  <1> QED BY <1>3, <1>4 DEF Judge

\* A request that asks the IM server about one of its uids.
LEMMA AsksOn ==
    ASSUME IInv, NEW r \in Request, pc(r) \in {"gate", "member_call"},
           NEW x, req' = [req EXCEPT ![r] = x], x \in RequestRecord, x.pc = "member_call",
           x.query = req[r].query, x.who = req[r].who, x.begun = req[r].begun,
           x.owner = req[r].owner, x.home = req[r].home,
           x.todo = req[r].todo, x.granted = req[r].granted, x.left \subseteq req[r].who,
           req[r].begun <= x.sent, x.sent <= clock, clock <= x.sent + Timeout,
           x.reply = "yes" => MemberIn(holds, flip, MemberKey(r), x.sent, 0),
           clock' = clock, holds' = holds, flip' = flip
    PROVE  OfOne(r)
  <1>1. /\ req'[r] = x /\ pc(r)' = "member_call"
        /\ req' \in [Request -> RequestRecord] /\ \A s \in Request \ {r} : req'[s] = req[s]
    BY Serving DEF pc
  <1>2. MemberKey(r)' = MemberKey(r)
    BY <1>1 DEF MemberKey, Claim, Cred, Asked, Named
  <1>3. Typed(r)' /\ Timed(r)'
    BY <1>1, Serving DEF Typed, Timed, Early, Calling, Asked
  <1>4. Staged(r)' /\ Owned(r)'
    BY <1>1, Serving, Static DEF Good, Staged, Owned, Inside
  <1>5. Identified(r)' /\ Admitted(r)'
    BY <1>1, Serving, Static DEF Good, Identified, Admitted, Inside
  <1>6. Vouched(r)'
    BY <1>1, <1>2, Serving, Static DEF Good, Vouched, Inside
  <1>7. Loaded(r)' /\ Outsider(r)'
    BY <1>1, Serving, Static DEF Good, Loaded, PastLoad, Outsider, Undecided
  <1>8. Decided(r)'
    BY <1>1, Serving, Static DEF Good, Decided, PastDecide, Linked
  <1> QED BY <1>1, <1>3, <1>4, <1>5, <1>6, <1>7, <1>8 DEF OfOne, Good

LEMMA GateStep == ASSUME IInv, NEW r \in Request, Gate(r) PROVE OfOne(r)
  <1>1. /\ pc(r) = "gate" /\ clock' = clock /\ holds' = holds /\ flip' = flip
        /\ req[r].todo # {} /\ Cred(r) \in Token /\ req[r].begun <= clock /\ req[r].reply # "yes"
    BY Serving, AccessAssumption DEF Gate, facts, Good, Staged, Early, Inside
  <1>2. CASE Usable(MemberKey(r)) /\ Judge(r, answers[MemberKey(r)].yes)
    <2> DEFINE k == MemberKey(r)
               a == answers[k]
    <2>1. k \in DOMAIN answers /\ clock <= a.expire /\ a.expire \in Nat /\ a.yes \in BOOLEAN
      BY <1>2 DEF Usable, IInv, CachesOK
    <2>2. k[1] = "member"
      BY DEF MemberKey
    <2>3. a.yes => MemberIn(holds, flip, k, a.expire, W)
      BY <2>1, <2>2 DEF IInv, AnswersFounded
    <2>4. req[r].begun + W <= a.expire + W
      BY <1>1, <2>1, Serving
    <2>5. Judge(r, a.yes)
      BY <1>2
    <2> HIDE DEF k, a
    <2>6. \A j : MemberIn(holds, flip, j, a.expire, W) =>
                     MemberIn(holds, flip, j, req[r].begun, W)
      BY <2>1, <2>4, Serving, Weaker
    <2>7. a.yes => MemberIn(holds, flip, MemberKey(r), req[r].begun, W)
      BY <2>3, <2>6 DEF k
    <2> QED BY <1>1, <2>1, <2>5, <2>7, Judged
  <1>3. CASE req' = [req EXCEPT ![r].pc = "member_call", ![r].sent = clock,
                                ![r].left = req[r].who]
    <2> DEFINE x == [req[r] EXCEPT !.pc = "member_call", !.sent = clock, !.left = req[r].who]
    <2>1. /\ x \in RequestRecord /\ x.pc = "member_call"
          /\ x.query = req[r].query /\ x.who = req[r].who /\ x.begun = req[r].begun
          /\ x.owner = req[r].owner /\ x.home = req[r].home
          /\ x.todo = req[r].todo /\ x.granted = req[r].granted /\ x.left = req[r].who
          /\ x.sent = clock /\ x.reply = req[r].reply
      BY Serving DEF RequestRecord, Labels
    <2>2. req' = [req EXCEPT ![r] = x]
      BY <1>3, Serving
    <2>3. clock <= clock + Timeout /\ clock <= clock
      BY Serving
    <2> HIDE DEF x
    <2> QED BY <1>1, <2>1, <2>2, <2>3, AsksOn
  <1> QED BY <1>2, <1>3 DEF Gate

LEMMA AnswerMemberStep == ASSUME IInv, NEW r \in Request, AnswerMember(r) PROVE OfOne(r)
  <1>1. /\ pc(r) = "member_call" /\ clock' = clock /\ holds' = holds /\ flip' = flip
        /\ req[r].todo # {} /\ req[r].begun <= req[r].sent /\ req[r].sent <= clock
        /\ clock <= req[r].sent + Timeout /\ req[r].left \subseteq req[r].who
        /\ \A k \in req[r].todo : Named(r, k) \in Channel
    BY Serving DEF AnswerMember, facts, Good, Staged, Timed, Typed, Calling, Early, Inside
  <1>2. PICK u \in req[r].left, a \in {"yes", "no"} :
          /\ a = "yes" => Member(u, Named(r, Claim(r))) \in holds
          /\ req' = [req EXCEPT ![r].reply = a, ![r].left = @ \ {u}]
    BY DEF AnswerMember
  <1> DEFINE rest == req[r].left \ {u}
             x == [req[r] EXCEPT !.reply = a, !.left = rest]
  <1>3. /\ rest \in SUBSET Uid /\ rest \subseteq req[r].who
    BY <1>1, Serving DEF RequestRecord
  <1>4. req' = [req EXCEPT ![r] = x]
    BY <1>2, Serving
  <1> HIDE DEF rest
  <1>5. /\ x \in RequestRecord /\ x.pc = "member_call"
        /\ x.query = req[r].query /\ x.who = req[r].who /\ x.begun = req[r].begun
        /\ x.owner = req[r].owner /\ x.home = req[r].home
        /\ x.todo = req[r].todo /\ x.granted = req[r].granted /\ x.left = rest
        /\ x.sent = req[r].sent /\ x.reply = a
    BY <1>1, <1>3, Serving DEF RequestRecord, pc
  <1>6. a = "yes" => MemberIn(holds, flip, MemberKey(r), req[r].sent, 0)
    <2> DEFINE k == MemberKey(r)
    <2>1. /\ k[1] = "member" /\ k[3] = req[r].who /\ k[4] = Named(r, Claim(r))
          /\ Claim(r) \in req[r].todo
      BY <1>1, Serving, Claiming DEF MemberKey
    <2>2. u \in req[r].who /\ u \in Uid
      BY <1>1, Serving DEF RequestRecord
    <2> HIDE DEF k
    <2> QED BY <1>1, <1>2, <2>1, <2>2 DEF MemberIn, RecentIn, k
  <1> HIDE DEF x
  <1> QED BY <1>1, <1>3, <1>4, <1>5, <1>6, AsksOn

LEMMA ConfirmedStep == ASSUME IInv, NEW r \in Request, Confirmed(r) PROVE OfOne(r)
  <1>1. /\ pc(r) = "member_call" /\ clock' = clock /\ holds' = holds /\ flip' = flip
        /\ req[r].begun <= req[r].sent /\ req[r].sent <= clock
        /\ clock <= req[r].sent + Timeout /\ req[r].left \subseteq req[r].who
        /\ req[r].reply = "yes" => MemberIn(holds, flip, MemberKey(r), req[r].sent, 0)
    BY Serving DEF Confirmed, facts, Good, Staged, Timed, Typed, Vouched, Calling, Early
  <1>2. CASE req[r].reply = "no" /\ Call(r, "member_call")
    <2> DEFINE x == [req[r] EXCEPT !.pc = "member_call", !.sent = clock, !.reply = None]
    <2>1. req' = [req EXCEPT ![r] = x]
      BY <1>2, Serving DEF Call
    <2>2. /\ x \in RequestRecord /\ x.pc = "member_call"
          /\ x.query = req[r].query /\ x.who = req[r].who /\ x.begun = req[r].begun
          /\ x.owner = req[r].owner /\ x.home = req[r].home
          /\ x.todo = req[r].todo /\ x.granted = req[r].granted /\ x.left = req[r].left
          /\ x.sent = clock /\ x.reply = None
      BY Serving DEF RequestRecord, Labels
    <2>3. clock <= clock + Timeout /\ req[r].begun <= clock /\ clock <= clock
      BY <1>1, Serving
    <2>4. None # "yes"
      BY AccessAssumption
    <2> HIDE DEF x
    <2> QED BY <1>1, <2>1, <2>2, <2>3, <2>4, AsksOn
  <1>3. CASE Judge(r, FALSE)
    BY <1>1, <1>3, Judged
  <1>4. CASE req[r].reply = "yes" /\ Judge(r, TRUE)
    <2>1. \A k : MemberIn(holds, flip, k, req[r].sent, 0) =>
                     MemberIn(holds, flip, k, req[r].begun, W)
      <3>1. req[r].begun + 0 <= req[r].sent + W
        BY <1>1, Serving
      <3> QED BY <3>1, Serving, Weaker
    <2> QED BY <1>1, <1>4, <2>1, Judged
  <1> QED BY <1>2, <1>3, <1>4 DEF Confirmed

LEMMA EndStep ==
    ASSUME IInv, NEW r \in Request,
           \/ Decline(r) \/ TimeOut(r) \/ Fail(r) \/ QueryList(r) \/ Show(r) \/ Respond(r)
    PROVE  OfOne(r)
  <1>1. CASE \E o \in Outcomes : Finish(r, o)
    BY <1>1, Finished
  <1>2. CASE Respond(r)
    <2>1. req'[r] = [req[r] EXCEPT !.pc = "done", !.outcome = "none"] /\ req[r].granted = {}
      BY <1>2, Serving DEF Respond, Good, Vouched, Inside
    <2>2. req'[r] \in RequestRecord /\ pc(r)' \in Early /\ req'[r].granted = {}
      BY <2>1, Serving DEF RequestRecord, Labels, Outcomes, Early, pc
    <2> QED BY <1>2, <2>2, EarlyIsGood, Serving DEF OfOne, Respond
  <1> QED BY <1>1, <1>2 DEF Decline, TimeOut, Fail, QueryList, Show, Outcomes

\* A request that only goes to another place.
LEMMA WentTo ==
    ASSUME IInv, NEW r \in Request, pc(r) \in Inside \ {"member_call"},
           NEW label \in Inside \ {"member_call"}, Goto(r, label),
           clock' = clock, holds' = holds, flip' = flip,
           Staged(r)', Owned(r)', Loaded(r)', Outsider(r)', Decided(r)'
    PROVE  OfOne(r)
  <1>1. req'[r] = [req[r] EXCEPT !.pc = label] /\ label \in Labels
    BY Serving DEF Goto, Inside, Labels
  <1>2. /\ req'[r] \in RequestRecord /\ req'[r].pc = label
        /\ req'[r].query = req[r].query /\ req'[r].begun = req[r].begun
        /\ req'[r].granted = req[r].granted /\ req'[r].who = req[r].who
        /\ req'[r].owner = req[r].owner /\ req'[r].home = req[r].home
    BY <1>1, Serving DEF RequestRecord
  <1>3. pc(r)' = label
    BY <1>2 DEF pc
  <1>4. Good(r)'
    BY <1>2, <1>3, GoesOn
  <1> QED BY <1>2, <1>4, Serving DEF OfOne, Goto

LEMMA GotoFields ==
    ASSUME IInv, NEW r \in Request, NEW label \in Inside, Goto(r, label)
    PROVE  /\ pc(r)' = label /\ req'[r].todo = req[r].todo /\ req'[r].left = req[r].left
           /\ req'[r].query = req[r].query /\ req'[r].begun = req[r].begun
           /\ req'[r].granted = req[r].granted /\ req'[r].who = req[r].who
           /\ req'[r].owner = req[r].owner /\ req'[r].home = req[r].home
           /\ req'[r].reply = req[r].reply
  BY Serving DEF Goto, pc, RequestRecord

LEMMA AskModelStep == ASSUME IInv, NEW r \in Request, AskModel(r) PROVE OfOne(r)
  <1>1. /\ pc(r) = "model" /\ clock' = clock /\ holds' = holds /\ flip' = flip
        /\ pc(r) \in Inside \ {"member_call"} /\ "act" \in Inside \ {"member_call"}
        /\ Goto(r, "act") /\ Op(r) \in {"extract", "progress"} /\ req[r].todo = {}
    BY Serving DEF AskModel, facts, Inside, Good, Staged, Owned
  <1>2. /\ pc(r)' = "act" /\ req'[r].todo = req[r].todo
        /\ req'[r].query = req[r].query /\ req'[r].begun = req[r].begun
        /\ req'[r].granted = req[r].granted /\ req'[r].who = req[r].who
        /\ req'[r].owner = req[r].owner /\ req'[r].home = req[r].home
        /\ req'[r].reply = req[r].reply
    BY <1>1, GotoFields
  <1>3. Staged(r)' /\ Owned(r)'
    BY <1>1, <1>2, Serving, Static DEF Good, Staged, Owned, Inside
  <1>4. Loaded(r)' /\ Outsider(r)'
    BY <1>1, <1>2, Serving, Static DEF Good, Loaded, PastLoad, Outsider, Undecided
  <1>5. Decided(r)'
    BY <1>1, <1>2, Serving, Static DEF Good, Decided, PastDecide, Linked
  <1> QED BY <1>1, <1>3, <1>4, <1>5, WentTo

LEMMA DecideStep == ASSUME IInv, NEW r \in Request, Decide(r) PROVE OfOne(r)
  <1> DEFINE label == Accepted(Op(r), req[r].todo)
  <1>1. /\ pc(r) = "decide" /\ clock' = clock /\ holds' = holds /\ flip' = flip
        /\ pc(r) \in Inside \ {"member_call"} /\ pc(r) \notin Early
        /\ Op(r) \in {"get", "audit", "write", "progress", "link"} /\ Op(r) \in Ops
        /\ req[r].todo \in SUBSET ClaimKinds
        /\ SpaceOf(r) = Place /\ RecentIn(holds, flip, Live, req[r].begun, 0)
        /\ \A k \in req[r].todo : Op(r) \in Asks(k)
        /\ Op(r) = "link" => req[r].todo = {}
    BY Serving DEF Decide, facts, Inside, Early, Good, Staged, Owned, Loaded, PastLoad
  <1>2. CASE Finish(r, "forbidden")
    BY <1>2, Finished DEF Outcomes
  <1>3. CASE /\ Op(r) = "link" => \E u \in UIDs(r) : Assignee(u) \in holds
             /\ Op(r) # "link" => HasRole(r) \/ HasLink(r)
             /\ Goto(r, label)
    <2>1. /\ Op(r) = "link" => AssignedIn(holds, flip, UIDs(r), req[r].begun)
          /\ Op(r) # "link" => RoleIn(holds, flip, UIDs(r), req[r].begun) \/ Linked(r)
      <3>1. UIDs(r) \subseteq Uid
        BY Serving DEF UIDs, Owner, RequestRecord
      <3> QED BY <1>3, <3>1 DEF AssignedIn, RoleIn, RecentIn, Linked, HasRole, HasLink
    <2>2. /\ label \in {"show", "act", "gate", "model"}
          /\ label = "show" => Op(r) \in {"get", "audit"}
          /\ label = "act" => Op(r) \in {"write", "link"}
          /\ label \in {"gate", "model"} => Op(r) = "progress"
          /\ label = "gate" => req[r].todo # {}
          /\ label = "model" => req[r].todo = {}
      BY <1>1, Following
    <2>3. /\ "source" \notin req[r].todo
          /\ Op(r) \in {"get", "audit", "write", "link"} => req[r].todo = {}
      BY <1>1, Serving DEF Good, Staged, Asks, ClaimKinds
    <2> HIDE DEF label
    <2>4. /\ pc(r)' = label /\ req'[r].todo = req[r].todo
          /\ req'[r].query = req[r].query /\ req'[r].begun = req[r].begun
          /\ req'[r].granted = req[r].granted /\ req'[r].who = req[r].who
          /\ req'[r].owner = req[r].owner /\ req'[r].home = req[r].home
          /\ req'[r].reply = req[r].reply /\ label \in Inside \ {"member_call"}
      BY <1>3, <2>2, GotoFields DEF Inside
    <2>5. Staged(r)' /\ Owned(r)'
      BY <1>1, <2>2, <2>3, <2>4, Serving, Static DEF Good, Staged, Owned, Inside
    <2>6. Loaded(r)'
      BY <1>1, <2>4, Static DEF Loaded
    <2>7. Outsider(r)'
      BY <2>2, <2>3, <2>4, Static DEF Outsider, Undecided
    <2>8. Decided(r)'
      <3>1. Linked(r) => Linked(r)'
        BY <1>1, <2>4, Static DEF Linked
      <3> QED BY <1>1, <2>1, <2>4, <3>1, Static DEF Decided
    <2> QED BY <1>1, <1>3, <2>4, <2>5, <2>6, <2>7, <2>8, WentTo
  <1> QED BY <1>2, <1>3 DEF Decide

LEMMA Outcome ==
    ASSUME NEW r \in Request
    PROVE  LET o == CASE Op(r) = "link" -> "linked"
                      [] Op(r) \in {"write", "progress"} -> "written"
                      [] Op(r) \in {"create", "extract"} -> "made"
           IN  /\ Op(r) = "link" => o = "linked"
               /\ Op(r) \in {"write", "progress"} => o = "written"
               /\ Op(r) \in {"create", "extract"} => o = "made"
  BY Zenon

LEMMA ActStep == ASSUME IInv, NEW r \in Request, Act(r) PROVE OfOne(r)
  <1> DEFINE o == CASE Op(r) = "link" -> "linked"
                    [] Op(r) \in {"write", "progress"} -> "written"
                    [] Op(r) \in {"create", "extract"} -> "made"
  <1>1. CASE Finish(r, "forbidden")
    BY <1>1, Finished DEF Outcomes
  <1>2. CASE Finish(r, o)
    <2>1. Op(r) \in {"write", "progress", "link", "create", "extract"}
      BY Serving DEF Act, Good, Staged
    <2>2. o \in Outcomes
      BY <2>1, Outcome DEF Outcomes
    <2> HIDE DEF o
    <2> QED BY <1>2, <2>2, Finished
  <1> QED BY <1>1, <1>2 DEF Act

-----------------------------------------------------------------------------
IdsOK     == /\ DOMAIN ids \subseteq Token
             /\ ids \in [DOMAIN ids -> [uids : SUBSET Uid, owner : Uid \cup {None},
                                       home : Space \cup {None}, expire : Nat]]
AnswersOK == answers \in [DOMAIN answers -> [yes : BOOLEAN, expire : Nat]]

\* The caches lose entries at most, while facts change and time passes.
LEMMA IdsKept ==
    ASSUME IInv, Moves(holds, flip, holds', flip', clock), clock' \in Nat, clock' >= clock,
           NEW kept \in SUBSET DOMAIN ids, ids' = [t \in kept |-> ids[t]]
    PROVE  IdsOK' /\ IdsFounded'
  <1>1. DOMAIN ids' = kept /\ \A t \in kept : ids'[t] = ids[t]
    OBVIOUS
  <1>2. IdsOK'
    BY <1>1 DEF IdsOK, IInv, CachesOK
  <1>3. ASSUME NEW t \in kept
        PROVE  /\ ids[t].expire <= clock' + TTL
               /\ IdentifiesIn(holds', flip', t, Kept(t), ids[t].expire, W)
    <2> DEFINE x == ids[t].expire
               id == Kept(t)
    <2>1. /\ x <= clock + TTL /\ x \in Nat /\ t \in Token
          /\ IdentifiesIn(holds, flip, t, id, x, W)
      BY DEF IInv, CachesOK, IdsFounded
    <2>2. clock \in Nat /\ TTL \in Nat /\ Timeout \in Nat /\ W \in Nat /\ W = TTL + Timeout
      BY AccessAssumption DEF IInv, FactsOK, W
    <2>3. x <= clock + W /\ x <= clock' + TTL
      BY <2>1, <2>2
    <2> HIDE DEF x, id
    <2>4. \A vs : \A s \in Token : IdentifiesIn(holds, flip, s, vs, x, W) =>
                                   IdentifiesIn(holds', flip', s, vs, x, W)
      BY <2>1, <2>2, <2>3, Moved
    <2>5. IdentifiesIn(holds', flip', t, id, x, W)
      BY <2>1, <2>4
    <2> QED BY <2>3, <2>5 DEF x, id
  <1>4. \A t \in kept : Kept(t)' = Kept(t)
    BY <1>1 DEF Kept
  <1> QED BY <1>1, <1>2, <1>3, <1>4 DEF IdsFounded

LEMMA AnswersKept ==
    ASSUME IInv, Moves(holds, flip, holds', flip', clock), clock' \in Nat, clock' >= clock,
           NEW kept \in SUBSET DOMAIN answers, answers' = [k \in kept |-> answers[k]]
    PROVE  AnswersOK' /\ AnswersFounded'
  <1>1. DOMAIN answers' = kept /\ \A k \in kept : answers'[k] = answers[k]
    OBVIOUS
  <1>2. AnswersOK'
    BY <1>1 DEF AnswersOK, IInv, CachesOK
  <1>3. ASSUME NEW k \in kept
        PROVE  /\ answers[k].expire <= clock' + TTL
               /\ k[1] = "space" => SpaceIn(holds', flip', k, answers[k].expire, W)
               /\ (k[1] = "member" /\ answers[k].yes) =>
                      MemberIn(holds', flip', k, answers[k].expire, W)
    <2> DEFINE x == answers[k].expire
               a == answers[k].yes
    <2>1. /\ x <= clock + TTL /\ x \in Nat
          /\ k[1] = "space" => SpaceIn(holds, flip, k, x, W)
          /\ (k[1] = "member" /\ a) => MemberIn(holds, flip, k, x, W)
      BY DEF IInv, CachesOK, AnswersFounded
    <2>2. clock \in Nat /\ TTL \in Nat /\ Timeout \in Nat /\ W \in Nat /\ W = TTL + Timeout
      BY AccessAssumption DEF IInv, FactsOK, W
    <2>3. x <= clock + W /\ x <= clock' + TTL
      BY <2>1, <2>2
    <2> HIDE DEF x, a
    <2>4. /\ \A j : SpaceIn(holds, flip, j, x, W) => SpaceIn(holds', flip', j, x, W)
          /\ \A j : MemberIn(holds, flip, j, x, W) => MemberIn(holds', flip', j, x, W)
      BY <2>1, <2>2, <2>3, Moved
    <2>5. /\ k[1] = "space" => SpaceIn(holds', flip', k, x, W)
          /\ (k[1] = "member" /\ a) => MemberIn(holds', flip', k, x, W)
      BY <2>1, <2>4
    <2> QED BY <2>3, <2>5 DEF x, a
  <1> QED BY <1>1, <1>2, <1>3 DEF AnswersFounded

\* What is kept of a token is not older than the timeout of the call that asked.
LEMMA IdsPut ==
    ASSUME IInv, NEW r \in Request, Authenticated(r), req[r].reply = "yes"
    PROVE  IdsOK' /\ IdsFounded'
  <1>0. PICK t \in Token : t = Cred(r)
    BY Serving DEF Authenticated, Early
  <1> DEFINE us == req[r].who
             o == req[r].owner
             h == req[r].home
             id == Told(r)
  <1>1. /\ pc(r) = "auth_call" /\ clock' = clock /\ holds' = holds /\ flip' = flip
        /\ PutIdentity(r) /\ t \in Token /\ us \in SUBSET Uid
        /\ o \in Uid \cup {None} /\ h \in Space \cup {None}
        /\ IdentifiesIn(holds, flip, t, id, req[r].sent, 0)
        /\ clock <= req[r].sent + Timeout
    BY <1>0, Serving DEF Authenticated, facts, Good, Identified, Typed, Calling, Early,
       RequestRecord
  <1>2. PICK kept \in SUBSET DOMAIN ids :
          ids' = [s \in kept \cup {t} |->
                    IF s = t THEN [uids |-> us, owner |-> o, home |-> h,
                                   expire |-> clock + TTL] ELSE ids[s]]
    BY <1>0, <1>1 DEF PutIdentity
  <1> DEFINE x == clock + TTL
  <1>3. x + 0 <= req[r].sent + W /\ x \in Nat
    BY <1>1, Serving DEF W
  <1>4. \A vs : \A s \in Token : IdentifiesIn(holds, flip, s, vs, req[r].sent, 0) =>
                                 IdentifiesIn(holds, flip, s, vs, x, W)
    <2> HIDE DEF x, us, id
    <2>1. req[r].sent \in Nat /\ W \in Nat /\ \A f \in DOMAIN flip : flip[f] \in Nat
      BY Serving
    <2> QED BY ONLY <1>3, <2>1, Weaker
  <1>5. IdentifiesIn(holds, flip, t, id, x, W)
    BY <1>1, <1>4
  <1>6. IdsOK'
    BY <1>1, <1>2, <1>3 DEF IdsOK, IInv, CachesOK
  <1>7. IdsFounded'
    <2>1. /\ DOMAIN ids' = kept \cup {t} /\ ids'[t].expire = x /\ Kept(t)' = id
          /\ \A s \in kept \ {t} : ids'[s] = ids[s] /\ Kept(s)' = Kept(s)
      <3>1. /\ DOMAIN ids' = kept \cup {t}
            /\ ids'[t] = [uids |-> us, owner |-> o, home |-> h, expire |-> x]
            /\ \A s \in kept \ {t} : ids'[s] = ids[s]
        BY <1>2
      <3> QED BY <3>1 DEF Kept, Told
    <2> HIDE DEF x, us, o, h, id
    <2>2. IdentifiesIn(holds', flip', t, Kept(t)', ids'[t].expire, W)
      BY <1>1, <1>5, <2>1
    <2>3. x <= clock' + TTL
      BY <1>1, <1>3, Serving DEF x
    <2>4. ASSUME NEW s \in kept \ {t}
          PROVE  /\ ids'[s].expire <= clock' + TTL
                 /\ IdentifiesIn(holds', flip', s, Kept(s)', ids'[s].expire, W)
      BY <1>1, <2>1 DEF IdsFounded, IInv
    <2>5. ids'[t].expire <= clock' + TTL
      BY <2>1, <2>3
    <2> QED BY <2>1, <2>2, <2>4, <2>5 DEF IdsFounded
  <1> QED BY <1>6, <1>7

LEMMA AnswersPut ==
    ASSUME IInv, NEW r \in Request, Calling(r), NEW key, NEW yes \in BOOLEAN, Put(key, yes),
           clock' = clock, holds' = holds, flip' = flip,
           key[1] = "space" => SpaceIn(holds, flip, key, req[r].sent, 0),
           (key[1] = "member" /\ yes) => MemberIn(holds, flip, key, req[r].sent, 0)
    PROVE  AnswersOK' /\ AnswersFounded'
  <1>1. PICK kept \in SUBSET DOMAIN answers :
          answers' = [k \in kept \cup {key} |->
                    IF k = key THEN [yes |-> yes, expire |-> clock + TTL] ELSE answers[k]]
    BY DEF Put
  <1> DEFINE x == clock + TTL
  <1>2. x + 0 <= req[r].sent + W /\ x \in Nat
    BY Serving DEF W, Good, Typed
  <1>3. /\ \A k : SpaceIn(holds, flip, k, req[r].sent, 0) => SpaceIn(holds, flip, k, x, W)
        /\ \A k : MemberIn(holds, flip, k, req[r].sent, 0) => MemberIn(holds, flip, k, x, W)
    <2> HIDE DEF x
    <2> QED BY <1>2, Serving, Weaker
  <1>4. AnswersOK'
    BY <1>1, <1>2 DEF AnswersOK, IInv, CachesOK
  <1>5. AnswersFounded'
    BY <1>1, <1>2, <1>3 DEF AnswersFounded, IInv
  <1> QED BY <1>4, <1>5

-----------------------------------------------------------------------------
\* A step changes facts now, if it does.
LEMMA Stamped ==
    ASSUME IInv, NEW fs \in SUBSET Fact, flip' = Stamp(fs), clock' = clock,
           holds' \subseteq Fact, changes' \in Nat,
           \A f \in Fact \ fs : f \in holds' <=> f \in holds
    PROVE  Moves(holds, flip, holds', flip', clock) /\ FactsOK' /\ Dated'
  <1>1. /\ clock \in Nat /\ DOMAIN flip \subseteq Fact /\ flip \in [DOMAIN flip -> Nat]
        /\ \A f \in DOMAIN flip : flip[f] <= clock
    BY DEF IInv, FactsOK, Dated
  <1>2. /\ DOMAIN flip' = DOMAIN flip \cup fs
        /\ \A f \in DOMAIN flip' : flip'[f] = IF f \in fs THEN clock ELSE flip[f]
    BY DEF Stamp
  <1>3. Moves(holds, flip, holds', flip', clock)
    BY <1>1, <1>2 DEF Moves
  <1>4. flip' \in [DOMAIN flip' -> Nat]
    BY <1>1, <1>2 DEF Stamp
  <1>5. FactsOK' /\ Dated'
    BY <1>1, <1>2, <1>4 DEF FactsOK, Dated
  <1> QED BY <1>3, <1>5

LEMMA FactsStay ==
    ASSUME IInv, UNCHANGED facts, clock' \in Nat, clock' >= clock
    PROVE  Moves(holds, flip, holds', flip', clock) /\ FactsOK' /\ Dated'
  BY DEF IInv, FactsOK, Dated, Moves, facts

LEMMA FactsStep ==
    ASSUME IInv, [Next]_vars
    PROVE  /\ Moves(holds, flip, holds', flip', clock) /\ FactsOK' /\ Dated'
           /\ clock' \in Nat /\ clock' >= clock
  <1>1. clock \in Nat
    BY DEF IInv, FactsOK
  <1>2. CASE UNCHANGED facts /\ clock' = clock
    BY <1>1, <1>2, FactsStay
  <1>3. CASE Tick
    <2>1. UNCHANGED facts /\ clock' \in Nat /\ clock' >= clock
      BY <1>1, <1>3 DEF Tick
    <2> QED BY <2>1, FactsStay
  <1>4. CASE \E f \in Mutable : Change(f)
    <2>1. PICK f \in Mutable : Change(f)
      BY <1>4
    <2>2. /\ {f} \in SUBSET Fact /\ flip' = Stamp({f}) /\ clock' = clock
          /\ holds' \subseteq Fact /\ changes' \in Nat
          /\ \A g \in Fact \ {f} : g \in holds' <=> g \in holds
      BY <2>1, AccessAssumption DEF Change, IInv, FactsOK
    <2> QED BY <1>1, <2>2, Stamped
  <1>5. ASSUME NEW r \in Request, Act(r), ~UNCHANGED facts
        PROVE  /\ Moves(holds, flip, holds', flip', clock) /\ FactsOK' /\ Dated'
               /\ clock' \in Nat /\ clock' >= clock
    <2>1. Op(r) \in {"write", "progress", "link", "create", "extract"} /\ Asked(r) \in Query
          /\ Cred(r) \in Token
      BY <1>5, Serving DEF Act, Good, Staged, Early
    <2>2. Added(r) \subseteq Fact
      <3>1. Op(r) \in {"progress", "link"} => Asked(r).source \in Channel
        BY <2>1, AccessAssumption DEF Op
      <3>2. Self[Cred(r)] \in Uid /\ Asked(r).target \in Uid
        BY <2>1, AccessAssumption
      <3>3. /\ Op(r) = "link" => Added(r) = {Link(Asked(r).source)}
            /\ Op(r) = "write" => Added(r) = {Participant(Self[Cred(r)])}
            /\ Op(r) = "progress" =>
                   Added(r) = {Participant(Asked(r).target), Link(Asked(r).source)}
            /\ Op(r) \in {"create", "extract"} => Added(r) = {}
        BY Zenon DEF Added
      <3> QED BY <2>1, <3>1, <3>2, <3>3, Facts
    <2>3. /\ holds' = holds \cup Added(r) /\ flip' = Stamp(Added(r) \ holds)
          /\ clock' = clock /\ changes' = changes
      BY <1>5 DEF Act
    <2>4. /\ Added(r) \ holds \in SUBSET Fact /\ holds' \subseteq Fact /\ changes' \in Nat
          /\ \A f \in Fact \ (Added(r) \ holds) : f \in holds' <=> f \in holds
      BY <2>2, <2>3 DEF IInv, FactsOK
    <2> QED BY <1>1, <2>3, <2>4, Stamped
  <1>6. ASSUME NEW r \in Request, Arrive(r) \/ Serve(r) \/ Answer(r) \/ Fail(r), ~Act(r)
        PROVE  UNCHANGED facts /\ clock' = clock
    BY <1>6 DEF Arrive, Serve, Answer, Fail, Pass, Ask, Authenticate, Authenticated, EnterSpace,
       Entered, Gate, Confirmed, TimeOut, Load, Decide, QueryList, Show, AskModel, Respond,
       AnswerAuth, AnswerSpace, AnswerMember, Decline
  <1>7. \A r \in Request : Act(r) => clock' = clock
    BY DEF Act
  <1>8. Evict => UNCHANGED facts /\ clock' = clock
    BY DEF Evict
  <1>9. UNCHANGED vars => UNCHANGED facts /\ clock' = clock
    BY DEF vars
  <1> QED BY <1>2, <1>3, <1>4, <1>5, <1>6, <1>7, <1>8, <1>9 DEF Next

LEMMA CachesStep ==
    ASSUME IInv, [Next]_vars
    PROVE  IdsOK' /\ IdsFounded' /\ AnswersOK' /\ AnswersFounded'
  <1>1. /\ Moves(holds, flip, holds', flip', clock) /\ clock' \in Nat /\ clock' >= clock
    BY FactsStep
  <1>2. ids' = ids => IdsOK' /\ IdsFounded'
    <2>1. ids = [t \in DOMAIN ids |-> ids[t]]
      BY DEF IInv, CachesOK
    <2> QED BY <1>1, <2>1, IdsKept
  <1>3. answers' = answers => AnswersOK' /\ AnswersFounded'
    <2>1. answers = [k \in DOMAIN answers |-> answers[k]]
      BY DEF IInv, CachesOK
    <2> QED BY <1>1, <2>1, AnswersKept
  <1>4. CASE Evict
    <2>1. ids' # ids => IdsOK' /\ IdsFounded'
      <3>1. ids' # ids => ids' = [t \in {t \in DOMAIN ids : Known(t)} |-> ids[t]]
        BY <1>4 DEF Evict
      <3> DEFINE kept == {t \in DOMAIN ids : Known(t)}
      <3>2. kept \in SUBSET DOMAIN ids
        OBVIOUS
      <3> HIDE DEF kept
      <3>3. ids' = [t \in kept |-> ids[t]] => IdsOK' /\ IdsFounded'
        BY <1>1, <3>2, IdsKept
      <3> QED BY <3>1, <3>3 DEF kept
    <2>2. answers' # answers => AnswersOK' /\ AnswersFounded'
      <3>1. answers' # answers => \E kept \in SUBSET DOMAIN answers :
                                      answers' = [k \in kept |-> answers[k]]
        BY <1>4 DEF Evict
      <3>2. \A kept \in SUBSET DOMAIN answers :
               answers' = [k \in kept |-> answers[k]] => AnswersOK' /\ AnswersFounded'
        BY <1>1, AnswersKept
      <3> QED BY <3>1, <3>2
    <2> QED BY <1>2, <1>3, <2>1, <2>2
  <1>5. ASSUME NEW r \in Request, Authenticated(r)
        PROVE  IdsOK' /\ IdsFounded' /\ answers' = answers
    BY <1>2, <1>5, IdsPut DEF Authenticated
  <1>6. ASSUME NEW r \in Request, Entered(r)
        PROVE  AnswersOK' /\ AnswersFounded' /\ ids' = ids
    <2>1. /\ pc(r) = "space_call" /\ clock' = clock /\ holds' = holds /\ flip' = flip
          /\ Put(SpaceKey(r), TRUE) /\ Calling(r) /\ ids' = ids
          /\ SpaceIn(holds, flip, SpaceKey(r), req[r].sent, 0)
      BY <1>6, Serving DEF Entered, facts, Good, Admitted, Calling
    <2>2. SpaceKey(r)[1] = "space"
      BY DEF SpaceKey
    <2> DEFINE key == SpaceKey(r)
    <2>3. Put(key, TRUE) /\ key[1] = "space" /\ SpaceIn(holds, flip, key, req[r].sent, 0)
      BY <2>1, <2>2
    <2> HIDE DEF key
    <2> QED BY <2>1, <2>3, AnswersPut
  <1>7. ASSUME NEW r \in Request, Confirmed(r)
        PROVE  AnswersOK' /\ AnswersFounded' /\ ids' = ids
    <2>1. /\ pc(r) = "member_call" /\ clock' = clock /\ holds' = holds /\ flip' = flip
          /\ Calling(r) /\ ids' = ids
          /\ req[r].reply = "yes" => MemberIn(holds, flip, MemberKey(r), req[r].sent, 0)
      BY <1>7, Serving DEF Confirmed, facts, Good, Vouched, Calling
    <2>2. MemberKey(r)[1] = "member"
      BY DEF MemberKey
    <2>3. \/ answers' = answers
          \/ Put(MemberKey(r), FALSE)
          \/ req[r].reply = "yes" /\ Put(MemberKey(r), TRUE)
      BY <1>7 DEF Confirmed
    <2> DEFINE key == MemberKey(r)
    <2>4. \A yes \in BOOLEAN : Put(key, yes) /\ (yes => req[r].reply = "yes") =>
                                   AnswersOK' /\ AnswersFounded'
      <3>1. key[1] = "member" /\ (req[r].reply = "yes" => MemberIn(holds, flip, key, req[r].sent, 0))
        BY <2>1, <2>2
      <3> HIDE DEF key
      <3> QED BY <2>1, <3>1, AnswersPut
    <2> QED BY <1>3, <2>1, <2>3, <2>4
  <1>8. ASSUME NEW r \in Request, Arrive(r) \/ Serve(r) \/ Answer(r) \/ Fail(r),
               ~Authenticated(r), ~Entered(r), ~Confirmed(r)
        PROVE  ids' = ids /\ answers' = answers
    BY <1>8 DEF Arrive, Serve, Answer, Fail, Pass, Ask, Authenticate, EnterSpace,
       Gate, TimeOut, Load, Decide, QueryList, Show, AskModel, Act, Respond,
       AnswerAuth, AnswerSpace, AnswerMember, Decline, caches
  <1>9. Tick \/ (\E f \in Mutable : Change(f)) \/ UNCHANGED vars => ids' = ids /\ answers' = answers
    BY DEF Tick, Change, caches, vars
  <1> QED BY <1>2, <1>3, <1>4, <1>5, <1>6, <1>7, <1>8, <1>9 DEF Next

LEMMA RequestsStep ==
    ASSUME IInv, [Next]_vars
    PROVE  req' \in [Request -> RequestRecord] /\ \A r \in Request : Good(r)'
  <1>1. /\ Moves(holds, flip, holds', flip', clock) /\ clock' \in Nat /\ clock' >= clock
        /\ clock \in Nat
    BY FactsStep DEF IInv, FactsOK
  <1>2. ASSUME NEW s \in Request, req'[s] = req[s],
               clock' = clock \/ Tick
        PROVE  Good(s)'
    <2>1. Calling(s) => clock' <= req[s].sent + Timeout
      BY <1>1, <1>2, Serving DEF Good, Typed, Tick
    <2> QED BY <1>1, <1>2, <2>1, Untouched
  <1>3. ASSUME NEW r \in Request, Arrive(r) \/ Serve(r) \/ Answer(r) \/ Fail(r)
        PROVE  OfOne(r) /\ clock' = clock
    <2>1. OfOne(r)
      BY <1>3, ArriveStep, AuthenticateStep, AuthenticatedStep, EnterSpaceStep, EnteredStep,
         GateStep, ConfirmedStep, LoadStep, DecideStep, AskModelStep, ActStep, EndStep,
         AnswerAuthStep, AnswerSpaceStep, AnswerMemberStep DEF Serve, Pass, Ask, Answer
    <2>2. clock' = clock
      BY <1>3 DEF Arrive, Serve, Answer, Fail, Pass, Ask, Authenticate, Authenticated, EnterSpace,
         Entered, Gate, Confirmed, TimeOut, Load, Decide, QueryList, Show, AskModel, Act, Respond,
         AnswerAuth, AnswerSpace, AnswerMember, Decline
    <2> QED BY <2>1, <2>2
  <1>4. (\E r \in Request : Arrive(r) \/ Serve(r) \/ Answer(r) \/ Fail(r)) =>
            req' \in [Request -> RequestRecord] /\ \A r \in Request : Good(r)'
    BY <1>2, <1>3 DEF OfOne
  <1>5. Evict \/ Tick \/ (\E f \in Mutable : Change(f)) \/ UNCHANGED vars =>
            req' = req /\ (clock' = clock \/ Tick)
    BY DEF Evict, Tick, Change, vars
  <1>6. req \in [Request -> RequestRecord]
    BY DEF IInv
  <1> QED BY <1>2, <1>4, <1>5, <1>6 DEF Next

LEMMA InitIInv == Init => IInv
  <1> SUFFICES ASSUME Init PROVE IInv
    OBVIOUS
  <1>1. Idle \in RequestRecord /\ Idle.pc = "idle" /\ Idle.granted = {}
    BY DEF Idle, RequestRecord, Labels, Outcomes
  <1>2. \A r \in Request : req[r] = Idle /\ pc(r) = "idle"
    BY <1>1 DEF Init, pc
  <1>3. \A r \in Request : Good(r)
    BY <1>1, <1>2 DEF Good, Typed, Timed, Staged, Owned, Identified, Admitted, Vouched, Loaded,
       PastLoad, Outsider, Undecided, Decided, PastDecide, Calling, Early, Inside
  <1>4. FactsOK /\ Dated
    BY AccessAssumption DEF Init, FactsOK, Dated
  <1>5. CachesOK /\ IdsFounded /\ AnswersFounded
    BY DEF Init, CachesOK, IdsFounded, AnswersFounded
  <1> QED BY <1>1, <1>3, <1>4, <1>5 DEF IInv, Init

LEMMA NextIInv == IInv /\ [Next]_vars => IInv'
  BY FactsStep, CachesStep, RequestsStep DEF IInv, CachesOK, IdsOK, AnswersOK

LEMMA Invariance == Spec => []IInv
  BY InitIInv, NextIInv, PTL DEF Spec

\* A call is not older than its timeout, the caches and the requests hold what they should.
THEOREM TypesAreKept == Spec => []TypeOK
  <1>1. IInv => TypeOK
    BY DEF IInv, TypeOK, Good, Typed, Early
  <1> QED BY <1>1, Invariance, PTL

-----------------------------------------------------------------------------
\* How a request ends, and where.
LEMMA Alone ==
    ASSUME IInv, NEW r \in Request, [Next]_vars, req'[r] # req[r]
    PROVE  Arrive(r) \/ Serve(r) \/ Answer(r) \/ Fail(r)
  <1>1. ASSUME NEW s \in Request, Arrive(s) \/ Serve(s) \/ Answer(s) \/ Fail(s), s # r
        PROVE  FALSE
    <2>1. OfOne(s)
      BY <1>1, ArriveStep, AuthenticateStep, AuthenticatedStep, EnterSpaceStep, EnteredStep,
         GateStep, ConfirmedStep, LoadStep, DecideStep, AskModelStep, ActStep, EndStep,
         AnswerAuthStep, AnswerSpaceStep, AnswerMemberStep DEF Serve, Pass, Ask, Answer
    <2> QED BY <1>1, <2>1 DEF OfOne
  <1>2. Evict \/ Tick \/ (\E f \in Mutable : Change(f)) \/ UNCHANGED vars => req' = req
    BY DEF Evict, Tick, Change, vars
  <1> QED BY <1>1, <1>2 DEF Next

LEMMA Finishing ==
    ASSUME IInv, NEW r \in Request, NEW o, Finish(r, o)
    PROVE  req'[r].outcome = o
  BY Serving DEF Finish, Idle

LEMMA Judging ==
    ASSUME IInv, NEW r \in Request, NEW yes \in BOOLEAN, Judge(r, yes), req'[r].outcome # req[r].outcome
    PROVE  Claim(r) = "own" /\ req'[r].outcome = "forbidden"
  <1>1. CASE Finish(r, "forbidden") /\ Claim(r) = "own"
    BY <1>1, Finishing
  <1>2. CASE req' = [req EXCEPT
           ![r].pc = IF Claim(r) = "source" /\ Op(r) # "list" THEN "decide"
                    ELSE Onward(Op(r), req[r].todo \ {Claim(r)}),
           ![r].todo = @ \ {Claim(r)},
           ![r].granted = IF yes THEN @ \cup {Claim(r)} ELSE @,
           ![r].left = {}, ![r].sent = 0, ![r].reply = None]
    BY <1>2, Serving DEF RequestRecord
  <1> QED BY <1>1, <1>2 DEF Judge

LEMMA Handling ==
    ASSUME IInv, NEW r \in Request, Handle(r), req'[r].outcome # req[r].outcome
    PROVE  Barred(r) /\ req'[r].outcome = "forbidden"
  <1>1. CASE Barred(r) /\ Finish(r, "forbidden")
    BY <1>1, Finishing
  <1>2. CASE req' = [req EXCEPT ![r].pc = Begin(Op(r), Claims(r)), ![r].todo = Claims(r),
                             ![r].sent = 0, ![r].reply = None]
    BY <1>2, Serving DEF RequestRecord
  <1> QED BY <1>1, <1>2 DEF Handle

Granted == {"shown", "linked", "written"}
Refused == {"forbidden", "not_found", "left_out"}

LEMMA Ending ==
    ASSUME IInv, NEW r \in Request, [Next]_vars, NEW o \in Granted \cup Refused, Ends(r, o)
    PROVE  \/ o = "shown" /\ Show(r)
           \/ o = "shown" /\ QueryList(r) /\ Visible(r)
           \/ o = "linked" /\ Act(r) /\ Op(r) = "link"
           \/ o = "written" /\ Act(r) /\ Op(r) \in {"write", "progress"}
           \/ o = "not_found" /\ Load(r) /\ ~Found(r)
           \/ o = "left_out" /\ QueryList(r) /\ ~Visible(r)
           \/ o = "forbidden" /\ Op(r) \in {"progress", "link", "create", "extract"}
           \/ o = "forbidden" /\ pc(r) = "decide" /\ ~HasRole(r)
  <1>1. req[r].outcome = "none" /\ req'[r].outcome = o /\ o # "none" /\ req'[r] # req[r]
    BY DEF Ends, Granted, Refused
  <1>2. Arrive(r) \/ Serve(r) \/ Answer(r) \/ Fail(r)
    BY <1>1, Alone
  <1>3. \A p \in Outcomes : Finish(r, p) => o = p
    BY <1>1, Finishing
  <1>4. CASE Arrive(r) \/ Authenticate(r) \/ Answer(r) \/ AskModel(r) \/ Respond(r)
    <2>1. Arrive(r) => req'[r].outcome = "none"
      BY <1>1, Serving DEF Arrive
    <2>2. Authenticate(r) \/ AnswerSpace(r) \/ AnswerMember(r) \/ AskModel(r)
              => req'[r].outcome = "none"
      BY <1>1, Serving DEF Authenticate, Call, Reply, AnswerSpace, AnswerMember, AskModel, Goto,
         RequestRecord
    <2>3. Respond(r) => req'[r].outcome = "none"
      BY Serving DEF Respond, RequestRecord
    <2>4. Decline(r) => o \in {"unavailable", "unauthorized"}
      BY <1>3 DEF Decline, Outcomes
    <2>5. AnswerAuth(r) => req'[r].outcome = "none"
      <3>1. ASSUME NEW us, NEW w, NEW s,
                   req' = [req EXCEPT ![r].reply = "yes", ![r].who = us, ![r].owner = w,
                                      ![r].home = s]
            PROVE  req'[r].outcome = "none"
        BY <1>1, <3>1, Serving DEF RequestRecord
      <3>2. Reply(r, "no") => req'[r].outcome = "none"
        BY <1>1, Serving DEF Reply, RequestRecord
      <3> QED BY <3>1, <3>2, Zenon DEF AnswerAuth
    <2> QED BY <1>1, <1>4, <2>1, <2>2, <2>3, <2>4, <2>5 DEF Answer, Granted, Refused
  <1>5. CASE Authenticated(r) \/ TimeOut(r) \/ Fail(r)
    <2>1. HangUp(r, "space") => req'[r].outcome = "none"
      BY <1>1, Serving DEF HangUp, RequestRecord
    <2> QED BY <1>1, <1>3, <1>5, <2>1 DEF Authenticated, TimeOut, Fail, Outcomes, Granted, Refused
  <1>6. CASE EnterSpace(r) \/ Entered(r)
    <2>1. Handle(r) => o = "forbidden" /\ Barred(r)
      BY <1>1, Handling
    <2>2. Call(r, "space_call") => req'[r].outcome = "none"
      BY <1>1, Serving DEF Call, RequestRecord
    <2>3. Finish(r, "invalid") => FALSE
      BY <1>3 DEF Outcomes, Granted, Refused
    <2> QED BY <1>1, <1>6, <2>1, <2>2, <2>3 DEF EnterSpace, Entered, Barred
  <1>7. CASE Gate(r) \/ Confirmed(r)
    <2>1. \A yes \in BOOLEAN : Judge(r, yes) => o = "forbidden" /\ Claim(r) = "own"
      BY <1>1, Judging
    <2>2. Call(r, "member_call") => req'[r].outcome = "none"
      BY <1>1, Serving DEF Call, RequestRecord
    <2>3. req' = [req EXCEPT ![r].pc = "member_call", ![r].sent = clock,
                             ![r].left = req[r].who] => req'[r].outcome = "none"
      BY <1>1, Serving DEF RequestRecord
    <2>4. \A k \in DOMAIN answers : answers[k].yes \in BOOLEAN
      BY DEF IInv, CachesOK
    <2>5. \E yes \in BOOLEAN : Judge(r, yes)
      BY <1>1, <1>7, <2>2, <2>3, <2>4 DEF Gate, Confirmed, Usable
    <2>6. Claim(r) = "own" => Op(r) \in {"progress", "link", "create", "extract"}
      <3>1. pc(r) \in {"gate", "member_call"} /\ req[r].todo # {}
        BY <1>7, Serving DEF Gate, Confirmed, Good, Staged
      <3> QED BY <3>1, Serving, Claiming DEF Good, Staged, Inside, Asks
    <2> QED BY <2>1, <2>5, <2>6
  <1>8. CASE Load(r)
    <2>1. Finish(r, "not_found") /\ ~Found(r) => o = "not_found"
      BY <1>3 DEF Outcomes
    <2>2. Found(r) => req'[r].outcome = "none"
      BY <1>1, <1>8, Serving DEF Load, Goto, RequestRecord
    <2> QED BY <1>1, <1>8, <2>1, <2>2 DEF Load
  <1>9. CASE Decide(r)
    <2>1. \A label : Goto(r, label) => req'[r].outcome = "none"
      BY <1>1, Serving DEF Goto, RequestRecord
    <2>2. Finish(r, "forbidden") => o = "forbidden"
      BY <1>3 DEF Outcomes
    <2>3. /\ pc(r) = "decide" /\ o = "forbidden"
          /\ Op(r) = "link" \/ ~HasRole(r)
      BY <1>1, <1>9, <2>1, <2>2 DEF Decide
    <2> QED BY <2>3
  <1>10. CASE QueryList(r)
    BY <1>3, <1>10 DEF QueryList, Outcomes
  <1>11. CASE Show(r)
    BY <1>3, <1>11 DEF Show, Outcomes
  <1>12. CASE Act(r)
    <2> DEFINE x == CASE Op(r) = "link" -> "linked"
                      [] Op(r) \in {"write", "progress"} -> "written"
                      [] Op(r) \in {"create", "extract"} -> "made"
    <2>1. /\ Op(r) = "link" => x = "linked"
          /\ Op(r) \in {"write", "progress"} => x = "written"
          /\ Op(r) \in {"create", "extract"} => x = "made"
      BY Outcome
    <2>2. /\ NewLink(r) /\ Finish(r, "forbidden")
          \/ Finish(r, x)
      BY <1>12 DEF Act
    <2> HIDE DEF x
    <2>3. Op(r) \in {"write", "progress", "link", "create", "extract"}
      BY <1>12, Serving DEF Act, Good, Staged
    <2>4. Finish(r, x) => o = x
      BY <1>1, Finishing
    <2>5. Finish(r, "forbidden") => o = "forbidden"
      BY <1>3 DEF Outcomes
    <2> QED BY <1>12, <2>1, <2>2, <2>3, <2>4, <2>5 DEF NewLink, Granted, Refused
  <1> QED BY <1>2, <1>4, <1>5, <1>6, <1>7, <1>8, <1>9, <1>10, <1>11, <1>12 DEF Serve, Pass, Ask

-----------------------------------------------------------------------------
\* What the parts of a good request say in the words of the properties.
LEMMA Bridge ==
    ASSUME IInv, NEW r \in Request, NEW f
    PROVE  /\ Lately(f, r) <=> RecentIn(holds, flip, f, req[r].begun, W)
           /\ Since(f, r) <=> RecentIn(holds, flip, f, req[r].begun, 0)
           /\ LongThroughout(f, r) <=> SteadyIn(holds, flip, f, req[r].begun, W)
           /\ Throughout(f, r) <=> SteadyIn(holds, flip, f, req[r].begun, 0)
  <1>1. f \in DOMAIN flip => /\ flip[f] + TTL + Timeout = flip[f] + W
                             /\ flip[f] + 0 = flip[f]
    BY Serving DEF W
  <1> QED BY <1>1 DEF Lately, Since, LongThroughout, Throughout, RecentIn, SteadyIn

LEMMA Acting ==
    ASSUME IInv, NEW r \in Request, pc(r) \in Inside
    PROVE  /\ UIDs(r) \subseteq Uid
           /\ \A u \in UIDs(r) : ActedFor(r, u)
           /\ \A u \in req[r].who : Lately(Acts(Cred(r), u), r)
           /\ Op(r) = "progress" => ActedFor(r, Asked(r).target)
  <1>1. /\ IdentifiesIn(holds, flip, Cred(r), Told(r), req[r].begun, W)
        /\ Cred(r) \in Token /\ req[r].who \subseteq Uid /\ Owner(r) \in Uid \cup {None}
        /\ Op(r) = "progress" => Asked(r).target \in AuthorizedActors(r)
    BY Serving DEF Good, Identified, Owned, Early, Inside, RequestRecord, Owner
  <1>2. /\ Told(r)[1] = req[r].who /\ Told(r)[2] = Owner(r)
    BY DEF Told, Owner
  <1>3. /\ req[r].who # {}
        /\ \A u \in req[r].who : /\ Lately(Acts(Cred(r), u), r)
                                 /\ Lately(Acts(Cred(r), Self[Cred(r)]), r)
        /\ Owner(r) # None => Lately(Owns(Cred(r), Owner(r)), r)
    BY <1>1, <1>2, Bridge DEF IdentifiesIn
  <1>4. Lately(Acts(Cred(r), Self[Cred(r)]), r)
    BY <1>3
  <1>5. UIDs(r) \subseteq Uid
    BY <1>1 DEF UIDs
  <1>6. \A u \in UIDs(r) : ActedFor(r, u)
    BY <1>3, <1>4 DEF UIDs, ActedFor
  <1>7. Op(r) = "progress" => AuthorizedActors(r) \subseteq UIDs(r)
    BY DEF AuthorizedActors, UIDs
  <1> QED BY <1>1, <1>3, <1>5, <1>6, <1>7

\* The space of a token of a user is not known.
LEMMA UsersAtLarge ==
    ASSUME IInv, NEW t, t \notin Bots, NEW s
    PROVE  Home(t, s) \notin holds
  <1>1. Home(t, s) \notin Fact
    BY DEF Fact, Acts, Owns, Home, In, Member, Assignee, Participant, Link, Live
  <1> QED BY <1>1 DEF IInv, FactsOK

\* What a request was told of its space.
LEMMA Placing ==
    ASSUME IInv, NEW r \in Request, pc(r) \in Inside
    PROVE  /\ SpaceOf(r) = Place => InPlace(r)
           /\ SpaceOf(r) # Place => Elsewhere(r)
  <1> DEFINE home == req[r].home
  <1>1. /\ IdentifiesIn(holds, flip, Cred(r), Told(r), req[r].begun, W)
        /\ Asking(r) => SpaceIn(holds, flip, SpaceKey(r), req[r].begun, W)
        /\ home \in Space \cup {None}
    BY Serving DEF Good, Identified, Admitted, Early, Inside, RequestRecord
  <1>2. Told(r)[3] = home
    BY DEF Told
  <1>3. /\ home # None => Lately(Home(Cred(r), home), r)
        /\ home = None => \A s \in Space : ~LongThroughout(Home(Cred(r), s), r)
    <2>1. home # None => Lately(Home(Cred(r), home), r)
      BY <1>1, <1>2, Bridge DEF IdentifiesIn
    <2>2. home = None /\ Cred(r) \in Bots =>
              \A s \in Space : ~LongThroughout(Home(Cred(r), s), r)
      BY <1>1, <1>2, Bridge DEF IdentifiesIn
    <2>3. Cred(r) \notin Bots => \A s : ~LongThroughout(Home(Cred(r), s), r)
      BY UsersAtLarge DEF LongThroughout
    <2> QED BY <2>1, <2>2, <2>3
  <1>4. CASE home # None
    <2>1. SpaceOf(r) = home
      BY <1>4 DEF SpaceOf
    <2> QED BY <1>1, <1>3, <1>4, <2>1 DEF InPlace, Elsewhere
  <1>5. CASE home = None
    <2>1. SpaceOf(r) = Asked(r).space /\ Place \in Space
      BY <1>5, AccessAssumption DEF SpaceOf
    <2>2. (Header(r) # None /\ Asked(r).space = Place) =>
              \E t \in Token : Prefix[t] = Prefix[Header(r)] /\ Lately(In(t, Place), r)
      <3>1. SpaceKey(r)[2] = Prefix[Header(r)] /\ SpaceKey(r)[4] = Asked(r).space
        BY DEF SpaceKey
      <3>2. Header(r) # None => SpaceIn(holds, flip, SpaceKey(r), req[r].begun, W)
        BY <1>1, <1>5 DEF Asking
      <3> QED BY <3>1, <3>2, Bridge DEF SpaceIn
    <2> QED BY <1>3, <1>5, <2>1, <2>2 DEF InPlace, Elsewhere
  <1> QED BY <1>4, <1>5

\* A claim that was granted.
LEMMA Granting ==
    ASSUME IInv, NEW r \in Request, NEW k \in req[r].granted
    PROVE  /\ Named(r, k) \in Channel /\ Named(r, k) # None /\ OfChannel(r, Named(r, k))
           /\ Op(r) \in Asks(k)
  <1>1. pc(r) \in Inside
    BY Serving DEF Good, Vouched
  <1>2. /\ ~IsBot(r) /\ Named(r, k) \in Channel /\ Op(r) \in Asks(k)
        /\ MemberIn(holds, flip, ClaimKey(r, k), req[r].begun, W)
    BY Serving DEF Good, Vouched
  <1>3. ClaimKey(r, k)[3] = req[r].who /\ ClaimKey(r, k)[4] = Named(r, k)
    BY DEF ClaimKey
  <1>4. PICK u \in Uid : u \in req[r].who /\ RecentIn(holds, flip, Member(u, Named(r, k)), req[r].begun, W)
    BY <1>2, <1>3 DEF MemberIn
  <1>5. Lately(Member(u, Named(r, k)), r) /\ Lately(Acts(Cred(r), u), r)
    BY <1>1, <1>4, Bridge, Acting
  <1> QED BY <1>2, <1>5, AccessAssumption DEF OfChannel

LEMMA InRoles ==
    ASSUME IInv, NEW r \in Request, pc(r) \in Inside
    PROVE  /\ RoleIn(holds, flip, UIDs(r), req[r].begun) => InRole(r)
           /\ AssignedIn(holds, flip, UIDs(r), req[r].begun) => Assigned(r)
           /\ Linked(r) => Op(r) # "audit" /\ ThroughChannel(r)
           /\ Creator \in UIDs(r) \/ HasRole(r) => InRole(r)
  <1>1. \A u \in UIDs(r) : u \in Uid /\ ActedFor(r, u)
    BY Acting
  <1>2. RoleIn(holds, flip, UIDs(r), req[r].begun) => InRole(r)
    BY <1>1, Bridge DEF RoleIn, InRole
  <1>3. AssignedIn(holds, flip, UIDs(r), req[r].begun) => Assigned(r)
    BY <1>1, Bridge DEF AssignedIn, Assigned
  <1>4. Linked(r) => Op(r) # "audit" /\ ThroughChannel(r)
    <2>1. "source" \in req[r].granted =>
            /\ Asked(r).source # None /\ OfChannel(r, Asked(r).source)
            /\ Op(r) \in {"get", "list", "write", "progress"}
      BY Granting DEF Named, Asks
    <2> QED BY <2>1, Bridge DEF Linked, ThroughChannel
  <1>5. Creator \in UIDs(r) \/ HasRole(r) => RoleIn(holds, flip, UIDs(r), req[r].begun)
    BY <1>1 DEF HasRole, RoleIn, RecentIn
  <1> QED BY <1>2, <1>3, <1>4, <1>5

\* Whatever the ages of the answers a request was decided by, who is shown a matter was
\* somebody it is open to since the request began or a TTL and a timeout before.
THEOREM WhoIsShownWasPermitted == Spec => ShownWasPermitted
  <1>1. ASSUME IInv, [Next]_vars, NEW r \in Request, Ends(r, "shown")
        PROVE  /\ InPlace(r) /\ Since(Live, r)
               /\ InRole(r) \/ (Op(r) # "audit" /\ ThroughChannel(r))
    <2>1. Show(r) \/ (QueryList(r) /\ Visible(r))
      BY <1>1, Ending DEF Granted
    <2>2. pc(r) \in Inside
      BY <2>1 DEF Show, QueryList, Inside
    <2>3. CASE Show(r)
      <3>1. /\ SpaceOf(r) = Place /\ RecentIn(holds, flip, Live, req[r].begun, 0)
            /\ RoleIn(holds, flip, UIDs(r), req[r].begun) \/ Linked(r)
        BY <1>1, <2>3, Serving DEF Show, Good, Staged, Loaded, PastLoad, Decided, PastDecide
      <3> QED BY <1>1, <2>2, <3>1, Placing, InRoles, Bridge
    <2>4. CASE QueryList(r) /\ Visible(r)
      <3>1. /\ SpaceOf(r) = Place /\ Live \in holds /\ Op(r) = "list"
        BY <1>1, <2>4, Serving DEF QueryList, Visible, Found, Good, Staged
      <3>2. HasLink(r) => Linked(r)
        BY DEF HasLink, Linked, RecentIn
      <3>3. "only" \in req[r].granted => ThroughChannel(r)
        <4>1. "only" \in req[r].granted =>
                Asked(r).only # None /\ OfChannel(r, Asked(r).only) /\ Link(Asked(r).only) \in holds
          BY <1>1, <2>4, Granting DEF Named, Visible
        <4> QED BY <4>1 DEF ThroughChannel, Since
      <3>4. InRole(r) \/ ThroughChannel(r)
        BY <1>1, <2>2, <2>4, <3>2, <3>3, InRoles DEF Visible
      <3>5. Since(Live, r)
        BY <3>1 DEF Since
      <3> QED BY <1>1, <2>2, <3>1, <3>4, <3>5, Placing
    <2> QED BY <2>1, <2>3, <2>4
  <1>2. IInv /\ [Next]_vars => [\A r \in Request : Ends(r, "shown") =>
         /\ InPlace(r) /\ Since(Live, r)
         /\ InRole(r) \/ (Op(r) # "audit" /\ ThroughChannel(r))]_vars
    BY <1>1
  <1> QED BY <1>2, Invariance, PTL DEF Spec, ShownWasPermitted

\* The same for who adds to the timeline; who links a channel created the matter or was
\* assigned to it since the request began.
THEOREM WhoWritesWasPermitted == Spec => WrittenWasPermitted
  <1>1. ASSUME IInv, [Next]_vars, NEW r \in Request, NEW o \in {"written", "linked"}, Ends(r, o)
        PROVE  /\ InPlace(r) /\ Since(Live, r)
               /\ o = "written" => InRole(r) \/ ThroughChannel(r)
               /\ Op(r) = "progress" => ActedFor(r, Asked(r).target)
               /\ o = "linked" => Assigned(r)
    <2>1. /\ Act(r) /\ pc(r) = "act" /\ pc(r) \in Inside
          /\ o = "linked" => Op(r) = "link"
          /\ o = "written" => Op(r) \in {"write", "progress"}
      BY <1>1, Ending DEF Granted, Act, Inside
    <2>2. /\ SpaceOf(r) = Place /\ RecentIn(holds, flip, Live, req[r].begun, 0)
          /\ o = "linked" => AssignedIn(holds, flip, UIDs(r), req[r].begun)
          /\ o = "written" => RoleIn(holds, flip, UIDs(r), req[r].begun) \/ Linked(r)
      BY <1>1, <2>1, Serving DEF Good, Loaded, PastLoad, Decided, PastDecide
    <2>3. Op(r) = "progress" => ActedFor(r, Asked(r).target)
      BY <1>1, <2>1, Acting
    <2> QED BY <1>1, <2>1, <2>2, <2>3, Placing, InRoles, Bridge
  <1>2. IInv /\ [Next]_vars => [\A r \in Request : (Ends(r, "written") \/ Ends(r, "linked")) =>
         /\ InPlace(r) /\ Since(Live, r)
         /\ Ends(r, "written") => InRole(r) \/ ThroughChannel(r)
         /\ Op(r) = "progress" => ActedFor(r, Asked(r).target)
         /\ Ends(r, "linked") => Assigned(r)]_vars
    BY <1>1 DEF Ends
  <1> QED BY <1>2, Invariance, PTL DEF Spec, WrittenWasPermitted

LEMMA OwnChannel ==
    ASSUME IInv, NEW r \in Request, pc(r) \in {"model", "act"},
           Op(r) \in {"progress", "link", "extract"}, ~IsBot(r)
    PROVE  OfChannel(r, Asked(r).source)
  <1>1. "own" \in req[r].granted
    BY Serving DEF Good, Owned, Inside
  <1> QED BY <1>1, Granting DEF Named

\* No channel is linked and no message goes to the language model for a user who was not
\* a member of the channel, whatever the order of the gates and the age of the answer.
THEOREM ChannelsAreOfMembers == Spec => ChannelsOfMembers
  <1>1. ASSUME IInv, [Next]_vars, NEW r \in Request,
               Ends(r, "linked") \/ (pc(r) = "model" /\ pc(r)' = "act")
        PROVE  OfChannel(r, Asked(r).source) \/ (IsBot(r) /\ Op(r) # "link")
    <2>1. CASE Ends(r, "linked")
      <3>1. Act(r) /\ Op(r) = "link"
        BY <1>1, <2>1, Ending DEF Granted
      <3>2. pc(r) = "act"
        BY <3>1 DEF Act
      <3>3. ~IsBot(r)
        BY <1>1, <3>1, <3>2, Serving DEF Good, Owned, Inside
      <3> QED BY <1>1, <3>1, <3>2, <3>3, OwnChannel
    <2>2. CASE pc(r) = "model"
      <3>1. Op(r) \in {"extract", "progress"}
        BY <1>1, <2>2, Serving DEF Good, Staged
      <3> QED BY <1>1, <2>2, <3>1, OwnChannel
    <2> QED BY <1>1, <2>1, <2>2
  <1>2. ASSUME IInv, [Next]_vars, NEW c \in Channel, Link(c) \in holds', Link(c) \notin holds,
               changes' = changes
        PROVE  \E r \in Request : pc(r) = "act" /\ OfChannel(r, c)
    <2>1. PICK r \in Request : Act(r)
      <3>1. UNCHANGED holds \/ \E r \in Request : Act(r)
        <4>1. \A r \in Request : Arrive(r) \/ Serve(r) \/ Answer(r) \/ Fail(r) =>
                                     UNCHANGED holds \/ Act(r)
          BY DEF Arrive, Serve, Answer, Fail, Pass, Ask, Authenticate, Authenticated, EnterSpace,
             Entered, Gate, Confirmed, TimeOut, Load, Decide, QueryList, Show, AskModel, Respond,
             AnswerAuth, AnswerSpace, AnswerMember, Decline, facts
        <4>2. changes \in Nat /\ \A f \in Mutable : Change(f) => changes' = changes + 1
          BY <1>2 DEF Change, IInv, FactsOK
        <4>3. Evict \/ Tick \/ UNCHANGED vars => UNCHANGED holds
          BY DEF Evict, Tick, facts, vars
        <4> QED BY <1>2, <4>1, <4>2, <4>3 DEF Next
      <3> QED BY <1>2, <3>1
    <2>2. /\ pc(r) = "act" /\ Link(c) \in Added(r) /\ ~NewLink(r)
          /\ Op(r) \in {"write", "progress", "link", "create", "extract"}
      BY <1>2, <2>1, Serving DEF Act, facts, Good, Staged
    <2>3. /\ Op(r) = "link" => Added(r) = {Link(Asked(r).source)}
          /\ Op(r) = "write" => Added(r) = {Participant(Self[Cred(r)])}
          /\ Op(r) = "progress" =>
                 Added(r) = {Participant(Asked(r).target), Link(Asked(r).source)}
          /\ Op(r) \in {"create", "extract"} => Added(r) = {}
      BY Zenon DEF Added
    <2>4. Op(r) \in {"link", "progress"} /\ Link(c) = Link(Asked(r).source)
      BY <2>2, <2>3 DEF Link, Participant
    <2>5. c = Asked(r).source
      BY <2>4 DEF Link
    <2>6. ~IsBot(r)
      BY <1>2, <2>2, <2>4, <2>5, Serving DEF NewLink, Good, Owned, Inside
    <2> QED BY <1>2, <2>2, <2>4, <2>5, <2>6, OwnChannel
  <1>3. IInv /\ [Next]_vars =>
          [/\ \A r \in Request : (Ends(r, "linked") \/ (pc(r) = "model" /\ pc(r)' = "act")) =>
                OfChannel(r, Asked(r).source) \/ (IsBot(r) /\ Op(r) # "link")
           /\ \A c \in Channel : (Link(c) \in holds' /\ Link(c) \notin holds /\ changes' = changes) =>
                \E r \in Request : pc(r) = "act" /\ OfChannel(r, c)]_vars
    BY <1>1, <1>2
  <1> QED BY <1>3, Invariance, PTL DEF Spec, ChannelsOfMembers

\* Nobody is turned away who has been in his role for as long as a cache may go back: what
\* is said of the channels he names, or not said, takes nothing from him.
THEOREM WhoIsRefusedWasBarred == Spec => RefusedWasBarred
  <1>1. ASSUME IInv, [Next]_vars, NEW r \in Request, NEW o \in Refused, Ends(r, o),
               Op(r) \in {"get", "audit", "write"} \/ (Op(r) = "list" /\ Asked(r).only = None),
               ~Elsewhere(r), Throughout(Live, r),
               LongThroughout(Acts(Cred(r), Self[Cred(r)]), r),
               NEW u \in Uid, LongThroughout(Acts(Cred(r), u), r),
               IsBot(r) => u = Self[Cred(r)]
        PROVE  u # Creator /\ ~Throughout(Assignee(u), r) /\ ~Throughout(Participant(u), r)
    <2>1. \/ Load(r) /\ ~Found(r)
          \/ QueryList(r) /\ ~Visible(r)
          \/ pc(r) = "decide" /\ ~HasRole(r)
      BY <1>1, Ending DEF Refused
    <2>2. Found(r)
      <3>1. pc(r) \in Inside
        BY <2>1 DEF Load, QueryList, Inside
      <3>2. SpaceOf(r) = Place
        BY <1>1, <3>1, Placing
      <3> QED BY <1>1, <3>2 DEF Found, Throughout
    <2>3. /\ pc(r) \in {"query", "decide"} /\ pc(r) \in Inside
          /\ pc(r) = "decide" => ~HasRole(r)
          /\ pc(r) = "query" => ~Visible(r)
      BY <2>1, <2>2 DEF QueryList, Inside
    <2>4. u \in req[r].who
      <3>1. /\ IdentifiesIn(holds, flip, Cred(r), Told(r), req[r].begun, W)
            /\ Told(r)[1] = req[r].who
        BY <1>1, <2>3, Serving DEF Good, Identified, Told
      <3>2. /\ SteadyIn(holds, flip, Acts(Cred(r), Self[Cred(r)]), req[r].begun, W)
            /\ SteadyIn(holds, flip, Acts(Cred(r), u), req[r].begun, W)
            /\ Cred(r) \in Bots => u = Self[Cred(r)]
        BY <1>1, Bridge DEF IsBot
      <3> QED BY <1>1, <3>1, <3>2 DEF IdentifiesIn
    <2>5. u \in UIDs(r)
      BY <2>4 DEF UIDs
    <2>6. Creator \notin UIDs(r) /\ ~HasRole(r)
      <3>1. CASE pc(r) = "decide"
        BY <1>1, <2>3, <3>1, Serving DEF Good, Outsider, Undecided
      <3>2. CASE pc(r) = "query"
        <4>1. Op(r) = "list"
          BY <1>1, <3>2, Serving DEF Good, Staged
        <4>2. "only" \notin req[r].granted
          <5>1. "only" \in req[r].granted => Named(r, "only") # None
            BY <1>1, Granting
          <5>2. Named(r, "only") = None
            BY <1>1, <4>1 DEF Named
          <5> QED BY <5>1, <5>2
        <4> QED BY <2>2, <2>3, <3>2, <4>2 DEF Visible
      <3> QED BY <2>3, <3>1, <3>2
    <2> QED BY <2>5, <2>6 DEF HasRole, Throughout
  <1>2. IInv /\ [Next]_vars =>
       [\A r \in Request :
         (/\ \E o \in {"forbidden", "not_found", "left_out"} : Ends(r, o)
          /\ Op(r) \in {"get", "audit", "write"} \/ (Op(r) = "list" /\ Asked(r).only = None))
         =>
         \/ Elsewhere(r) \/ ~Throughout(Live, r)
         \/ ~LongThroughout(Acts(Cred(r), Self[Cred(r)]), r)
         \/ \A u \in Uid :
              (LongThroughout(Acts(Cred(r), u), r) /\ (IsBot(r) => u = Self[Cred(r)])) =>
                 /\ u # Creator
                 /\ ~Throughout(Assignee(u), r) /\ ~Throughout(Participant(u), r)]_vars
    BY <1>1 DEF Refused
  <1> QED BY <1>2, Invariance, PTL DEF Spec, RefusedWasBarred
=============================================================================
