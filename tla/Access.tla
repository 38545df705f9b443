------------------------------- MODULE Access -------------------------------
(***************************************************************************)
(* Who sees a matter and who acts on it.  A request passes AuthMiddleware, *)
(* which learns from the IM server for which uids its token acts, then     *)
(* SpaceMiddleware, then the gates of its operation: a channel it names is *)
(* checked with the IM server, its role on the matter with the database.   *)
(* What the IM server said is kept in three caches, so a decision mixes    *)
(* answers of different ages, and memberships, roles and the matter change *)
(* between the gates.                                                      *)
(*                                                                         *)
(* Operations: "get" is GetMatter and ListEntries, "audit" the activities  *)
(* and the outputs, which take no channel, "write" a timeline entry and    *)
(* "progress" one written by a model; "link", "list", "create", "extract". *)
(***************************************************************************)
EXTENDS Naturals, FiniteSets

CONSTANTS
    Request, Token, Uid, Space, Channel,
    Bots,           \* the tokens of bots; the others are of users
    Self,           \* whose a token is
    Prefix,         \* the first 16 characters of a token
    Creator, Place, \* of the matter
    Query,          \* what requests ask: [token, beside, space, op, source, only, target]
    Start,          \* the facts there can be at first
    Mutable,        \* bound: the facts that others change
    TTL,            \* of an entry of a cache: 60 seconds
    Timeout,        \* of a call to the IM server: 5 seconds
    Max,            \* entries of a cache: 10000
    MaxTime,        \* bound: then the clock stands still and calls fail at once
    Overlap,        \* bound: the queries of requests under way at the same time
    MaxChanges,     \* bound: how often others change a fact
    None

\* Facts: of the IM server, who a token acts for, who owns a bot and which space it
\* belongs to, who is in a space or a channel; of the database, the roles, the channels
\* linked and that the matter is not deleted.
Acts(t, u)     == <<"acts", t, u>>
Owns(t, u)     == <<"owns", t, u>>
Home(t, s)     == <<"home", t, s>>
In(t, s)       == <<"in", t, s>>
Member(u, c)   == <<"member", u, c>>
Assignee(u)    == <<"assignee", u, None>>
Participant(u) == <<"participant", u, None>>
Link(c)        == <<"link", c, None>>
Live           == <<"live", None, None>>

Fact == {Acts(t, u) : t \in Token, u \in Uid} \cup {In(t, s) : t \in Token, s \in Space}
          \cup {Owns(t, u) : t \in Bots, u \in Uid} \cup {Home(t, s) : t \in Bots, s \in Space}
          \cup {Member(u, c) : u \in Uid, c \in Channel}
          \cup {Assignee(u) : u \in Uid} \cup {Participant(u) : u \in Uid}
          \cup {Link(c) : c \in Channel} \cup {Live}

Ops == {"get", "audit", "list", "write", "progress", "link", "create", "extract"}

ASSUME AccessAssumption ==
    /\ Bots \subseteq Token /\ Self \in [Token -> Uid]
    /\ DOMAIN Prefix = Token /\ Creator \in Uid /\ Place \in Space
    /\ Query \subseteq [token : Token, beside : Token \cup {None}, space : Space \cup {None},
                        op : Ops, source : Channel \cup {None},
                        only : Channel \cup {None}, target : Uid]
    /\ \A q \in Query : q.op \in {"progress", "link", "extract"} => q.source # None
    /\ Start \subseteq SUBSET Fact /\ Mutable \subseteq Fact
    /\ TTL \in Nat /\ Timeout \in Nat /\ Max \in Nat /\ MaxTime \in Nat
    /\ MaxChanges \in Nat
    /\ None \notin Nat \cup Token \cup Uid \cup Space \cup Channel \cup {"yes", "no"}

VARIABLES
    clock, changes,
    holds,          \* the facts that are true
    flip,           \* when each last changed that ever did (ghost)
    ids,            \* verifyCache: from tokens to what verify said of them
    answers,        \* spaceCache and membershipCache: from keys to answers
    req             \* the requests

facts  == <<changes, holds, flip>>
caches == <<ids, answers>>
vars   == <<clock, facts, caches, req>>

\* A request: what it asks and since when (ghost), the uids it acts for, the owner and the
\* space of a bot, what it has to ask about channels and what was confirmed, the uids it
\* did not ask about yet for the present one, when its call to the IM server was sent and
\* what that answered.
Idle == [pc |-> "idle", query |-> None, begun |-> 0, who |-> {}, owner |-> None,
         home |-> None, todo |-> {}, granted |-> {}, left |-> {}, sent |-> 0, reply |-> None,
         outcome |-> "none"]

pc(r)    == req[r].pc
Asked(r) == req[r].query
Op(r)    == Asked(r).op
Cred(r)  == Asked(r).token
IsBot(r) == Cred(r) \in Bots
Owner(r) == req[r].owner

\* The space of a bot that has one, the X-Space-Id header otherwise.
SpaceOf(r) == IF req[r].home # None THEN req[r].home ELSE Asked(r).space

\* The token header: who a user is, and what a bot may send beside its own token.
Header(r) == IF IsBot(r) THEN Asked(r).beside ELSE Cred(r)

\* What verify tells of a token; a bot's token acts for the bot alone.  A bot may have an
\* owner and a space.
Identity(t) == {u \in Uid : /\ Acts(t, Self[t]) \in holds /\ Acts(t, u) \in holds
                            /\ t \in Bots => u = Self[t]}

OrNone(some) == IF some = {} THEN {None} ELSE some
Owners(t)    == OrNone({u \in Uid : t \in Bots /\ Owns(t, u) \in holds})
Homes(t)     == OrNone({s \in Space : t \in Bots /\ Home(t, s) \in holds})

\* A bot that writes what a model wrote has the roles of its owner too.
UIDs(r) == req[r].who \cup (IF Op(r) = "progress" THEN {Owner(r)} \ {None} ELSE {})

\* Whom a request may name as the author.
AuthorizedActors(r) == IF IsBot(r) THEN {Owner(r)} \ {None} ELSE req[r].who

\* ListMatters asks about source_channel_id before channel_id.
Claim(r) == CASE "source" \in req[r].todo -> "source"
              [] "source" \notin req[r].todo /\ "only" \in req[r].todo -> "only"
              [] OTHER -> "own"

Named(r, k) == IF k = "only" THEN Asked(r).only ELSE Asked(r).source

\* Mutant: the messages of any channel may be sent to the model.
AsksLinks(k) == CASE k = "source" -> {"get", "list", "write", "progress"}
                  [] k = "only"   -> {"list"}
                  [] k = "own"    -> {"progress", "link", "create"}

Asks(k) == CASE k = "source" -> {"get", "list", "write", "progress"}
             [] k = "only"   -> {"list"}
             [] k = "own"    -> {"progress", "link", "create", "extract"}

\* What is asked about channels: "source" and "only" are dropped when the answer is
\* no, "own" must be yes.  Nothing is asked for a bot, whose claims count for nothing.
ClaimKinds == {"source", "only", "own"}

Claims(r) == {k \in ClaimKinds :
                ~IsBot(r) /\ Named(r, k) # None /\ Op(r) \in Asks(k)}

SpaceKey(r)  == <<"space", Prefix[Header(r)], {}, Asked(r).space>>
MemberKey(r) == <<"member", Cred(r), req[r].who, Named(r, Claim(r))>>

Known(t) == t \in DOMAIN ids /\ clock <= ids[t].expire

\* Mutant: expireAt is not looked at.
AnyAge(k) == k \in DOMAIN answers

Usable(k) == k \in DOMAIN answers /\ clock <= answers[k].expire

\* A new entry; a cache that is full is emptied first.
PutIdentity(r) ==
    LET kept == IF Cardinality(DOMAIN ids) >= Max THEN {} ELSE DOMAIN ids
    IN  ids' = [t \in kept \cup {Cred(r)} |->
                  IF t = Cred(r) THEN [uids |-> req[r].who, owner |-> req[r].owner,
                                       home |-> req[r].home, expire |-> clock + TTL]
                  ELSE ids[t]]

Put(key, yes) ==
    LET same == {k \in DOMAIN answers : k[1] = key[1]}
        kept == IF Cardinality(same) >= Max THEN DOMAIN answers \ same ELSE DOMAIN answers
    IN  answers' = [k \in kept \cup {key} |->
                      IF k = key THEN [yes |-> yes, expire |-> clock + TTL] ELSE answers[k]]

\* These facts change now.
Stamp(fs) == [f \in DOMAIN flip \cup fs |-> IF f \in fs THEN clock ELSE flip[f]]

Goto(r, label) == req' = [req EXCEPT ![r].pc = label]

\* Nothing is kept but the outcome, until the reply is written.
Finish(r, o) == req' = [req EXCEPT ![r] = [Idle EXCEPT !.pc = "reply", !.outcome = o]]

Open(r) == pc(r) \notin {"idle", "done"}

Calling(r) == pc(r) \in {"auth_call", "space_call", "member_call"}

Call(r, label) == req' = [req EXCEPT ![r].pc = label, ![r].sent = clock, ![r].reply = None]

Reply(r, a) == req' = [req EXCEPT ![r].reply = a]

HangUp(r, label) == req' = [req EXCEPT ![r].pc = label, ![r].sent = 0, ![r].reply = None]
-----------------------------------------------------------------------------
(* Who it is, and in which space.                                          *)

Arrive(r) ==
    /\ pc(r) = "idle"
    /\ \E q \in Query :
         /\ \A p \in Request : Open(p) => {q, Asked(p)} \subseteq Overlap
         /\ req' = [req EXCEPT ![r].pc = "auth", ![r].query = q, ![r].begun = clock]
    /\ UNCHANGED <<clock, facts, caches>>

Authenticate(r) ==
    /\ pc(r) = "auth"
    /\ \/ /\ Known(Cred(r))
          /\ req' = [req EXCEPT ![r].pc = "space", ![r].who = ids[Cred(r)].uids,
                                ![r].owner = ids[Cred(r)].owner, ![r].home = ids[Cred(r)].home]
       \/ ~Known(Cred(r)) /\ Call(r, "auth_call")
    /\ UNCHANGED <<clock, facts, caches>>

\* The IM server answers what it knows when it looks.
AnswerAuth(r) ==
    /\ pc(r) = "auth_call" /\ req[r].reply = None
    /\ \/ Identity(Cred(r)) = {} /\ Reply(r, "no")
       \/ /\ Identity(Cred(r)) # {}
          /\ \E o \in Owners(Cred(r)), s \in Homes(Cred(r)) :
               req' = [req EXCEPT ![r].reply = "yes", ![r].who = Identity(Cred(r)),
                                  ![r].owner = o, ![r].home = s]
    /\ UNCHANGED <<clock, facts, caches>>

\* Only a valid token is kept.
Authenticated(r) ==
    /\ pc(r) = "auth_call"
    /\ \/ req[r].reply = "yes" /\ PutIdentity(r) /\ HangUp(r, "space")
       \/ req[r].reply = "no" /\ Finish(r, "unauthorized") /\ UNCHANGED ids
    /\ UNCHANGED <<clock, facts, answers>>

\* Where an operation goes on when it has a channel to ask about, and when it has none;
\* where it begins; and where it goes on when its role is accepted.
Onward(op, asks) == CASE asks # {} -> "gate"
                      [] asks = {} /\ op = "list" -> "query"
                      [] asks = {} /\ op = "link" -> "load"
                      [] asks = {} /\ op = "create" -> "act"
                      [] asks = {} /\ op \in {"extract", "progress"} -> "model"

Begin(op, asks) == IF op \in {"get", "audit", "write", "progress"} THEN "load"
                   ELSE Onward(op, asks)

Accepted(op, asks) == CASE op \in {"get", "audit"} -> "show"
                        [] op \in {"write", "link"} -> "act"
                        [] op = "progress" -> Onward(op, asks)

\* A bot may not link a channel, and nobody names an author he does not act for.
Barred(r) == \/ Op(r) = "link" /\ IsBot(r)
             \/ Op(r) \in {"progress", "extract"} /\ Asked(r).target \notin AuthorizedActors(r)

\* The handler of the operation begins.
Handle(r) ==
    \/ Barred(r) /\ Finish(r, "forbidden")
    \/ /\ ~Barred(r)
       /\ req' = [req EXCEPT ![r].pc = Begin(Op(r), Claims(r)), ![r].todo = Claims(r),
                             ![r].sent = 0, ![r].reply = None]

\* A bot is not asked about its own space, nor about one it names without a token header.
Asking(r) == req[r].home = None /\ Header(r) # None

EnterSpace(r) ==
    /\ pc(r) = "space"
    /\ \/ SpaceOf(r) = None /\ Finish(r, "invalid")
       \/ SpaceOf(r) # None /\ (Asking(r) => Usable(SpaceKey(r))) /\ Handle(r)
       \/ SpaceOf(r) # None /\ Asking(r) /\ ~Usable(SpaceKey(r)) /\ Call(r, "space_call")
    /\ UNCHANGED <<clock, facts, caches>>

\* A refusal is not told from a failure: see Decline.
AnswerSpace(r) ==
    /\ pc(r) = "space_call" /\ req[r].reply = None
    /\ In(Header(r), Asked(r).space) \in holds
    /\ Reply(r, "yes")
    /\ UNCHANGED <<clock, facts, caches>>

Entered(r) ==
    /\ pc(r) = "space_call" /\ req[r].reply = "yes"
    /\ Put(SpaceKey(r), TRUE)
    /\ Handle(r)
    /\ UNCHANGED <<clock, facts, ids>>
-----------------------------------------------------------------------------
(* The gates of the operation.                                             *)

Found(r) == Live \in holds /\ SpaceOf(r) = Place

\* GetByID, and the fast path of the creator, about whom nothing is asked.
Load(r) ==
    /\ pc(r) = "load"
    /\ \/ ~Found(r) /\ Finish(r, "not_found")
       \/ /\ Found(r) /\ Creator \in UIDs(r)
          /\ req' = [req EXCEPT ![r].pc = Accepted(Op(r), req[r].todo \ {"source"}),
                                ![r].todo = @ \ {"source"}]
       \/ /\ Found(r) /\ Creator \notin UIDs(r)
          /\ Goto(r, IF "source" \in req[r].todo THEN "gate" ELSE "decide")
    /\ UNCHANGED <<clock, facts, caches>>

\* Mutant: a no about any channel is the end of it.
JudgeStrictly(r, yes) ==
    LET k == Claim(r) IN
    IF ~yes THEN Finish(r, "forbidden")
    ELSE req' = [req EXCEPT
           ![r].pc = IF k = "source" /\ Op(r) # "list" THEN "decide"
                    ELSE Onward(Op(r), req[r].todo \ {k}),
           ![r].todo = @ \ {k}, ![r].granted = @ \cup {k},
           ![r].left = {}, ![r].sent = 0, ![r].reply = None]

\* What follows an answer about a channel.
Judge(r, yes) ==
    LET k == Claim(r) IN
    IF k = "own" /\ ~yes THEN Finish(r, "forbidden")
    ELSE req' = [req EXCEPT
           ![r].pc = IF k = "source" /\ Op(r) # "list" THEN "decide"
                    ELSE Onward(Op(r), req[r].todo \ {k}),
           ![r].todo = @ \ {k},
           ![r].granted = IF yes THEN @ \cup {k} ELSE @,
           ![r].left = {}, ![r].sent = 0, ![r].reply = None]

Gate(r) ==
    /\ pc(r) = "gate"
    /\ \/ Usable(MemberKey(r)) /\ Judge(r, answers[MemberKey(r)].yes)
       \/ /\ ~Usable(MemberKey(r))
          /\ req' = [req EXCEPT ![r].pc = "member_call", ![r].sent = clock,
                                ![r].left = req[r].who]
    /\ UNCHANGED <<clock, facts, caches>>

\* One uid after the other, in some order; the server may also say no because the
\* caller is not in the channel, or for a failure of its own.
AnswerMember(r) ==
    /\ pc(r) = "member_call" /\ req[r].reply = None
    /\ \E u \in req[r].left, a \in {"yes", "no"} :
         /\ a = "yes" => Member(u, Named(r, Claim(r))) \in holds
         /\ req' = [req EXCEPT ![r].reply = a, ![r].left = @ \ {u}]
    /\ UNCHANGED <<clock, facts, caches>>

\* Both answers are kept, a no when there is no uid left to ask about.
Confirmed(r) ==
    /\ pc(r) = "member_call"
    /\ \/ /\ req[r].reply = "no" /\ req[r].left # {}
          /\ Call(r, "member_call") /\ UNCHANGED answers
       \/ /\ req[r].reply = "no" /\ req[r].left = {}
          /\ Put(MemberKey(r), FALSE) /\ Judge(r, FALSE)
       \/ /\ req[r].reply = "yes"
          /\ Put(MemberKey(r), TRUE) /\ Judge(r, TRUE)
    /\ UNCHANGED <<clock, facts, ids>>

\* The IM server is down, or answers with an error, which AuthMiddleware takes for a no.
Decline(r) ==
    /\ Calling(r) /\ req[r].reply = None
    /\ \/ Finish(r, "unavailable")
       \/ pc(r) = "auth_call" /\ Finish(r, "unauthorized")
    /\ UNCHANGED <<clock, facts, caches>>

TimeOut(r) ==
    /\ Calling(r) /\ (clock >= req[r].sent + Timeout \/ clock = MaxTime)
    /\ Finish(r, "unavailable")
    /\ UNCHANGED <<clock, facts, caches>>
-----------------------------------------------------------------------------
(* What the database says, and what is done.                               *)

HasRole(r) == \E u \in UIDs(r) : Assignee(u) \in holds \/ Participant(u) \in holds

\* Mutant: the channel counts although the user was not confirmed as its member.
HasAnyLink(r) == Asked(r).source # None /\ Link(Asked(r).source) \in holds

HasLink(r) == "source" \in req[r].granted /\ Link(Asked(r).source) \in holds

\* Mutant: HasAccess decides on links too.
DecideAlike(r) ==
    /\ pc(r) = "decide"
    /\ \/ (HasRole(r) \/ HasLink(r)) /\ Goto(r, Accepted(Op(r), req[r].todo))
       \/ ~(HasRole(r) \/ HasLink(r)) /\ Finish(r, "forbidden")
    /\ UNCHANGED <<clock, facts, caches>>

\* HasAccess; a channel is linked by the creator or an assignee alone.
Decide(r) ==
    /\ pc(r) = "decide"
    /\ LET accepted == IF Op(r) = "link" THEN \E u \in UIDs(r) : Assignee(u) \in holds
                       ELSE HasRole(r) \/ HasLink(r)
       IN  \/ accepted /\ Goto(r, Accepted(Op(r), req[r].todo))
           \/ ~accepted /\ Finish(r, "forbidden")
    /\ UNCHANGED <<clock, facts, caches>>

\* Does ListBySpace return the matter?
Visible(r) ==
    /\ Found(r)
    /\ Creator \in UIDs(r) \/ HasRole(r) \/ HasLink(r) \/ "only" \in req[r].granted
    /\ "only" \in req[r].granted => Link(Asked(r).only) \in holds

QueryList(r) ==
    /\ pc(r) = "query"
    /\ Finish(r, IF Visible(r) THEN "shown" ELSE "left_out")
    /\ UNCHANGED <<clock, facts, caches>>

\* The rest of the reply is read without another look at the role.
Show(r) ==
    /\ pc(r) = "show"
    /\ Finish(r, "shown")
    /\ UNCHANGED <<clock, facts, caches>>

\* The messages are sent to the language model.
AskModel(r) ==
    /\ pc(r) = "model"
    /\ Goto(r, "act")
    /\ UNCHANGED <<clock, facts, caches>>

\* What a request adds: a link, or an entry, whose author becomes a participant.
Added(r) == CASE Op(r) = "link" -> {Link(Asked(r).source)}
              [] Op(r) = "write" -> {Participant(Self[Cred(r)])}
              [] Op(r) = "progress" -> {Participant(Asked(r).target), Link(Asked(r).source)}
              [] Op(r) \in {"create", "extract"} -> {}

\* A bot does not introduce a link to a matter that exists.
NewLink(r) == Op(r) = "progress" /\ IsBot(r) /\ Link(Asked(r).source) \notin holds

Act(r) ==
    /\ pc(r) = "act"
    /\ \/ NewLink(r) /\ Finish(r, "forbidden") /\ UNCHANGED facts
       \/ /\ ~NewLink(r)
          /\ holds' = holds \cup Added(r)
          /\ flip' = Stamp(Added(r) \ holds)
          /\ Finish(r, CASE Op(r) = "link" -> "linked"
                         [] Op(r) \in {"write", "progress"} -> "written"
                         [] Op(r) \in {"create", "extract"} -> "made")
          /\ UNCHANGED changes
    /\ UNCHANGED <<clock, caches>>

Respond(r) ==
    /\ pc(r) = "reply"
    /\ req' = [req EXCEPT ![r].pc = "done", ![r].outcome = "none"]
    /\ UNCHANGED <<clock, facts, caches>>

\* An error of the database or the model, a limit, a reply that cannot be read, a
\* request that is cancelled or has had its 30 seconds.
Fail(r) ==
    /\ Open(r) /\ pc(r) # "reply"
    /\ Finish(r, "error")
    /\ UNCHANGED <<clock, facts, caches>>
-----------------------------------------------------------------------------
\* Somebody joins or leaves, is assigned or removed, a bot changes hands, a channel is
\* linked or unlinked, the matter deleted.  A participant stays one and a deleted matter deleted.
Change(f) ==
    /\ changes < MaxChanges
    /\ f \in holds => f \notin {Participant(u) : u \in Uid}
    /\ f \notin holds => f # Live
    /\ changes' = changes + 1
    /\ holds' = IF f \in holds THEN holds \ {f} ELSE holds \cup {f}
    /\ flip' = Stamp({f})
    /\ UNCHANGED <<clock, caches, req>>

\* The tickers of the caches.
Evict ==
    /\ \/ /\ ~\A t \in DOMAIN ids : Known(t)
          /\ ids' = [t \in {t \in DOMAIN ids : Known(t)} |-> ids[t]]
          /\ UNCHANGED answers
       \/ \E cache \in {"space", "member"} :
            /\ ~\A k \in DOMAIN answers : k[1] = cache => Usable(k)
            /\ answers' = [k \in {k \in DOMAIN answers : k[1] = cache => Usable(k)} |->
                             answers[k]]
            /\ UNCHANGED ids
    /\ UNCHANGED <<clock, facts, req>>

\* Time does not pass the timeout of a call.
Tick ==
    /\ clock < MaxTime
    /\ \A r \in Request : Calling(r) => clock < req[r].sent + Timeout
    /\ clock' = clock + 1
    /\ UNCHANGED <<facts, caches, req>>
-----------------------------------------------------------------------------
Init ==
    /\ clock = 0 /\ changes = 0
    /\ holds \in Start
    /\ flip = [f \in {} |-> 0]
    /\ ids = [t \in {} |-> None]
    /\ answers = [k \in {} |-> None]
    /\ req = [r \in Request |-> Idle]

Pass(r)   == Authenticate(r) \/ Authenticated(r) \/ EnterSpace(r) \/ Entered(r)
Ask(r)    == Gate(r) \/ Confirmed(r) \/ TimeOut(r)
Serve(r)  == \/ Pass(r) \/ Ask(r)
             \/ Load(r) \/ Decide(r) \/ QueryList(r) \/ Show(r)
             \/ AskModel(r) \/ Act(r) \/ Respond(r)
Answer(r) == AnswerAuth(r) \/ AnswerSpace(r) \/ AnswerMember(r) \/ Decline(r)

Next ==
    \/ \E r \in Request : Arrive(r) \/ Serve(r) \/ Answer(r) \/ Fail(r)
    \/ \E f \in Mutable : Change(f)
    \/ Evict \/ Tick

Spec == Init /\ [][Next]_vars
-----------------------------------------------------------------------------
FactsOK ==
    /\ clock \in Nat /\ changes \in Nat
    /\ holds \subseteq Fact
    /\ DOMAIN flip \subseteq Fact /\ flip \in [DOMAIN flip -> Nat]

CachesOK ==
    /\ DOMAIN ids \subseteq Token
    /\ ids \in [DOMAIN ids -> [uids : SUBSET Uid, owner : Uid \cup {None},
                              home : Space \cup {None}, expire : Nat]]
    /\ answers \in [DOMAIN answers -> [yes : BOOLEAN, expire : Nat]]

Labels == {"idle", "auth", "auth_call", "space", "space_call", "load", "gate",
           "member_call", "decide", "query", "show", "model", "act", "reply", "done"}

Outcomes == {"none", "unauthorized", "invalid", "unavailable", "forbidden", "not_found",
             "left_out", "shown", "linked", "written", "made", "error"}

RequestRecord == [pc : Labels, query : Query \cup {None}, begun : Nat, who : SUBSET Uid,
                  owner : Uid \cup {None}, home : Space \cup {None},
                  todo : SUBSET ClaimKinds, granted : SUBSET ClaimKinds, left : SUBSET Uid,
                  sent : Nat, reply : {None, "yes", "no"}, outcome : Outcomes]

\* Caches and requests hold what they should, and a call is not older than its timeout.
TypeOK ==
    /\ FactsOK /\ CachesOK
    /\ req \in [Request -> RequestRecord]
    /\ \A r \in Request : pc(r) \notin {"idle", "reply", "done"} => Asked(r) \in Query
    /\ \A r \in Request : Calling(r) => clock <= req[r].sent + Timeout
-----------------------------------------------------------------------------
\* Was it true at some time since the request began, or so little before that a cache
\* may still know it?
Since(f, r)  == f \in holds \/ (f \in DOMAIN flip /\ flip[f] >= req[r].begun)
Lately(f, r) == f \in holds \/ (f \in DOMAIN flip /\ flip[f] + TTL + Timeout >= req[r].begun)

\* Has it been true all that time?
Throughout(f, r)      == f \in holds /\ (f \in DOMAIN flip => flip[f] < req[r].begun)
LongThroughout(f, r)  == f \in holds /\ (f \in DOMAIN flip => flip[f] + TTL + Timeout < req[r].begun)

ActedFor(r, u) ==
    \/ Lately(Acts(Cred(r), u), r)
    \/ /\ Op(r) = "progress" /\ Lately(Owns(Cred(r), u), r)
       /\ Lately(Acts(Cred(r), Self[Cred(r)]), r)

InRole(r) == \E u \in Uid : /\ ActedFor(r, u)
                            /\ u = Creator \/ Since(Assignee(u), r) \/ Since(Participant(u), r)

Assigned(r) == \E u \in Uid : ActedFor(r, u) /\ (u = Creator \/ Since(Assignee(u), r))

OfChannel(r, c) == /\ ~IsBot(r)
                   /\ \E u \in Uid : Lately(Acts(Cred(r), u), r) /\ Lately(Member(u, c), r)

ThroughChannel(r) == \E c \in {Asked(r).source, Asked(r).only} \ {None} :
                         OfChannel(r, c) /\ Since(Link(c), r)

\* In the space of the matter: a bot that belongs there, or who names the space, has lately
\* been without one of his own, and is in it as far as the token header tells.
InPlace(r) ==
    \/ Lately(Home(Cred(r), Place), r)
    \/ /\ Asked(r).space = Place
       /\ ~\E s \in Space : LongThroughout(Home(Cred(r), s), r)
       /\ Header(r) # None => \E t \in Token : /\ Prefix[t] = Prefix[Header(r)]
                                               /\ Lately(In(t, Place), r)

\* Perhaps told that he is somewhere else.
Elsewhere(r) ==
    \/ \E s \in Space \ {Place} : Lately(Home(Cred(r), s), r)
    \/ Asked(r).space # Place /\ ~LongThroughout(Home(Cred(r), Place), r)

Ends(r, o) == req'[r].outcome = o /\ req[r].outcome = "none"

\* Who is shown a matter was, since the request began or a TTL and a timeout before,
\* somebody the matter is open to: in its space, and with a role on it or, a user, in a
\* linked channel that the request names; the audit log and the outputs are for roles
\* alone.  However old the answers in the caches are that the decision was made of.
ShownWasPermitted ==
    [][\A r \in Request : Ends(r, "shown") =>
         /\ InPlace(r) /\ Since(Live, r)
         /\ InRole(r) \/ (Op(r) # "audit" /\ ThroughChannel(r))]_vars

\* The same for who adds to the timeline, and he acts for the author he names; who links a
\* channel created the matter or was assigned to it at some time since the request began.
WrittenWasPermitted ==
    [][\A r \in Request : (Ends(r, "written") \/ Ends(r, "linked")) =>
         /\ InPlace(r) /\ Since(Live, r)
         /\ Ends(r, "written") => InRole(r) \/ ThroughChannel(r)
         /\ Op(r) = "progress" => ActedFor(r, Asked(r).target)
         /\ Ends(r, "linked") => Assigned(r)]_vars

\* No channel is linked to a matter, and no message of a channel goes to the language
\* model, for a user who was not a member of it; no bot links a channel.
ChannelsOfMembers ==
    [][/\ \A r \in Request : (Ends(r, "linked") \/ (pc(r) = "model" /\ pc(r)' = "act")) =>
            OfChannel(r, Asked(r).source) \/ (IsBot(r) /\ Op(r) # "link")
       /\ \A c \in Channel : (Link(c) \in holds' /\ Link(c) \notin holds /\ changes' = changes) =>
            \E r \in Request : pc(r) = "act" /\ OfChannel(r, c)]_vars

\* Nobody is turned away from a matter who has been in his role all the time, for as
\* long as a cache may go back: what the IM server says of the channels he names, or
\* fails to say, does not take from what his role gives.
RefusedWasBarred ==
    [][\A r \in Request :
         (/\ \E o \in {"forbidden", "not_found", "left_out"} : Ends(r, o)
          /\ Op(r) \in {"get", "audit", "write"} \/ (Op(r) = "list" /\ Asked(r).only = None))
         =>
         \/ Elsewhere(r) \/ ~Throughout(Live, r)
         \/ ~LongThroughout(Acts(Cred(r), Self[Cred(r)]), r)
         \/ \A u \in Uid :
              (LongThroughout(Acts(Cred(r), u), r) /\ (IsBot(r) => u = Self[Cred(r)])) =>
                 /\ u # Creator
                 /\ ~Throughout(Assignee(u), r) /\ ~Throughout(Participant(u), r)]_vars
=============================================================================
