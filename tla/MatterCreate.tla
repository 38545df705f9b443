---------------------------- MODULE MatterCreate ----------------------------
(***************************************************************************)
(* Creating matters in one space: each creation is a transaction that      *)
(* computes the next display number from the highest one, inserts the      *)
(* matter, and inserts its source channel and its assignees.  A unique key *)
(* over the numbers refuses a second matter with the same one, and the     *)
(* creation then computes the number again, three times at most.           *)
(*                                                                         *)
(* The FOR UPDATE of the first statement makes some of these interleavings *)
(* wait or fail; how many depends on the isolation level, which the code   *)
(* leaves to the server, so none is ruled out here.                        *)
(***************************************************************************)
EXTENDS Naturals, Sequences, FiniteSets, Functions

CONSTANTS
    Create,         \* the creations
    AssigneeList,   \* assignee_ids of the requests: sequences of uids
    MaxTries        \* the attempts of MatterRepo.Create: 3

ASSUME CreateAssumption == MaxTries \in Nat \ {0} /\ IsFiniteSet(Create)

VARIABLES
    pc,         \* the next statement of each creation
    req,        \* what each creation asks for: assignees, and a source channel?
    next,       \* the number it computed
    tries,      \* its attempts that the unique key refused
    pending,    \* the numbers inserted by open transactions, 0 for none
    matter,     \* the committed matters: their numbers, 0 for none
    deleted,    \* the matters that have been soft-deleted
    children,   \* the committed assignees and channel link of each matter
    recorded,   \* the matters whose "created" activity is stored
    since,      \* how many matters have been committed since a creation began (ghost)
    outcome     \* what each creation answered

table == <<matter, deleted, children>>
vars  == <<pc, req, next, tries, pending, table, recorded, since, outcome>>

NoChildren == [assignees |-> {}, linked |-> FALSE]
Committed  == {c \in Create : matter[c] # 0}
Numbers(S) == {matter[c] : c \in S}
Highest(S) == IF S = {} THEN 0 ELSE CHOOSE n \in S : \A m \in S : m <= n

Goto(c, label) == pc' = [pc EXCEPT ![c] = label] /\ UNCHANGED outcome
Finish(c, o) == /\ pc' = [pc EXCEPT ![c] = "done"]
                /\ outcome' = [outcome EXCEPT ![c] = o]
-----------------------------------------------------------------------------
\* POST /matters; the caller must be in the source channel it names, if any.
Arrive(c) ==
    /\ pc[c] = "idle"
    /\ \E list \in AssigneeList, linked \in BOOLEAN :
          /\ req' = [req EXCEPT ![c] = [list |-> list, linked |-> linked]]
          /\ \/ Goto(c, "next")
             \/ linked /\ Finish(c, "forbidden")
    /\ UNCHANGED <<next, tries, pending, table, recorded, since>>

\* Mutant: the number counts the rows in open transactions too.
NextDirtySeqNo(c) ==
    /\ pc[c] = "next"
    /\ next' = [next EXCEPT
         ![c] = Highest(Numbers(Committed) \cup {pending[d] : d \in Create}) + 1]
    /\ Goto(c, "insert")
    /\ UNCHANGED <<req, tries, pending, table, recorded, since>>

\* Mutant: the number leaves soft-deleted matters out.
NextLiveSeqNo(c) ==
    /\ pc[c] = "next"
    /\ next' = [next EXCEPT ![c] = Highest(Numbers(Committed \ deleted)) + 1]
    /\ Goto(c, "insert")
    /\ UNCHANGED <<req, tries, pending, table, recorded, since>>

\* SELECT MAX(seq_no) + 1 over all rows of the space, soft-deleted ones included.
NextSeqNo(c) ==
    /\ pc[c] = "next"
    /\ next' = [next EXCEPT ![c] = Highest(Numbers(Committed)) + 1]
    /\ Goto(c, "insert")
    /\ UNCHANGED <<req, tries, pending, table, recorded, since>>

\* The unique key: an equal number in an open transaction is waited for, one that
\* is committed is refused, and the last refusal ends the creation.
Insert(c) ==
    /\ pc[c] = "insert"
    /\ \A d \in Create \ {c} : pending[d] # next[c]
    /\ \/ /\ next[c] \notin Numbers(Committed)
          /\ pending' = [pending EXCEPT ![c] = next[c]]
          /\ Goto(c, "children")
          /\ UNCHANGED tries
       \/ /\ next[c] \in Numbers(Committed)
          /\ tries' = [tries EXCEPT ![c] = @ + 1]
          /\ IF tries[c] + 1 < MaxTries THEN Goto(c, "next") ELSE Finish(c, "duplicate")
          /\ UNCHANGED pending
    /\ UNCHANGED <<req, next, table, recorded, since>>

\* Mutant: the transaction ends with the matter row.
CommitMatterOnly(c) ==
    /\ pc[c] = "children"
    /\ matter' = [matter EXCEPT ![c] = pending[c]]
    /\ pending' = [pending EXCEPT ![c] = 0]
    /\ since' = [d \in Create |-> IF d = c THEN since[d] ELSE since[d] + 1]
    /\ IF IsInjective(req[c].list) THEN Goto(c, "record") ELSE Finish(c, "conflict")
    /\ UNCHANGED <<req, next, tries, deleted, children, recorded>>

\* The link and the assignees: a uid that is listed twice undoes everything.
InsertChildren(c) ==
    /\ pc[c] = "children"
    /\ IF IsInjective(req[c].list)
       THEN Goto(c, "commit") /\ UNCHANGED pending
       ELSE /\ Finish(c, "conflict")
            /\ pending' = [pending EXCEPT ![c] = 0]
    /\ UNCHANGED <<req, next, tries, table, recorded, since>>

\* The commit.  Its error does not tell whether it took place.
Commit(c) ==
    /\ pc[c] = "commit"
    /\ matter' = [matter EXCEPT ![c] = pending[c]]
    /\ children' = [children EXCEPT ![c] = [assignees |-> Range(req[c].list),
                                            linked |-> req[c].linked]]
    /\ pending' = [pending EXCEPT ![c] = 0]
    /\ since' = [d \in Create |->
                   IF d = c \/ pc[d] \in {"idle", "done"} THEN since[d] ELSE since[d] + 1]
    /\ Goto(c, "record") \/ Finish(c, "internal")
    /\ UNCHANGED <<req, next, tries, deleted, recorded>>

\* The "created" activity, after the commit and best-effort.
Record(c) ==
    /\ pc[c] = "record"
    /\ recorded' = recorded \cup {c} \/ UNCHANGED recorded
    /\ Finish(c, "created")
    /\ UNCHANGED <<req, next, tries, pending, table, since>>

\* A statement fails, by a deadlock with another creation for one: the open
\* transaction is rolled back.
Fail(c) ==
    /\ pc[c] \in {"next", "insert", "children", "commit", "record"}
    /\ pending' = [pending EXCEPT ![c] = 0]
    /\ Finish(c, "internal")
    /\ UNCHANGED <<req, next, tries, table, recorded, since>>

\* A matter is soft-deleted: its row and its number stay.
Delete(c) ==
    /\ c \in Committed \ deleted
    /\ deleted' = deleted \cup {c}
    /\ UNCHANGED <<pc, req, next, tries, pending, matter, children, recorded, since,
                   outcome>>

Init ==
    /\ pc = [c \in Create |-> "idle"]
    /\ req = [c \in Create |-> [list |-> <<>>, linked |-> FALSE]]
    /\ next = [c \in Create |-> 0]
    /\ tries = [c \in Create |-> 0]
    /\ pending = [c \in Create |-> 0]
    /\ matter = [c \in Create |-> 0]
    /\ deleted = {}
    /\ children = [c \in Create |-> NoChildren]
    /\ recorded = {}
    /\ since = [c \in Create |-> 0]
    /\ outcome = [c \in Create |-> "none"]

Serve(c) == \/ Arrive(c) \/ NextSeqNo(c) \/ Insert(c) \/ InsertChildren(c)
            \/ Commit(c) \/ Record(c)

\* Every request is answered; the server waits for the next one.
Quiet == (\A c \in Create : pc[c] = "done") /\ UNCHANGED vars

Next == (\E c \in Create : Serve(c) \/ Fail(c) \/ Delete(c)) \/ Quiet

Spec == Init /\ [][Next]_vars
-----------------------------------------------------------------------------
\* The types of the tables and of the transactions.
TypeOK ==
    LET Number == 0..Cardinality(Create) IN
    /\ pc \in [Create -> {"idle", "next", "insert", "children", "commit", "record", "done"}]
    /\ req \in [Create -> [list : AssigneeList \cup {<<>>}, linked : BOOLEAN]]
    /\ next \in [Create -> Number] /\ pending \in [Create -> Number]
    /\ matter \in [Create -> Number]
    /\ tries \in [Create -> 0..MaxTries]
    /\ deleted \subseteq Committed /\ recorded \subseteq Committed
    /\ \A c \in Create : children[c].assignees \subseteq UNION {Range(l) : l \in AssigneeList}
    /\ since \in [Create -> Nat]
    /\ outcome \in [Create -> {"none", "created", "forbidden", "conflict", "duplicate",
                               "internal"}]

\* However the creations interleave, fail and are retried, and whatever has been
\* deleted, the numbers of a space are 1..n with none missing and none twice.
SeqNosAreDense ==
    /\ \A c, d \in Committed : matter[c] = matter[d] => c = d
    /\ Numbers(Committed) = 1..Cardinality(Committed)

\* A creation is refused for its number only while others overtake it: each refusal
\* is paid for by a creation that was committed during this one, so nobody runs
\* out of attempts in a space where nothing else is created.
RefusalsAreContention == \A c \in Create : tries[c] <= since[c]

\* A matter is never seen without its assignees and its source channel, and a
\* creation refused for its number or its assignees leaves nothing behind.
CreatedWhole ==
    \A c \in Create :
        /\ c \in Committed =>
              children[c] = [assignees |-> Range(req[c].list), linked |-> req[c].linked]
        /\ outcome[c] \in {"forbidden", "conflict", "duplicate"} =>
              c \notin Committed /\ pending[c] = 0 /\ children[c] = NoChildren

\* README.md says the matter row and its initial record are persisted in one
\* transaction: a matter that exists has its record.
PersistedTogether == Committed \subseteq recorded
=============================================================================
