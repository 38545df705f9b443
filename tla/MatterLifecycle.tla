--------------------------- MODULE MatterLifecycle ---------------------------
(***************************************************************************)
(* What the matter API promises about the life of one matter, whatever the *)
(* interleaving of the requests that work on it: the status moves in       *)
(* atomic steps, each one allowed to the caller that took it, and deletion *)
(* is the last step.  MatterService implements this specification.         *)
(***************************************************************************)
EXTENDS Sequences, Naturals, Functions

CONSTANTS
    Request,    \* the requests that may act on the matter
    Caller,     \* the identities that send them: sequences of uids, actor first
    Creator     \* the uid in the matter's creator_id column

VARIABLE history    \* the committed steps, oldest first

Status == {"open", "done", "archived"}

UIDs(c) == Range(c)
IsCreator(c) == Creator \in UIDs(c)

\* The state a matter is in after the steps h; a matter is created open.
Current(h) == IF h = <<>> THEN "open" ELSE h[Len(h)].to

\* Deleting, archiving and leaving the archive are the creator's; there is no
\* way from the archive straight to done.
Permitted(c, from, to) ==
    /\ from # to
    /\ from # "deleted"
    /\ ("deleted" = to \/ "archived" \in {from, to}) => IsCreator(c)
    /\ ~(from = "archived" /\ to = "done")

\* A request moves the matter at most once.
Step(r, c, to) ==
    /\ \A i \in DOMAIN history : history[i].req # r
    /\ Permitted(c, Current(history), to)
    /\ history' = Append(history, [req |-> r, caller |-> c,
                                   from |-> Current(history), to |-> to])

LifecycleInit == history = <<>>

LifecycleNext ==
    \E r \in Request, c \in Caller, to \in Status \cup {"deleted"} : Step(r, c, to)

LifecycleSpec == LifecycleInit /\ [][LifecycleNext]_history
-----------------------------------------------------------------------------
\* The committed steps, replayed, are a legal life: the first leaves the state of a new
\* matter, each later one the state that the one before it led to, each is permitted to
\* its caller, and nobody took two.  A deletion is thus the last step.
LegalLife ==
    \A i \in DOMAIN history :
        /\ history[i].from = IF i = 1 THEN "open" ELSE history[i - 1].to
        /\ Permitted(history[i].caller, history[i].from, history[i].to)
        /\ \A j \in DOMAIN history : history[j].req = history[i].req => j = i
=============================================================================
