------------------------------ MODULE TaskPool ------------------------------
(***************************************************************************)
(* What the notification worker promises its callers: a task handed to it  *)
(* is taken or refused at once, refused only when at least a buffer full   *)
(* of tasks is waiting, never more of them are held than the buffer and    *)
(* the workers can hold, and a task that was taken is over at most once.   *)
(***************************************************************************)
EXTENDS Naturals, FiniteSets

CONSTANTS Task, Buffer, Workers     \* Workers: how many there are

VARIABLES held, over, refused       \* sets of tasks

New == Task \ (held \cup over \cup refused)

PoolInit == held = {} /\ over = {} /\ refused = {}

Accept(t) ==
    /\ t \in New
    /\ Cardinality(held) < Buffer + Workers
    /\ held' = held \cup {t}
    /\ UNCHANGED <<over, refused>>

Refuse(t) ==
    /\ t \in New
    /\ Cardinality(held) >= Buffer
    /\ refused' = refused \cup {t}
    /\ UNCHANGED <<held, over>>

Run(t) ==
    /\ t \in held
    /\ held' = held \ {t}
    /\ over' = over \cup {t}
    /\ UNCHANGED refused

PoolNext == \E t \in Task : Accept(t) \/ Refuse(t) \/ Run(t)

PoolSpec == PoolInit /\ [][PoolNext]_<<held, over, refused>>
=============================================================================
