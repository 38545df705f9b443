--------------------------- MODULE MCAnswerCache ---------------------------
(* Lookups of a channel by two tokens, in both orders of the uids.         *)
EXTENDS AnswerCache, TLC

CONSTANTS Ann, Bob, T1, T2

MCLookups == {[token |-> T1, facts |-> <<Ann, Bob>>], [token |-> T1, facts |-> <<Bob, Ann>>],
              [token |-> T2, facts |-> <<Ann>>]}
MCOneUser == {[token |-> T1, facts |-> <<Ann, Bob>>], [token |-> None, facts |-> <<Ann>>]}

MCSymmetry == Permutations(Request)
=============================================================================
