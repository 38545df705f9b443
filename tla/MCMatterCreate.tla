---------------------------- MODULE MCMatterCreate ----------------------------
\* Requests without assignees, with one, and with one that is listed twice.
EXTENDS MatterCreate, TLC

CONSTANTS ann

MCLists  == {<<>>, <<ann>>, <<ann, ann>>}
Symmetry == Permutations(Create)
=============================================================================
