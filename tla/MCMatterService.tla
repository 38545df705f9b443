--------------------------- MODULE MCMatterService ---------------------------
\* Three users: the creator, ann, who is an assignee, and bob, who is not.  In MCEvery
\* bob is a bot of the creator, which acts for her; ann comes through a bot of hers.
EXTENDS MatterService, TLC

CONSTANTS creator, ann, bob

MCUser     == {creator, ann, bob}
MCCaller   == {<<creator>>, <<ann>>, <<bob>>}
MCPair     == {<<creator>>, <<ann>>}
MCEvery    == {<<creator>>, <<ann>>, <<bob, creator>>}
MCBot      == {<<ann>>}
MCAssignee == {ann}
Symmetry   == Permutations(Request)
=============================================================================
