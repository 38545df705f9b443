------------------------------ MODULE MCTimeline ------------------------------
\* ann owns the matter; bob is nobody yet; bot belongs to bob, who has a token of
\* his own.  An entry comes without files, with one or two, or with the same one twice.  A
\* model cites nothing, or two files and a repetition; in MCOneFile the same file, sent
\* early or late.
EXTENDS Timeline, TLC

CONSTANTS ann, bob, bot, f1, f2

MCUser    == {ann, bob, bot}
Ann       == [actor |-> ann, related |-> {ann}, owner |-> None, token |-> TRUE]
Bob       == [actor |-> bob, related |-> {bob, bot}, owner |-> None, token |-> TRUE]
Bot       == [actor |-> bot, related |-> {bot}, owner |-> bob, token |-> FALSE]
MCAnn     == {Ann}
MCEvery   == {Ann, Bob, Bot}
MCAssigned == {bob}
MCSent    == {<<>>, <<f1>>, <<f1, f2>>, <<f1, f1>>}
MCNoFiles == {<<>>}
At(f, t)  == [file |-> f, sent |-> t]
MCCited   == {<<>>, <<At(f2, 2), At(f1, 2), At(f2, 1)>>}
MCOneFile == {<<At(f1, 1)>>, <<At(f1, 2)>>}
=============================================================================
