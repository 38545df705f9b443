--------------------------- MODULE MCModelAnswers ---------------------------
(***************************************************************************)
(* Ann and Bob write messages with files.  The model names messages, one   *)
(* of which no batch has, and people, with a blank around a name, or       *)
(* nobody, or somebody who wrote nothing.  A year has ten days.            *)
(***************************************************************************)
EXTENDS ModelAnswers

CONSTANTS m1, m2, m9, Ann, AnnPadded, Bob, Carl, Empty, Spaces, F, FPadded, G, H

MCStr == {m1, m2, m9, Ann, AnnPadded, Bob, Carl, Empty, Spaces, F, FPadded, G, H}

MCTrim == [s \in MCStr |-> CASE s = AnnPadded -> Ann
                             [] s = FPadded   -> F
                             [] s = Spaces    -> Empty
                             [] OTHER         -> s]

\* Two messages, which differ in who wrote them and in what they carry.
MCMessages ==
    {[id |-> i, from |-> u, files |-> f] : i \in {m1, m2}, u \in {Ann, AnnPadded, Empty},
        f \in {<<H>>, <<FPadded, F>>, <<G, Spaces, F>>}}

\* Answers that differ in one respect: in the messages, the people or the day.
MCAnswers ==
    {[sources |-> s, people |-> <<Carl>>, deadline |-> None] : s \in BoundedSeq({m1, m2, m9}, 3)}
    \cup {[sources |-> s, people |-> p, deadline |-> None] :
            s \in {<<>>, <<m2>>}, p \in BoundedSeq({Ann, AnnPadded, Bob, Spaces}, 2)}
    \cup {[sources |-> <<m1>>, people |-> <<>>, deadline |-> d] : d \in 0..60}
=============================================================================
