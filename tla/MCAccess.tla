------------------------------ MODULE MCAccess ------------------------------
(* Two worlds.  In one Ann is in the linked channel of a matter that her   *)
(* bot Rob created, who has a space; her session TA asks to see the matter *)
(* and to write.  In the other she is assigned to the matter and in a      *)
(* channel that is not linked, and Rob has no space; her session TB links  *)
(* and extracts.  Both tokens begin with the same characters.              *)
EXTENDS Access, TLC

CONSTANTS Ann, Rob, Cy, TA, TB, TR, S, C

MCSelf == TA :> Ann @@ TB :> Ann @@ TR :> Rob
MCPrefix == TA :> 1 @@ TB :> 1 @@ TR :> 2

Of(t, op, source, only) == [token |-> t, beside |-> None, space |-> S, op |-> op,
                            source |-> source, only |-> only, target |-> Ann]
OfBot == [Of(TR, "progress", C, None) EXCEPT !.beside = TA]

MCQuery == {Of(TA, "get", C, None), Of(TA, "audit", None, None), Of(TA, "list", C, C),
            Of(TA, "write", C, None), Of(TB, "link", C, None), Of(TB, "extract", C, None),
            Of(TB, "progress", C, None), OfBot,
            [OfBot EXCEPT !.space = None, !.target = Cy]}

MCOverlap == {Of(TA, "audit", None, None)}

MCStart == {{Acts(TA, Ann), Acts(TR, Rob), Owns(TR, Ann), Home(TR, S), In(TA, S),
             Member(Ann, C), Link(C), Live},
            {Acts(TB, Ann), Acts(TR, Rob), Owns(TR, Ann), In(TB, S), Member(Ann, C),
             Assignee(Ann), Live}}
MCMutable == {Acts(TA, Ann), Owns(TR, Ann), Home(TR, S), Member(Ann, C), Assignee(Ann),
              Link(C), Live}

MCSymmetry == Permutations(Request)
=============================================================================
