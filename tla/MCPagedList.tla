---------------------------- MODULE MCPagedList ----------------------------
\* The files of a matter.  The page boundary falls between rows of one time, and
\* rows are added on both sides of it.  The time 3 is past 2262: in a cursor it
\* becomes one before all others.
EXTENDS PagedList

MCRow(i, t, f) == [id |-> i, at |-> t, file |-> f]

\* Two rows of one file: the later is not shown.
MCCopies == {MCRow(1, 1, "f"), MCRow(2, 2, "f"), MCRow(4, 2, "g")}

\* Late copies of each, sent earlier or at the same time, and a file of the far future.
MCNewCopies == {MCRow(3, 1, "g"), MCRow(5, 1, "f"), MCRow(5, 2, "g"), MCRow(3, 3, "h")}

MCCarried == [t \in {1, 2, 3} |-> IF t = 3 THEN 0 ELSE t]

\* A search finds all files, or all but the first copy of f, or but the file g.
MCFilters == {{}, {1}, {4, 5}}
=============================================================================
