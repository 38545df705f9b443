---------------------------- MODULE MCNotifyWorker ----------------------------
\* Two workers and a queue of one for four requests, in place of
\* 4 and 100: the queue fills, and workers overtake one another.
EXTENDS NotifyWorker
=============================================================================
