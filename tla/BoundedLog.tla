----------------------------- MODULE BoundedLog -----------------------------
(***************************************************************************)
(* What a trade store promises: the last Cap records, oldest first.        *)
(***************************************************************************)
EXTENDS Integers, Sequences

CONSTANTS Record, Cap

VARIABLE log

\* The last n elements of s, or all of it.
Latest(s, n) == IF Len(s) <= n THEN s ELSE SubSeq(s, Len(s) - n + 1, Len(s))

LogInit == log = << >>

LogAdd(r) == log' = Latest(Append(log, r), Cap)

LogNext == \E r \in Record : LogAdd(r)

LogSpec == LogInit /\ [][LogNext]_log
=============================================================================
