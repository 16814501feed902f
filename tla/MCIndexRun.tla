---------------------------- MODULE MCIndexRun ----------------------------
(* Instances of IndexRun for TLC. *)
EXTENDS IndexRun

CONSTANTS p1, p2, f1, f2

Mode(force, detach) ==
    [kind |-> "index", force |-> force, detach |-> detach, noSummaries |-> FALSE]

\* Version 1 has a named chunk and two title-less ones, of which one has nothing to
\* select from; version 2 has no chunk that may be stored (each holds a secret).
MCParts == <<<<"named", "untitled", "unrefinable">>, <<>>>>

\* f1 starts with chunks, f2 without.
MCTree == [f \in Files |-> IF f = f1 THEN 1 ELSE 2]

\* f1 is deleted or loses its chunks.
MCChanges == {f1} \X {Absent, 2}

MCModes == {Mode(FALSE, FALSE), Mode(FALSE, TRUE), Mode(TRUE, FALSE)}
PlainModes == {Mode(FALSE, FALSE)}
===========================================================================
