------------------------------ MODULE NotesLog ------------------------------
(***************************************************************************)
(* What the git-notes carrier promises a team: every clone holds a log of  *)
(* record lines and the remote holds a shared one; both only grow.  A      *)
(* clone gains what it appends and what was shared; the shared log gains   *)
(* exactly what one clone holds, once that clone holds all of it.          *)
(***************************************************************************)
CONSTANTS Clones, Recs

VARIABLES
    log,      \* log[c]: the lines clone c's readers see
    shared    \* the lines on the remote

Init ==
    /\ log = [c \in Clones |-> {}]
    /\ shared = {}

Append(c) ==
    /\ \E R \in SUBSET Recs : log' = [log EXCEPT ![c] = @ \cup R]
    /\ UNCHANGED shared

Merge(c) ==
    /\ \E S \in SUBSET shared : log' = [log EXCEPT ![c] = @ \cup S]
    /\ UNCHANGED shared

Publish(c) ==
    /\ shared \subseteq log[c]
    /\ shared' = log[c]
    /\ UNCHANGED log

Next == \E c \in Clones : Append(c) \/ Merge(c) \/ Publish(c)

Spec == Init /\ [][Next]_<<log, shared>>
=============================================================================
