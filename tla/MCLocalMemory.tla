--------------------------- MODULE MCLocalMemory ---------------------------
(* LocalMemory for TLC: the instance, and the fairness of its readers. *)
EXTENDS LocalMemory, TLC

CONSTANTS e1, e2

\* A teammate supersedes e1 by e2, which names e1.
Replaced == Line(e1, TRUE, e2, NoEntity)
Replacing == Line(e2, FALSE, NoEntity, e1)
Team == {Replaced, Replacing}
OnBranch == {Replacing}

\* The server.db holds e2 superseded by e1, once archived and once not.
Served == {[ent |-> e1, arch |-> FALSE, succ |-> NoEntity],
           [ent |-> e2, arch |-> FALSE, succ |-> NoEntity],
           [ent |-> e2, arch |-> TRUE, succ |-> e1]}

\* One kind of trouble in a behaviour, or none.
OneExposure == {{}} \cup {{x} : x \in Events}

(***************************************************************************)
(* Fairness: memory is read again and again (list, show, context, the      *)
(* session hooks), a read under way goes on, and no step of it fails or is *)
(* killed on every one of the reads.  Nothing is assumed of fetches, local *)
(* commands, appends and reconcile.                                        *)
(***************************************************************************)
ReadFairness ==
    /\ SF_vars(Begin)
    /\ SF_vars(ReadMarker)
    /\ SF_vars(Merge)
    /\ SF_vars(List)
    /\ SF_vars(ReadOid)
    /\ SF_vars(ReadExisting)
    /\ SF_vars(ReadCarried)
    /\ SF_vars(Import)
    /\ SF_vars(Mark)
    /\ SF_vars(Return)

FairSpec == Spec /\ ReadFairness

\* What a fetch brought gets a row in the end, where a merge may find the notes
\* lock taken: "the merge is skipped and the read returns anyway; the union is
\* idempotent, so the next read folds the entries in" (docs/memory.md:343).
SkippedIsFolded ==
    \A l \in TeamLines : l \in track ~> rows[l.ent] # "none"

\* A behaviour in which the lock is taken at times.
Contention == {{"contended"}}
=============================================================================
