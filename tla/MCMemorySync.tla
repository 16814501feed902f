--------------------------- MODULE MCMemorySync ---------------------------
(* MemorySync for TLC: the fairness of the liveness run and symmetry. *)
EXTENDS MemorySync, TLC

\* Entries are interchangeable in the safety run.
Symmetry == Permutations(Entities)

\* Every machine keeps being synced (a user, a hook, an agent's session end),
\* a command that runs goes on, and after some point requests are answered: the
\* faults before it are arbitrary in kind, number and place.
SyncFairness ==
    /\ \A c \in Clients : WF_vars(StartSync(c, FALSE)) /\ WF_vars(Step(c))
    /\ <>[][\A c \in Clients : ~Fault(c)]_vars

FairSpec == Spec /\ SyncFairness

\* An active entry of a store that stays active is in the end stamped with the
\* id of a server row, whatever answers were lost on the way (push_local_reporting,
\* find_by_remote_ids).
EventuallyPushed ==
    \A c \in Clients, e \in Entities :
        loc[c][e].st = "active" ~> loc[c][e].rid # 0 \/ loc[c][e].st = "archived"
=============================================================================
