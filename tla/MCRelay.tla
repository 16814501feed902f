------------------------------ MODULE MCRelay ------------------------------
(* Relay for TLC: fairness. *)
EXTENDS Relay, TLC

\* A step that is not a fault's doing: some faults look the same.
Progress == (\E c \in Clients : RelayStep(c)) \/ (\E k \in Slots : TaskStep(k))

\* The user keeps running commands, some of which poll the relay; commands, tasks
\* and the pull loop go on, and after some point nothing fails any more.
RelayFairness ==
    /\ \A c \in Clients : /\ WF_allVars(NudgeRows(c)) /\ WF_allVars(RelayStep(c))
                         /\ SF_allVars(Register(c) /\ cli'[c].pc = "poll")
    /\ \A k \in Slots : WF_allVars(TaskStep(k))
    /\ WF_allVars(LoopStep)
    /\ <>[][~Retire /\ (RelayFault => Progress)]_allVars

RelayFairSpec == RelaySpec /\ RelayFairness

\* An unstamped entry whose server row is archived: the server refuses every
\* batch it is in (MemorySync!RepushIsAccepted and the run sync_rearchived).
Blocked(c) ==
    \E e \in Unstamped(c), i \in HasStatus({"archived"}) : srv[i].ext = <<c, e>>

\* The outbox empties again and again by the relay alone, unless an entry blocks
\* it: every other entry is in the end stamped with the id of its server row,
\* whatever answers, acknowledgements and sessions were lost on the way, one
\* entry per nudge and one buffered result at a time (outbox.rs,
\* RelaySession::push, RelaySession::ack).
OutboxDrains == []<>(\A c \in Clients : Unstamped(c) = {} \/ Blocked(c))
=============================================================================
