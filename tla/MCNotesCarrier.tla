--------------------------- MODULE MCNotesCarrier ---------------------------
(***************************************************************************)
(* Instances of the git-notes carrier for TLC.                             *)
(***************************************************************************)
EXTENDS NotesCarrier, TLC

CONSTANTS c1, c2, c3, p1, p2, p3, o1, r1, r2, e1, e2

\* Two processes share clone c1; a third one works in clone c2, where git
\* commands fail.
RaceHome == (p1 :> c1) @@ (p2 :> c1) @@ (p3 :> c2)
RaceCommands == (p1 :> {"append", "publish"}) @@ (p2 :> {"append", "import"})
                @@ (p3 :> {"import", "publish"})
RaceEntity == (r1 :> e1) @@ (r2 :> e2)
\* The two lines, with their entities, are interchangeable.
RaceSymmetry ==
    {f \in Permutations({r1, r2, e1, e2}) :
        \A r \in {r1, r2} : f[r] \in {r1, r2} /\ f[Entity[r]] = Entity[f[r]]}
RaceFaults == (p1 :> {"show"}) @@ (p2 :> {}) @@ (p3 :> {"show", "list"})

-----------------------------------------------------------------------------
\* p1 appends and keeps trying to publish; p2 publishes and merges against it.
\* p3 does the same in a clone that cannot lock.
LiveHome == (p1 :> c1) @@ (p2 :> c2) @@ (p3 :> c3)
LiveCommands == (p1 :> {"append", "publish"}) @@ (p2 :> {"append", "merge", "publish"})
                @@ (p3 :> {"append", "merge", "publish"})
LiveFaults == [p \in {p1, p2, p3} |-> {}]

(***************************************************************************)
(* Fairness, of p1 only: a running process goes on (or dies), a publish is *)
(* run again at every later `git push` of the pre-push hook, and no single *)
(* git step of a publish fails, is contended or is killed on every one of  *)
(* the runs.  Nothing is assumed of p2 and p3.                             *)
(***************************************************************************)
PublishFairness(p) ==
    /\ WF_vars(ProcStep(p))
    /\ SF_vars(StartPublish(p))
    /\ SF_vars(PublishFetch(p) /\ track'[Home[p]] = remote)
    /\ SF_vars(LockAcquired(p) /\ job[p].kind = "publish")
    /\ SF_vars(Merge(p))
    /\ SF_vars(PublishPush(p))

FairSpec == Spec /\ PublishFairness(p1)

\* A line appended under the lock reaches the remote, however many publishes
\* lose the race, are skipped or crash: publish_notes re-fetches and merges
\* before each push, and the next publish starts over.
EventuallyShared ==
    \A r \in Recs : r \in acked[Home[p1]] ~> r \in Lines(remote)
=============================================================================
