------------------------- MODULE NotesCarrier_proofs -------------------------
(***************************************************************************)
(* NoLostAppend, HistoryGrows, OnlySerializedIsShared and ReadIsCurrent    *)
(* for every number of clones, processes, objects and records.             *)
(***************************************************************************)
EXTENDS NotesCarrier, TLAPS

USE CarrierAssumption

\* Ancestors are commits that exist.
AncestorsExist == \A k \in 0..next : anc[k] \subseteq 0..next

\* Inside the guarded section a process of a clone that can lock holds the
\* lock; a merge, and the push after it, happen in such a clone only.
GuardedStages ==
    \A p \in Procs :
        /\ (pc[p] \in {"carried", "read", "write", "merge"} /\ Home[p] \in Usable)
              => lock[Home[p]] = p
        /\ pc[p] \in {"merge", "push"} => Home[p] \in Usable

Serialized == UNION {acked[c] : c \in Usable}

\* Every line a clone that can lock may receive was appended under a lock.
Provenance ==
    /\ Lines(remote) \subseteq Serialized
    /\ \A c \in Clones : Lines(track[c]) \subseteq Serialized
    /\ \A c \in Usable : Lines(work[c]) \subseteq Serialized

IInv ==
    /\ TypeOK /\ AncestorsExist /\ GuardedStages /\ ReadIsCurrent
    /\ HistoryGrows /\ NoLostAppend /\ Provenance

-----------------------------------------------------------------------------
LEMMA SomeObjectIsObject == SomeObject \in Objects
BY DEF SomeObject

LEMMA NoJobType == NoJob \in Jobs
BY SomeObjectIsObject DEF NoJob, Task, Jobs, Kinds

\* Whatever ends a call leaves well-typed control state.
LEMMA FinishType ==
    ASSUME TypeOK, NEW p \in Procs, Finish(p)
    PROVE  /\ pc' \in [Procs -> Stages]
           /\ lock' \in [Clones -> Procs \cup {NoProc}]
           /\ job' \in [Procs -> Jobs]
           /\ buf' \in [Procs -> Body]
BY NoJobType DEF TypeOK, Finish, Goto, Release, Stages, Body

\* A new commit leaves the existing ones alone.
LEMMA NewCommitKeeps ==
    ASSUME TypeOK, AncestorsExist,
           NEW P, P \subseteq 0..next, NEW t \in [Objects -> Body], NewCommit(P, t)
    PROVE  /\ next' = next + 1 /\ next' \in CommitIds
           /\ anc' \in [CommitIds -> SUBSET CommitIds]
           /\ tree' \in [CommitIds -> [Objects -> Body]]
           /\ \A k \in 0..next : anc'[k] = anc[k] /\ tree'[k] = tree[k]
           /\ anc'[next + 1] = {next + 1} \cup UNION {anc[q] : q \in P}
           /\ tree'[next + 1] = t
           /\ AncestorsExist'
<1>1. next + 1 \in CommitIds /\ next' = next + 1 /\ next \in Nat
  BY DEF NewCommit, TypeOK, CommitIds
<1>2. UNION {anc[q] : q \in P} \subseteq 0..next
  BY <1>1 DEF AncestorsExist
<1>3. 0..next \subseteq CommitIds /\ 0..next' = 0..next \cup {next + 1}
  BY <1>1 DEF CommitIds
<1>4. {next + 1} \cup UNION {anc[q] : q \in P} \in SUBSET CommitIds
  BY <1>1, <1>2, <1>3
<1>5. \A k \in 0..next : k # next + 1 /\ k \in CommitIds
  BY <1>1, <1>3
<1>6. /\ anc' = [anc EXCEPT ![next + 1] = {next + 1} \cup UNION {anc[q] : q \in P}]
      /\ tree' = [tree EXCEPT ![next + 1] = t]
  BY DEF NewCommit
<1>7. /\ anc' \in [CommitIds -> SUBSET CommitIds]
      /\ tree' \in [CommitIds -> [Objects -> Body]]
      /\ \A k \in 0..next : anc'[k] = anc[k] /\ tree'[k] = tree[k]
      /\ anc'[next + 1] = {next + 1} \cup UNION {anc[q] : q \in P}
      /\ tree'[next + 1] = t
  BY <1>1, <1>4, <1>5, <1>6 DEF TypeOK
<1>8. AncestorsExist'
  BY <1>1, <1>2, <1>3, <1>7 DEF AncestorsExist
<1> QED BY <1>1, <1>7, <1>8

-----------------------------------------------------------------------------
(***************************************************************************)
(* Control steps: the notes history, the refs and acked stay as they are   *)
(***************************************************************************)
DataInv == AncestorsExist /\ HistoryGrows /\ NoLostAppend /\ Provenance

LEMMA DataUnchanged ==
    ASSUME DataInv, UNCHANGED <<history, refs, acked>>
    PROVE  DataInv'
BY DEF DataInv, AncestorsExist, HistoryGrows, KeepsAncestors, NoLostAppend,
       Provenance, Serialized, Lines, history, refs

\* Ending a call keeps the control invariants: it takes the lock from nobody.
LEMMA FinishControl ==
    ASSUME IInv, NEW p \in Procs, Finish(p)
    PROVE  /\ GuardedStages'
           /\ \A q \in Procs \ {p} : /\ pc'[q] = pc[q] /\ job'[q] = job[q]
                                      /\ buf'[q] = buf[q]
           /\ \A q \in Procs \ {p} : lock[Home[q]] = q => lock'[Home[q]] = q
           /\ pc'[p] = "idle"
<1>1. /\ pc'[p] = "idle"
      /\ \A q \in Procs \ {p} : /\ pc'[q] = pc[q] /\ job'[q] = job[q]
                                 /\ buf'[q] = buf[q]
  BY DEF Finish, Goto, IInv, TypeOK
<1>2. \A q \in Procs \ {p} : lock[Home[q]] = q => lock'[Home[q]] = q
  BY DEF Finish, Release, IInv, TypeOK
<1>3. GuardedStages'
  BY <1>1, <1>2 DEF GuardedStages, IInv
<1> QED BY <1>1, <1>2, <1>3

LEMMA FinishStep ==
    ASSUME IInv, NEW p \in Procs, Finish(p), UNCHANGED <<history, refs, acked>>
    PROVE  IInv'
<1>1. TypeOK'
  BY FinishType DEF IInv, TypeOK, history, refs
<1>2. ReadIsCurrent'
  BY FinishControl DEF IInv, ReadIsCurrent, history, refs
<1> QED BY <1>1, <1>2, FinishControl, DataUnchanged DEF IInv, DataInv

LEMMA LockAcquiredStep ==
    ASSUME IInv, NEW p \in Procs, LockAcquired(p)
    PROVE  IInv'
<1>1. /\ LockedStage(job[p].kind) \in {"carried", "read", "merge"}
      /\ pc' = [pc EXCEPT ![p] = LockedStage(job[p].kind)]
      /\ lock' = [lock EXCEPT ![Home[p]] = p]
      /\ lock[Home[p]] = NoProc /\ Home[p] \in Usable
      /\ UNCHANGED <<history, refs, job, buf, acked>>
  BY DEF LockAcquired, LockedStage, Goto
<1>2. TypeOK'
  BY <1>1 DEF IInv, TypeOK, history, refs, Stages
<1>3. GuardedStages'
  BY <1>1 DEF IInv, TypeOK, GuardedStages
<1>4. ReadIsCurrent'
  BY <1>1 DEF IInv, TypeOK, ReadIsCurrent, history, refs
<1> QED BY <1>1, <1>2, <1>3, <1>4, DataUnchanged DEF IInv, DataInv

LEMMA LockUnusableStep ==
    ASSUME IInv, NEW p \in Procs, LockUnusable(p)
    PROVE  IInv'
<1>1. CASE Finish(p)
  BY <1>1, FinishStep DEF LockUnusable
<1>2. CASE /\ job[p].kind \in {"append", "import"}
           /\ Goto(p, LockedStage(job[p].kind))
           /\ UNCHANGED <<lock, job, buf>>
  <2>1. /\ LockedStage(job[p].kind) \in {"carried", "read"}
        /\ pc' = [pc EXCEPT ![p] = LockedStage(job[p].kind)]
        /\ Home[p] \notin Usable
        /\ UNCHANGED <<history, refs, lock, job, buf, acked>>
    BY <1>2 DEF LockUnusable, LockedStage, Goto
  <2>2. TypeOK'
    BY <2>1 DEF IInv, TypeOK, history, refs, Stages
  <2>3. GuardedStages'
    BY <2>1 DEF IInv, TypeOK, GuardedStages
  <2>4. ReadIsCurrent'
    BY <2>1 DEF IInv, TypeOK, ReadIsCurrent, history, refs
  <2> QED BY <2>1, <2>2, <2>3, <2>4, DataUnchanged DEF IInv, DataInv
<1> QED BY <1>1, <1>2 DEF LockUnusable

\* A command enters its first stage: "lock" for all but a publish.
LEMMA StartStep ==
    ASSUME IInv, NEW p \in Procs, NEW stage \in {"lock", "fetch"},
           NEW task \in Jobs, Start(p, stage, task)
    PROVE  IInv'
<1>1. /\ pc' = [pc EXCEPT ![p] = stage] /\ job' = [job EXCEPT ![p] = task]
      /\ UNCHANGED <<history, refs, lock, buf, acked>>
  BY DEF Start, Goto
<1>2. TypeOK'
  BY <1>1 DEF IInv, TypeOK, history, refs, Stages
<1>3. GuardedStages'
  BY <1>1 DEF IInv, TypeOK, GuardedStages
<1>4. ReadIsCurrent'
  BY <1>1 DEF IInv, TypeOK, ReadIsCurrent, history, refs
<1> QED BY <1>1, <1>2, <1>3, <1>4, DataUnchanged DEF IInv, DataInv

LEMMA CommandStep ==
    ASSUME IInv, NEW p \in Procs, Command(p)
    PROVE  IInv'
<1>1. ASSUME NEW r \in Recs, NEW o \in Objects, StartAppend(p, r, o)
      PROVE  IInv'
  <2>1. Task("append", {r}, o, 0) \in Jobs
    BY DEF Task, Jobs, Kinds
  <2> QED BY <1>1, <2>1, StartStep DEF StartAppend
<1>2. ASSUME NEW R \in SUBSET Recs, NEW o \in HeadReach, StartImport(p, R, o)
      PROVE  IInv'
  <2>1. Task("import", R, o, 0) \in Jobs
    BY DEF Task, Jobs, Kinds
  <2> QED BY <1>2, <2>1, StartStep DEF StartImport
<1>3. CASE StartMerge(p)
  <2>1. Task("merge", {}, SomeObject, 0) \in Jobs
    BY SomeObjectIsObject DEF Task, Jobs, Kinds
  <2> QED BY <1>3, <2>1, StartStep DEF StartMerge
<1>4. CASE StartPublish(p)
  <2>1. Task("publish", {}, SomeObject, 1) \in Jobs
    BY SomeObjectIsObject DEF Task, Jobs, Kinds
  <2> QED BY <1>4, <2>1, StartStep DEF StartPublish
<1> QED BY <1>1, <1>2, <1>3, <1>4 DEF Command

LEMMA KeepFreshStep ==
    ASSUME IInv, NEW p \in Procs, NEW carried, pc[p] = "carried",
           KeepFresh(p, carried), UNCHANGED <<history, refs, acked>>
    PROVE  IInv'
<1> DEFINE fresh == {r \in job[p].recs : Entity[r] \notin carried}
<1>1. CASE Finish(p)
  BY <1>1, FinishStep
<1>2. CASE /\ job' = [job EXCEPT ![p].recs = fresh]
           /\ Goto(p, "read") /\ UNCHANGED <<lock, buf>>
  <2>1. /\ pc' = [pc EXCEPT ![p] = "read"]
        /\ UNCHANGED <<lock, buf, history, refs, acked>>
    BY <1>2 DEF Goto
  <2>2. job' \in [Procs -> Jobs] /\ \A q \in Procs \ {p} : job'[q] = job[q]
    <3>1. job[p] \in Jobs /\ fresh \in SUBSET Recs
      BY DEF IInv, TypeOK, Jobs
    <3>2. [job[p] EXCEPT !.recs = fresh] \in Jobs
      BY <3>1 DEF Jobs
    <3>3. job' = [job EXCEPT ![p] = [job[p] EXCEPT !.recs = fresh]]
      BY <1>2
    <3> HIDE DEF fresh
    <3> QED BY <3>2, <3>3 DEF IInv, TypeOK
  <2>3. TypeOK'
    BY <2>1, <2>2 DEF IInv, TypeOK, history, refs, Stages
  <2>4. GuardedStages'
    BY <2>1 DEF IInv, TypeOK, GuardedStages
  <2>5. ReadIsCurrent'
    BY <2>1, <2>2 DEF IInv, TypeOK, ReadIsCurrent, history, refs
  <2> QED BY <2>1, <2>3, <2>4, <2>5, DataUnchanged DEF IInv, DataInv
<1> QED BY <1>1, <1>2 DEF KeepFresh

LEMMA ReadBodyStep ==
    ASSUME IInv, NEW p \in Procs, ReadBody(p)
    PROVE  IInv'
<1>1. /\ pc[p] = "read" /\ pc' = [pc EXCEPT ![p] = "write"]
      /\ buf' = [buf EXCEPT ![p] = tree[work[Home[p]]][job[p].obj]]
      /\ UNCHANGED <<history, refs, lock, job, acked>>
  BY DEF ReadBody, Goto
<1>2. tree[work[Home[p]]][job[p].obj] \in Body
  <2>1. work[Home[p]] \in CommitIds /\ job[p].obj \in Objects
    BY DEF IInv, TypeOK, CommitIds, Jobs
  <2> QED BY <2>1 DEF IInv, TypeOK
<1>3. TypeOK'
  BY <1>1, <1>2 DEF IInv, TypeOK, history, refs, Stages
<1>4. GuardedStages'
  BY <1>1 DEF IInv, TypeOK, GuardedStages
<1>5. ReadIsCurrent'
  BY <1>1 DEF IInv, TypeOK, GuardedStages, ReadIsCurrent, history, refs
<1> QED BY <1>1, <1>3, <1>4, <1>5, DataUnchanged DEF IInv, DataInv

-----------------------------------------------------------------------------
(***************************************************************************)
(* Steps that move a ref                                                   *)
(***************************************************************************)
\* A fetch copies the remote's tip into a tracking ref.
LEMMA TrackMoves ==
    ASSUME IInv, NEW c \in Clones, track' = [track EXCEPT ![c] = remote],
           UNCHANGED <<history, work, remote, acked>>
    PROVE  DataInv' /\ track' \in [Clones -> 0..next]
<1>1. /\ \A d \in Clones : track'[d] = track[d] \/ track'[d] = remote
      /\ track' \in [Clones -> 0..next]
      /\ UNCHANGED <<next, anc, tree, work, remote, acked>>
  BY DEF IInv, TypeOK, history
<1>2. AncestorsExist' /\ NoLostAppend'
  BY <1>1 DEF IInv, AncestorsExist, NoLostAppend, Lines
<1>3. HistoryGrows'
  BY <1>1 DEF IInv, HistoryGrows, KeepsAncestors
<1>4. Provenance'
  BY <1>1 DEF IInv, Provenance, Serialized, Lines
<1> QED BY <1>1, <1>2, <1>3, <1>4 DEF DataInv

LEMMA PublishFetchStep ==
    ASSUME IInv, NEW p \in Procs, PublishFetch(p)
    PROVE  IInv'
<1>1. /\ pc' = [pc EXCEPT ![p] = "lock"]
      /\ UNCHANGED <<history, work, remote, lock, job, buf, acked>>
  BY DEF PublishFetch, Goto
<1>2. DataInv' /\ track' \in [Clones -> 0..next]
  <2>1. CASE track' = [track EXCEPT ![Home[p]] = remote]
    BY <1>1, <2>1, TrackMoves
  <2>2. CASE UNCHANGED track
    BY <1>1, <2>2, DataUnchanged DEF refs, IInv, DataInv, TypeOK
  <2> QED BY <2>1, <2>2 DEF PublishFetch
<1>3. TypeOK'
  BY <1>1, <1>2 DEF IInv, TypeOK, history, Stages
<1>4. GuardedStages'
  BY <1>1 DEF IInv, TypeOK, GuardedStages
<1>5. ReadIsCurrent'
  BY <1>1 DEF IInv, TypeOK, ReadIsCurrent, history
<1> QED BY <1>2, <1>3, <1>4, <1>5 DEF IInv, DataInv

LEMMA UserFetchStep ==
    ASSUME IInv, NEW c \in Clones, UserFetch(c)
    PROVE  IInv'
<1>1. /\ track' = [track EXCEPT ![c] = remote]
      /\ UNCHANGED <<history, work, remote, lock, pc, job, buf, acked>>
  BY DEF UserFetch
<1>2. DataInv' /\ track' \in [Clones -> 0..next]
  BY <1>1, TrackMoves
<1>3. TypeOK'
  BY <1>1, <1>2 DEF IInv, TypeOK, history
<1>4. GuardedStages' /\ ReadIsCurrent'
  BY <1>1 DEF IInv, TypeOK, GuardedStages, ReadIsCurrent, history
<1> QED BY <1>2, <1>3, <1>4 DEF IInv, DataInv

\* A push that lands publishes the tip of a clone that can lock.
LEMMA PublishPushStep ==
    ASSUME IInv, NEW p \in Procs, PublishPush(p)
    PROVE  IInv'
<1> DEFINE tip == work[Home[p]]
<1>0. Home[p] \in Usable /\ tip \in 0..next
  BY DEF PublishPush, IInv, GuardedStages, TypeOK
<1>1. CASE remote' = tip /\ Finish(p)
  <2>1. UNCHANGED <<history, work, track, acked>>
    BY DEF PublishPush
  <2>2. TypeOK'
    BY <1>0, <1>1, <2>1, FinishType DEF IInv, TypeOK, history
  <2>3. GuardedStages' /\ ReadIsCurrent'
    BY <1>1, <2>1, FinishControl DEF IInv, ReadIsCurrent, history
  <2>4. AncestorsExist' /\ NoLostAppend'
    BY <2>1 DEF IInv, AncestorsExist, NoLostAppend, Lines, history
  <2>5. HistoryGrows'
    BY <1>0, <1>1, <2>1 DEF IInv, HistoryGrows, KeepsAncestors, history
  <2>6. Provenance'
    BY <1>0, <1>1, <2>1 DEF IInv, Provenance, Serialized, Lines, history
  <2> QED BY <2>2, <2>3, <2>4, <2>5, <2>6 DEF IInv
<1>2. CASE /\ job[p].attempt < MaxAttempts
           /\ job' = [job EXCEPT ![p].attempt = @ + 1]
           /\ Goto(p, "fetch")
           /\ UNCHANGED <<remote, lock, buf>>
  <2>1. /\ pc' = [pc EXCEPT ![p] = "fetch"]
        /\ UNCHANGED <<history, refs, lock, buf, acked>>
    BY <1>2 DEF PublishPush, Goto, refs
  <2>2. job' \in [Procs -> Jobs] /\ \A q \in Procs \ {p} : job'[q] = job[q]
    <3> DEFINE again == [job[p] EXCEPT !.attempt = @ + 1]
    <3>1. job[p] \in Jobs
      BY DEF IInv, TypeOK
    <3>2. job[p].attempt + 1 \in 0..MaxAttempts
      BY <1>2, <3>1 DEF Jobs
    <3>3. again \in Jobs
      BY <3>1, <3>2 DEF Jobs
    <3>4. job' = [job EXCEPT ![p] = again]
      BY <1>2
    <3> HIDE DEF again
    <3> QED BY <3>3, <3>4 DEF IInv, TypeOK
  <2>3. TypeOK'
    BY <2>1, <2>2 DEF IInv, TypeOK, history, refs, Stages
  <2>4. GuardedStages'
    BY <2>1 DEF IInv, TypeOK, GuardedStages
  <2>5. ReadIsCurrent'
    BY <2>1, <2>2 DEF IInv, TypeOK, ReadIsCurrent, history, refs
  <2> QED BY <2>1, <2>3, <2>4, <2>5, DataUnchanged DEF IInv, DataInv
<1>3. CASE Finish(p) /\ UNCHANGED remote
  BY <1>3, FinishStep DEF PublishPush, refs
<1> QED BY <1>1, <1>2, <1>3 DEF PublishPush

-----------------------------------------------------------------------------
(***************************************************************************)
(* Steps that make a commit                                                *)
(***************************************************************************)
\* A commit whose tree keeps its parents' lines keeps those of all ancestors.
LEMMA NewCommitKeepsAncestors ==
    ASSUME TypeOK, AncestorsExist,
           NEW P, P \subseteq 0..next, NEW t \in [Objects -> Body], NewCommit(P, t),
           \A q \in P : KeepsAncestors(q) /\ \A o \in Objects : tree[q][o] \subseteq t[o]
    PROVE  \A d \in anc'[next + 1], o \in Objects :
               tree'[d][o] \subseteq tree'[next + 1][o]
<1>1. /\ \A k \in 0..next : tree'[k] = tree[k]
      /\ anc'[next + 1] = {next + 1} \cup UNION {anc[q] : q \in P}
      /\ tree'[next + 1] = t
  BY NewCommitKeeps
<1>2. TAKE d \in anc'[next + 1], o \in Objects
<1>3. CASE d = next + 1
  BY <1>3
<1>4. ASSUME NEW q \in P, d \in anc[q]
      PROVE  tree'[d][o] \subseteq tree'[next + 1][o]
  <2>1. d \in 0..next
    BY <1>4 DEF AncestorsExist
  <2>2. tree[d][o] \subseteq tree[q][o] /\ tree[q][o] \subseteq t[o]
    BY <1>4 DEF KeepsAncestors
  <2> QED BY <1>1, <2>1, <2>2
<1> QED BY <1>1, <1>3, <1>4

\* A clone's working ref moves to a tip that keeps its ancestors' lines and
\* the clone's acknowledged ones, and whose lines are all serialized.
LEMMA WorkMoves ==
    ASSUME IInv, NEW c \in Clones, NEW tip,
           AncestorsExist',
           \A k \in 0..next : anc'[k] = anc[k] /\ tree'[k] = tree[k],
           work' = [work EXCEPT ![c] = tip],
           UNCHANGED <<track, remote>>,
           acked' \in [Clones -> Body],
           \A d \in Clones \ {c} : acked'[d] = acked[d],
           acked[c] \subseteq acked'[c],
           c \in Usable => /\ \A d \in anc'[tip], o \in Objects :
                                   tree'[d][o] \subseteq tree'[tip][o]
                          /\ acked'[c] \subseteq UNION {tree'[tip][o] : o \in Objects}
                          /\ UNION {tree'[tip][o] : o \in Objects} \subseteq Serialized'
    PROVE  DataInv'
<1>1. /\ \A d \in Clones \ {c} : work'[d] = work[d]
      /\ work'[c] = tip
      /\ \A d \in Clones : work[d] \in 0..next /\ track[d] \in 0..next
      /\ remote \in 0..next /\ track' = track /\ remote' = remote
  BY DEF IInv, TypeOK
<1>2. \A k \in 0..next : Lines(k)' = Lines(k)
  BY DEF Lines
<1>3. ASSUME NEW k \in 0..next, KeepsAncestors(k)
      PROVE  \A d \in anc'[k], o \in Objects : tree'[d][o] \subseteq tree'[k][o]
  BY <1>3 DEF KeepsAncestors, IInv, AncestorsExist
<1>4. Serialized \subseteq Serialized'
  BY DEF Serialized, IInv, TypeOK
<1>5. HistoryGrows'
  <2>1. KeepsAncestors(remote)' /\ \A d \in Clones : KeepsAncestors(track[d])'
    BY <1>1, <1>3 DEF IInv, HistoryGrows, KeepsAncestors
  <2>2. \A d \in Usable \ {c} : KeepsAncestors(work[d])'
    BY <1>1, <1>3 DEF IInv, HistoryGrows, KeepsAncestors
  <2>3. c \in Usable => KeepsAncestors(work[c])'
    BY <1>1 DEF KeepsAncestors
  <2> QED BY <2>1, <2>2, <2>3 DEF HistoryGrows
<1>6. NoLostAppend'
  BY <1>1 DEF IInv, NoLostAppend, Lines
<1>7. Provenance'
  <2>1. Lines(remote)' \subseteq Serialized'
        /\ \A d \in Clones : Lines(track[d])' \subseteq Serialized'
    BY <1>1, <1>4 DEF IInv, Provenance, Lines
  <2>2. \A d \in Usable \ {c} : Lines(work[d])' \subseteq Serialized'
    BY <1>1, <1>4 DEF IInv, Provenance, Lines
  <2>3. c \in Usable => Lines(work[c])' \subseteq Serialized'
    BY <1>1 DEF Lines
  <2> QED BY <2>1, <2>2, <2>3 DEF Provenance
<1> QED BY <1>5, <1>6, <1>7 DEF DataInv

\* Only the holder of the lock moves a ref that other bodies were read from.
LEMMA WorkMovesRead ==
    ASSUME IInv, NEW p \in Procs, NEW tip,
           Home[p] \in Usable => lock[Home[p]] = p,
           \A k \in 0..next : tree'[k] = tree[k],
           work' = [work EXCEPT ![Home[p]] = tip],
           pc'[p] # "write",
           \A q \in Procs \ {p} : /\ pc'[q] = pc[q] /\ job'[q] = job[q]
                                  /\ buf'[q] = buf[q],
           \A q \in Procs \ {p} : lock[Home[q]] = q => lock'[Home[q]] = q
    PROVE  ReadIsCurrent'
<1>1. SUFFICES ASSUME NEW q \in Procs, pc'[q] = "write", Home[q] \in Usable
               PROVE  /\ lock'[Home[q]] = q
                      /\ buf'[q] = tree'[work'[Home[q]]][job'[q].obj]
  BY DEF ReadIsCurrent
<1>2. /\ q # p /\ pc[q] = "write" /\ job'[q] = job[q] /\ buf'[q] = buf[q]
      /\ lock[Home[q]] = q => lock'[Home[q]] = q
  BY <1>1
<1>3. lock[Home[q]] = q /\ buf[q] = tree[work[Home[q]]][job[q].obj]
  BY <1>1, <1>2 DEF IInv, ReadIsCurrent
<1>4. Home[q] # Home[p]
  BY <1>1, <1>2, <1>3
<1>5. work'[Home[q]] = work[Home[q]] /\ work[Home[q]] \in 0..next
  BY <1>4 DEF IInv, TypeOK
<1> QED BY <1>2, <1>3, <1>5

LEMMA WriteBodyStep ==
    ASSUME IInv, NEW p \in Procs, WriteBody(p)
    PROVE  IInv'
<1> DEFINE c == Home[p]
           o == job[p].obj
           ours == work[c]
           t == [tree[ours] EXCEPT ![o] = buf[p] \cup job[p].recs]
<1>1. /\ pc[p] = "write" /\ NewCommit({ours}, t)
      /\ work' = [work EXCEPT ![c] = next + 1]
      /\ acked' = [acked EXCEPT ![c] = @ \cup job[p].recs]
      /\ Finish(p) /\ UNCHANGED <<track, remote>>
  BY DEF WriteBody
<1>2. /\ TypeOK /\ AncestorsExist /\ c \in Clones /\ ours \in 0..next /\ o \in Objects
      /\ job[p].recs \subseteq Recs /\ {ours} \subseteq 0..next
      /\ ours \in CommitIds
  BY DEF IInv, TypeOK, Jobs, CommitIds
<1>3. t \in [Objects -> Body]
  BY <1>2 DEF TypeOK, Body
<1>4. c \in Usable => /\ \A x \in Objects : tree[ours][x] \subseteq t[x]
                      /\ job[p].recs \subseteq t[o]
                      /\ \A x \in Objects : t[x] \subseteq tree[ours][x] \cup job[p].recs
  BY <1>1, <1>2 DEF IInv, ReadIsCurrent, TypeOK
<1> HIDE DEF t
<1>5. /\ next' = next + 1 /\ next' \in CommitIds
      /\ anc' \in [CommitIds -> SUBSET CommitIds]
      /\ tree' \in [CommitIds -> [Objects -> Body]]
      /\ \A k \in 0..next : anc'[k] = anc[k] /\ tree'[k] = tree[k]
      /\ tree'[next + 1] = t
      /\ AncestorsExist'
  BY <1>1, <1>2, <1>3, NewCommitKeeps
<1>6. 0..next \subseteq 0..next' /\ next' \in 0..next' /\ next \in Nat
  BY <1>5 DEF TypeOK, IInv, CommitIds
<1>7. TypeOK'
  <2>1. /\ work' \in [Clones -> 0..next'] /\ track' \in [Clones -> 0..next']
        /\ remote' \in 0..next' /\ acked' \in [Clones -> Body]
    BY <1>1, <1>2, <1>5, <1>6 DEF TypeOK, Body
  <2> QED BY <1>1, <1>2, <1>5, <2>1, FinishType DEF TypeOK
<1>8. GuardedStages'
  BY <1>1, FinishControl
<1>9. ReadIsCurrent'
  <2>1. c \in Usable => lock[c] = p
    BY <1>1 DEF IInv, GuardedStages
  <2> QED BY <1>1, <1>5, <2>1, FinishControl, WorkMovesRead
<1>10. DataInv'
  <2>1. /\ acked' \in [Clones -> Body] /\ acked[c] \subseteq acked'[c]
        /\ \A d \in Clones \ {c} : acked'[d] = acked[d]
        /\ acked'[c] = acked[c] \cup job[p].recs
    BY <1>1, <1>2, <1>7 DEF TypeOK
  <2>2. SUFFICES ASSUME c \in Usable
        PROVE /\ \A d \in anc'[next + 1], x \in Objects :
                      tree'[d][x] \subseteq tree'[next + 1][x]
              /\ acked'[c] \subseteq UNION {tree'[next + 1][x] : x \in Objects}
              /\ UNION {tree'[next + 1][x] : x \in Objects} \subseteq Serialized'
    BY <1>1, <1>2, <1>5, <2>1, WorkMoves
  <2>4. \A d \in anc'[next + 1], x \in Objects :
            tree'[d][x] \subseteq tree'[next + 1][x]
    <3> DEFINE P == {ours}
    <3>1. /\ P \subseteq 0..next /\ NewCommit(P, t)
          /\ \A q \in P : /\ KeepsAncestors(q)
                          /\ \A x \in Objects : tree[q][x] \subseteq t[x]
      BY <1>1, <1>2, <1>4, <2>2 DEF IInv, HistoryGrows
    <3> HIDE DEF P
    <3> QED BY <1>2, <1>3, <3>1, NewCommitKeepsAncestors
  <2>5. acked[c] \subseteq Lines(ours) /\ Lines(ours) \subseteq Serialized
    BY <2>2 DEF IInv, NoLostAppend, Provenance
  <2>6. acked'[c] \subseteq UNION {tree'[next + 1][x] : x \in Objects}
    BY <1>2, <1>4, <1>5, <2>1, <2>2, <2>5 DEF Lines
  <2>7. Serialized \subseteq Serialized' /\ job[p].recs \subseteq Serialized'
    BY <2>1, <2>2 DEF Serialized
  <2>8. UNION {tree'[next + 1][x] : x \in Objects} \subseteq Serialized'
    BY <1>4, <1>5, <2>2, <2>5, <2>7 DEF Lines
  <2> QED BY <2>4, <2>6, <2>8
<1> QED BY <1>7, <1>8, <1>9, <1>10 DEF IInv, DataInv

\* After a merge the guard is dropped; the holder of no other clone changes.
LEMMA AfterMergeControl ==
    ASSUME IInv, NEW p \in Procs, pc[p] = "merge", AfterMerge(p)
    PROVE  /\ pc' \in [Procs -> Stages]
           /\ lock' \in [Clones -> Procs \cup {NoProc}]
           /\ job' \in [Procs -> Jobs] /\ buf' \in [Procs -> Body]
           /\ GuardedStages'
           /\ pc'[p] # "write"
           /\ \A q \in Procs \ {p} : /\ pc'[q] = pc[q] /\ job'[q] = job[q]
                                      /\ buf'[q] = buf[q]
           /\ \A q \in Procs \ {p} : lock[Home[q]] = q => lock'[Home[q]] = q
<1>1. CASE Finish(p)
  BY <1>1, FinishType, FinishControl DEF IInv
<1>2. CASE Goto(p, "push") /\ Release(p) /\ UNCHANGED <<job, buf>>
  <2>1. /\ pc' = [pc EXCEPT ![p] = "push"]
        /\ lock' = [lock EXCEPT ![Home[p]] = IF @ = p THEN NoProc ELSE @]
        /\ job' = job /\ buf' = buf
    BY <1>2 DEF Goto, Release
  <2>2. /\ pc' \in [Procs -> Stages] /\ pc'[p] = "push"
        /\ lock' \in [Clones -> Procs \cup {NoProc}]
        /\ \A q \in Procs \ {p} : pc'[q] = pc[q]
        /\ \A q \in Procs \ {p} : lock[Home[q]] = q => lock'[Home[q]] = q
    BY <2>1 DEF IInv, TypeOK, Stages
  <2>3. GuardedStages'
    BY <2>2 DEF IInv, GuardedStages
  <2> QED BY <2>1, <2>2, <2>3 DEF IInv, TypeOK
<1> QED BY <1>1, <1>2 DEF AfterMerge

LEMMA MergeSkippedStep ==
    ASSUME IInv, NEW p \in Procs, MergeSkipped(p)
    PROVE  IInv'
<1>1. pc[p] = "merge" /\ AfterMerge(p) /\ UNCHANGED <<history, refs, acked>>
  BY DEF MergeSkipped
<1>2. TypeOK'
  BY <1>1, AfterMergeControl DEF IInv, TypeOK, history, refs
<1>3. ReadIsCurrent'
  BY <1>1, AfterMergeControl DEF IInv, ReadIsCurrent, history, refs
<1> QED BY <1>1, <1>2, <1>3, AfterMergeControl, DataUnchanged DEF IInv, DataInv

\* The heart of HistoryGrows: where no commit drops a line of its history, the
\* three-way merge of two tips holds both tips' lines and no others.
LEMMA MergeIsUnion ==
    ASSUME IInv, NEW x \in 0..next, NEW y \in 0..next,
           KeepsAncestors(x), KeepsAncestors(y), NEW b \in MergeBases(x, y)
    PROVE  /\ MergedTree(x, y, b) \in [Objects -> Body]
           /\ \A o \in Objects : MergedTree(x, y, b)[o] = tree[x][o] \cup tree[y][o]
<1>1. b \in anc[x] /\ b \in anc[y]
  BY DEF MergeBases
<1>2. \A o \in Objects : tree[b][o] \subseteq tree[x][o] /\ tree[b][o] \subseteq tree[y][o]
  BY <1>1 DEF KeepsAncestors
<1>3. x \in CommitIds /\ y \in CommitIds
  BY DEF IInv, TypeOK, CommitIds
<1>4. \A o \in Objects : tree[x][o] \in Body /\ tree[y][o] \in Body
  BY <1>3 DEF IInv, TypeOK
<1>5. \A o \in Objects : MergedTree(x, y, b)[o] = tree[x][o] \cup tree[y][o]
  BY <1>2 DEF MergedTree
<1>6. \A o \in Objects : MergedTree(x, y, b)[o] \in Body
  BY <1>4, <1>5 DEF Body
<1> QED BY <1>5, <1>6 DEF MergedTree

LEMMA MergeStep ==
    ASSUME IInv, NEW p \in Procs, Merge(p)
    PROVE  IInv'
<1> DEFINE c == Home[p]
           ours == work[c]
           theirs == track[c]
<1>1. /\ pc[p] = "merge" /\ MergeInto(c) /\ AfterMerge(p)
      /\ UNCHANGED <<track, remote, acked>>
  BY DEF Merge
<1>2. /\ TypeOK /\ AncestorsExist /\ c \in Usable /\ c \in Clones /\ lock[c] = p
      /\ ours \in 0..next /\ theirs \in 0..next
      /\ KeepsAncestors(ours) /\ KeepsAncestors(theirs)
      /\ acked[c] \subseteq Lines(ours)
      /\ Lines(ours) \subseteq Serialized /\ Lines(theirs) \subseteq Serialized
  BY <1>1 DEF IInv, TypeOK, GuardedStages, HistoryGrows, NoLostAppend, Provenance
<1>3. acked' \in [Clones -> Body] /\ acked' = acked /\ Serialized' = Serialized
  BY <1>1, <1>2 DEF TypeOK, Serialized
<1>4. CASE UNCHANGED <<history, work>>
  <2>1. UNCHANGED <<history, refs, acked>>
    BY <1>1, <1>4 DEF refs
  <2> QED BY <1>1, <2>1, MergeSkippedStep DEF MergeSkipped
<1>5. CASE /\ ours \in anc[theirs]
           /\ work' = [work EXCEPT ![c] = theirs] /\ UNCHANGED history
  <2>1. /\ next' = next /\ anc' = anc /\ tree' = tree
        /\ \A k \in 0..next : anc'[k] = anc[k] /\ tree'[k] = tree[k]
    BY <1>5 DEF history
  <2>2. TypeOK'
    BY <1>1, <1>2, <1>5, <2>1, AfterMergeControl DEF TypeOK
  <2>3. ReadIsCurrent'
    BY <1>1, <1>2, <1>5, <2>1, AfterMergeControl, WorkMovesRead
  <2>4. /\ Lines(ours) \subseteq Lines(theirs)
        /\ \A d \in anc[theirs], o \in Objects : tree[d][o] \subseteq tree[theirs][o]
    BY <1>2, <1>5 DEF KeepsAncestors, Lines
  <2>5. AncestorsExist'
    BY <1>2, <2>1 DEF AncestorsExist
  <2>6. DataInv'
    <3>1. /\ \A d \in anc'[theirs], o \in Objects : tree'[d][o] \subseteq tree'[theirs][o]
          /\ acked'[c] \subseteq UNION {tree'[theirs][o] : o \in Objects}
          /\ UNION {tree'[theirs][o] : o \in Objects} \subseteq Serialized'
      BY <1>2, <1>3, <2>1, <2>4 DEF Lines
    <3> QED BY <1>1, <1>2, <1>3, <1>5, <2>1, <2>5, <3>1, WorkMoves
  <2> QED BY <1>1, <2>2, <2>3, <2>6, AfterMergeControl DEF IInv, DataInv
<1>6. ASSUME NEW b \in MergeBases(ours, theirs),
             NewCommit({ours, theirs}, MergedTree(ours, theirs, b)),
             work' = [work EXCEPT ![c] = next + 1]
      PROVE  IInv'
  <2> DEFINE t == MergedTree(ours, theirs, b)
  <2>1. /\ t \in [Objects -> Body]
        /\ \A o \in Objects : t[o] = tree[ours][o] \cup tree[theirs][o]
    BY <1>2, MergeIsUnion
  <2>2. {ours, theirs} \subseteq 0..next /\ NewCommit({ours, theirs}, t)
    BY <1>2, <1>6
  <2> HIDE DEF t
  <2>3. /\ next' = next + 1 /\ next' \in CommitIds
        /\ anc' \in [CommitIds -> SUBSET CommitIds]
        /\ tree' \in [CommitIds -> [Objects -> Body]]
        /\ \A k \in 0..next : anc'[k] = anc[k] /\ tree'[k] = tree[k]
        /\ tree'[next + 1] = t
        /\ AncestorsExist'
    BY <1>2, <2>1, <2>2, NewCommitKeeps
  <2>4. 0..next \subseteq 0..next' /\ next' \in 0..next' /\ next \in Nat
    BY <2>3 DEF TypeOK, IInv, CommitIds
  <2>5. TypeOK'
    <3>1. /\ work' \in [Clones -> 0..next'] /\ track' \in [Clones -> 0..next']
          /\ remote' \in 0..next'
      BY <1>1, <1>2, <1>6, <2>3, <2>4 DEF TypeOK
    <3> QED BY <1>1, <1>3, <2>3, <3>1, AfterMergeControl DEF TypeOK
  <2>6. ReadIsCurrent'
    <3>1. /\ \A k \in 0..next : tree'[k] = tree[k]
          /\ Home[p] \in Usable => lock[Home[p]] = p
          /\ work' = [work EXCEPT ![Home[p]] = next + 1]
      BY <1>2, <1>6, <2>3
    <3>2. /\ pc'[p] # "write"
          /\ \A q \in Procs \ {p} : /\ pc'[q] = pc[q] /\ job'[q] = job[q]
                                     /\ buf'[q] = buf[q]
          /\ \A q \in Procs \ {p} : lock[Home[q]] = q => lock'[Home[q]] = q
      BY <1>1, AfterMergeControl
    <3> QED BY <3>1, <3>2, WorkMovesRead
  <2>7. DataInv'
    <3>1. \A q \in {ours, theirs} :
              KeepsAncestors(q) /\ \A o \in Objects : tree[q][o] \subseteq t[o]
      BY <1>2, <2>1
    <3>2. \A d \in anc'[next + 1], o \in Objects : tree'[d][o] \subseteq tree'[next + 1][o]
      <4> DEFINE P == {ours, theirs}
      <4>1. P \subseteq 0..next /\ NewCommit(P, t)
        BY <2>2
      <4>2. \A q \in P : KeepsAncestors(q) /\ \A o \in Objects : tree[q][o] \subseteq t[o]
        BY <3>1
      <4> HIDE DEF P
      <4> QED BY <1>2, <2>1, <4>1, <4>2, NewCommitKeepsAncestors
    <3>3. UNION {tree'[next + 1][o] : o \in Objects} = Lines(ours) \cup Lines(theirs)
      BY <2>1, <2>3 DEF Lines
    <3>4. /\ acked'[c] \subseteq UNION {tree'[next + 1][o] : o \in Objects}
          /\ UNION {tree'[next + 1][o] : o \in Objects} \subseteq Serialized'
      BY <1>2, <1>3, <3>3
    <3> QED BY <1>1, <1>2, <1>3, <1>6, <2>3, <3>2, <3>4, WorkMoves
  <2> QED BY <1>1, <2>5, <2>6, <2>7, AfterMergeControl DEF IInv, DataInv
<1> QED BY <1>1, <1>4, <1>5, <1>6 DEF MergeInto

-----------------------------------------------------------------------------
(***************************************************************************)
(* The inductive invariant and the safety theorems                         *)
(***************************************************************************)
LEMMA InitInv == Init => IInv
<1> SUFFICES ASSUME Init PROVE IInv
  OBVIOUS
<1>1. 0 \in CommitIds /\ 0..next = {0}
  BY DEF Init, CommitIds
<1>2. TypeOK
  BY <1>1, NoJobType DEF Init, TypeOK, Body, Stages
<1>3. Lines(0) = {} /\ KeepsAncestors(0) /\ anc[0] = {0}
  BY <1>1 DEF Init, Lines, KeepsAncestors
<1>4. AncestorsExist /\ GuardedStages /\ ReadIsCurrent
  BY <1>1, <1>3 DEF Init, AncestorsExist, GuardedStages, ReadIsCurrent
<1>5. HistoryGrows /\ NoLostAppend /\ Provenance
  BY <1>3 DEF Init, HistoryGrows, NoLostAppend, Provenance
<1> QED BY <1>2, <1>4, <1>5 DEF IInv

LEMMA ProcStepInv ==
    ASSUME IInv, NEW p \in Procs, ProcStep(p)
    PROVE  IInv'
<1>1. CASE LockAcquired(p)
  BY <1>1, LockAcquiredStep
<1>2. CASE LockContended(p)
  BY <1>2, FinishStep DEF LockContended
<1>3. CASE LockUnusable(p)
  BY <1>3, LockUnusableStep
<1>4. CASE ReadCarried(p)
  BY <1>4, KeepFreshStep DEF ReadCarried
<1>5. CASE ReadCarriedFails(p)
  BY <1>5, KeepFreshStep DEF ReadCarriedFails
<1>6. CASE ReadBody(p)
  BY <1>6, ReadBodyStep
<1>7. CASE ReadBodyFails(p)
  BY <1>7, FinishStep DEF ReadBodyFails
<1>8. CASE WriteBody(p)
  BY <1>8, WriteBodyStep
<1>9. CASE Merge(p)
  BY <1>9, MergeStep
<1>10. CASE MergeSkipped(p)
  BY <1>10, MergeSkippedStep
<1>11. CASE PublishFetch(p)
  BY <1>11, PublishFetchStep
<1>12. CASE PublishPush(p)
  BY <1>12, PublishPushStep
<1>13. CASE Abort(p)
  BY <1>13, FinishStep DEF Abort
<1> QED BY <1>1, <1>2, <1>3, <1>4, <1>5, <1>6, <1>7, <1>8, <1>9, <1>10, <1>11,
           <1>12, <1>13 DEF ProcStep

LEMMA StutterInv == IInv /\ UNCHANGED vars => IInv'
<1> SUFFICES ASSUME IInv, UNCHANGED vars PROVE IInv'
  OBVIOUS
<1>1. DataInv'
  BY DataUnchanged DEF vars, history, refs, IInv, DataInv
<1>2. TypeOK' /\ GuardedStages' /\ ReadIsCurrent'
  BY DEF vars, IInv, TypeOK, GuardedStages, ReadIsCurrent
<1> QED BY <1>1, <1>2 DEF IInv, DataInv

LEMMA NextInv == IInv /\ [Next]_vars => IInv'
BY CommandStep, ProcStepInv, UserFetchStep, StutterInv DEF Next

\* The strengthened invariant holds in every reachable state.
THEOREM Invariance == Spec => []IInv
BY InitInv, NextInv, PTL DEF Spec

\* The state of the carrier stays well typed: refs point at commits that
\* exist, publish_notes never exceeds MAX_PUSH_ATTEMPTS.
THEOREM TypeCorrect == Spec => []TypeOK
<1>1. IInv => TypeOK
  BY DEF IInv
<1> QED BY <1>1, Invariance, PTL

\* An append that returned Ok is never lost from a clone that can lock,
\* for any number of clones, processes, objects and records.
THEOREM NoAppendIsLost == Spec => []NoLostAppend
<1>1. IInv => NoLostAppend
  BY DEF IInv
<1> QED BY <1>1, Invariance, PTL

\* No shared, fetched or serialized notes commit drops a line of its history.
THEOREM HistoryOnlyGrows == Spec => []HistoryGrows
<1>1. IInv => HistoryGrows
  BY DEF IInv
<1> QED BY <1>1, Invariance, PTL

\* A body about to be written back is the note's current body.
THEOREM ReadsAreCurrent == Spec => []ReadIsCurrent
<1>1. IInv => ReadIsCurrent
  BY DEF IInv
<1> QED BY <1>1, Invariance, PTL

\* An unserialized clone's lines never reach the remote.
THEOREM SharedWasSerialized == Spec => []OnlySerializedIsShared
<1>1. IInv => OnlySerializedIsShared
  BY DEF IInv, Provenance, Serialized, OnlySerializedIsShared
<1> QED BY <1>1, Invariance, PTL

-----------------------------------------------------------------------------
(***************************************************************************)
(* What an import writes                                                   *)
(***************************************************************************)
\* Under the lock, the records an import has kept stay uncarried.
ImportsFresh ==
    \A p \in Procs :
        (/\ pc[p] \in {"read", "write"} /\ job[p].kind = "import"
         /\ "list" \notin Faults[p] /\ Home[p] \in Usable)
        => \A r \in job[p].recs : Entity[r] \notin CarriedEntities(work[Home[p]])

\* A step of one process is no step of another's call.
LEMMA OthersKeepCalls ==
    ASSUME IInv, NEW p \in Procs, ProcStep(p) \/ Command(p), NEW q \in Procs \ {p}
    PROVE  pc'[q] = pc[q] /\ job'[q] = job[q]
<1>0. TypeOK
  BY DEF IInv
<1>1. ASSUME Finish(p)
      PROVE  pc'[q] = pc[q] /\ job'[q] = job[q]
  BY <1>1, FinishControl
<1>2. ASSUME NEW stage, Goto(p, stage)
      PROVE  pc'[q] = pc[q]
  BY <1>0, <1>2 DEF Goto, TypeOK
<1>3. CASE Command(p)
  BY <1>0, <1>2, <1>3 DEF Command, StartAppend, StartImport, StartMerge, StartPublish, Start, TypeOK
<1>4. CASE LockAcquired(p) \/ LockContended(p) \/ LockUnusable(p)
  BY <1>1, <1>2, <1>4 DEF LockAcquired, LockContended, LockUnusable
<1>5. CASE ReadCarried(p) \/ ReadCarriedFails(p)
  BY <1>0, <1>1, <1>2, <1>5 DEF ReadCarried, ReadCarriedFails, KeepFresh, TypeOK
<1>6. CASE ReadBody(p) \/ ReadBodyFails(p) \/ WriteBody(p) \/ Abort(p)
  BY <1>1, <1>2, <1>6 DEF ReadBody, ReadBodyFails, WriteBody, Abort
<1>7. CASE Merge(p) \/ MergeSkipped(p)
  BY <1>7, AfterMergeControl DEF Merge, MergeSkipped
<1>8. CASE PublishFetch(p) \/ PublishPush(p)
  BY <1>0, <1>1, <1>2, <1>8 DEF PublishFetch, PublishPush, TypeOK
<1> QED BY <1>3, <1>4, <1>5, <1>6, <1>7, <1>8 DEF ProcStep

\* A process that does not hold a clone's lock leaves that clone's notes alone.
LEMMA OthersKeepNotes ==
    ASSUME IInv, NEW p \in Procs, ProcStep(p) \/ Command(p),
           NEW q \in Procs \ {p}, Home[q] \in Usable, lock[Home[q]] = q
    PROVE  tree'[work'[Home[q]]] = tree[work[Home[q]]]
<1>0. /\ TypeOK /\ AncestorsExist /\ Home[q] \in Clones /\ Home[p] \in Clones
      /\ \A d \in Clones : work[d] \in 0..next /\ track[d] \in 0..next
  BY DEF IInv, TypeOK
<1>1. CASE WriteBody(p)
  <2>1. Home[p] # Home[q]
    BY <1>1 DEF WriteBody, IInv, GuardedStages
  <2>2. work'[Home[q]] = work[Home[q]]
    BY <1>0, <1>1, <2>1 DEF WriteBody, TypeOK
  <2> DEFINE t == [tree[work[Home[p]]] EXCEPT ![job[p].obj] = buf[p] \cup job[p].recs]
             P == {work[Home[p]]}
  <2>3. t \in [Objects -> Body] /\ P \subseteq 0..next
    BY <1>0 DEF TypeOK, Body, Jobs, CommitIds
  <2>4. NewCommit(P, t)
    BY <1>1 DEF WriteBody
  <2> HIDE DEF t, P
  <2>5. tree'[work[Home[q]]] = tree[work[Home[q]]]
    BY <1>0, <2>3, <2>4, NewCommitKeeps
  <2> QED BY <2>2, <2>5
<1>2. CASE Merge(p)
  <2> DEFINE ours == work[Home[p]]
             theirs == track[Home[p]]
  <2>1. pc[p] = "merge" /\ MergeInto(Home[p])
    BY <1>2 DEF Merge
  <2>2. Home[p] # Home[q] /\ KeepsAncestors(ours) /\ KeepsAncestors(theirs)
    BY <1>0, <2>1 DEF IInv, GuardedStages, HistoryGrows
  <2>3. work'[Home[q]] = work[Home[q]]
    BY <1>0, <2>1, <2>2 DEF MergeInto, TypeOK
  <2>4. CASE UNCHANGED history
    BY <2>3, <2>4 DEF history
  <2>5. ASSUME NEW b \in MergeBases(ours, theirs),
               NewCommit({ours, theirs}, MergedTree(ours, theirs, b))
        PROVE  tree'[work'[Home[q]]] = tree[work[Home[q]]]
    <3> DEFINE t == MergedTree(ours, theirs, b)
               P == {ours, theirs}
    <3>1. t \in [Objects -> Body] /\ P \subseteq 0..next /\ NewCommit(P, t)
      BY <1>0, <2>2, <2>5, MergeIsUnion
    <3> HIDE DEF t, P, ours, theirs
    <3>2. \A k \in 0..next : tree'[k] = tree[k]
      BY <1>0, <3>1, NewCommitKeeps
    <3> QED BY <1>0, <2>3, <3>2
  <2> QED BY <2>1, <2>4, <2>5 DEF MergeInto
<1>3. CASE Command(p)
  BY <1>3 DEF Command, StartAppend, StartImport, StartMerge, StartPublish, Start, history, refs
<1>4. CASE LockAcquired(p) \/ LockContended(p) \/ LockUnusable(p) \/ MergeSkipped(p)
  BY <1>4 DEF LockAcquired, LockContended, LockUnusable, MergeSkipped, history, refs
<1>5. CASE ReadCarried(p) \/ ReadCarriedFails(p) \/ ReadBody(p) \/ ReadBodyFails(p) \/ Abort(p)
  BY <1>5 DEF ReadCarried, ReadCarriedFails, ReadBody, ReadBodyFails, Abort, history, refs
<1>6. CASE PublishFetch(p) \/ PublishPush(p)
  BY <1>6 DEF PublishFetch, PublishPush, history
<1> QED BY <1>1, <1>2, <1>3, <1>4, <1>5, <1>6 DEF ProcStep

\* A process's own step leaves its import with uncarried records, or without a call.
LEMMA OwnImportFresh ==
    ASSUME IInv, ImportsFresh, NEW p \in Procs, ProcStep(p) \/ Command(p),
           pc'[p] \in {"read", "write"}, job'[p].kind = "import",
           "list" \notin Faults[p], Home[p] \in Usable
    PROVE  \A r \in job'[p].recs : Entity[r] \notin CarriedEntities(work[Home[p]])'
<1>0. TypeOK
  BY DEF IInv
<1>1. ~Finish(p)
  BY <1>0 DEF Finish, Goto, TypeOK
<1>2. ~Command(p)
  BY <1>0 DEF Command, StartAppend, StartImport, StartMerge, StartPublish, Start, Goto, TypeOK
<1>3. CASE LockAcquired(p)
  BY <1>0, <1>3 DEF LockAcquired, LockedStage, Goto, TypeOK
<1>4. CASE ReadCarried(p)
  <2>1. /\ job' = [job EXCEPT ![p].recs =
                       {r \in job[p].recs : Entity[r] \notin CarriedEntities(work[Home[p]])}]
        /\ UNCHANGED <<history, refs>>
    BY <1>1, <1>4 DEF ReadCarried, KeepFresh
  <2>2. \A r \in job'[p].recs : Entity[r] \notin CarriedEntities(work[Home[p]])
    BY <1>0, <2>1 DEF TypeOK, Jobs
  <2> QED BY <2>1, <2>2 DEF CarriedEntities, history, refs
<1>5. CASE ReadBody(p)
  <2>1. pc[p] = "read" /\ UNCHANGED <<job, tree, work>>
    BY <1>5 DEF ReadBody, history, refs
  <2> QED BY <2>1 DEF ImportsFresh, CarriedEntities
<1>6. ~ReadCarriedFails(p) /\ ~LockUnusable(p) /\ ~PublishFetch(p) /\ ~PublishPush(p)
  BY <1>0, <1>1 DEF ReadCarriedFails, LockUnusable, PublishFetch, PublishPush, Goto, TypeOK
<1>7. ~Merge(p) /\ ~MergeSkipped(p)
  BY <1>0, <1>1 DEF Merge, MergeSkipped, AfterMerge, Goto, TypeOK
<1>8. ~LockContended(p) /\ ~ReadBodyFails(p) /\ ~WriteBody(p) /\ ~Abort(p)
  BY <1>1 DEF LockContended, ReadBodyFails, WriteBody, Abort
<1> QED BY <1>2, <1>3, <1>4, <1>5, <1>6, <1>7, <1>8 DEF ProcStep

LEMMA ImportsFreshNext == IInv /\ ImportsFresh /\ [Next]_vars => ImportsFresh'
<1> SUFFICES ASSUME IInv, ImportsFresh, [Next]_vars,
                    NEW q \in Procs, pc'[q] \in {"read", "write"}, job'[q].kind = "import",
                    "list" \notin Faults[q], Home[q] \in Usable
             PROVE  \A r \in job'[q].recs : Entity[r] \notin CarriedEntities(work[Home[q]])'
  BY DEF ImportsFresh
<1>1. ASSUME NEW p \in Procs, ProcStep(p) \/ Command(p), p = q
      PROVE  \A r \in job'[q].recs : Entity[r] \notin CarriedEntities(work[Home[q]])'
  BY <1>1, OwnImportFresh
<1>2. ASSUME NEW p \in Procs, ProcStep(p) \/ Command(p), p # q
      PROVE  \A r \in job'[q].recs : Entity[r] \notin CarriedEntities(work[Home[q]])'
  <2>1. pc'[q] = pc[q] /\ job'[q] = job[q]
    BY <1>2, OthersKeepCalls
  <2>2. lock[Home[q]] = q
    BY <2>1 DEF IInv, GuardedStages
  <2>3. tree'[work'[Home[q]]] = tree[work[Home[q]]]
    BY <1>2, <2>2, OthersKeepNotes
  <2> QED BY <2>1, <2>3 DEF ImportsFresh, CarriedEntities
<1>3. CASE UNCHANGED <<tree, work, pc, job>>
  BY <1>3 DEF ImportsFresh, CarriedEntities
<1>4. ASSUME NEW c \in Clones, UserFetch(c)
      PROVE  UNCHANGED <<tree, work, pc, job>>
  BY <1>4 DEF UserFetch, history
<1> QED BY <1>1, <1>2, <1>3, <1>4 DEF Next, vars

\* An import of a clone that can lock, whose list of notes succeeds, appends no
\* record of an entity that the notes carry when it writes (append_new_to_git_notes).
THEOREM ImportsAddOnlyNew == Spec => ImportAddsOnlyNew
<1>1. IInv /\ Init => ImportsFresh
  BY DEF Init, ImportsFresh
<1>2. Spec => [](IInv /\ ImportsFresh)
  BY <1>1, InitInv, NextInv, ImportsFreshNext, PTL DEF Spec
<1>3. ImportsFresh /\ [Next]_vars =>
          [\A p \in Procs :
              (/\ pc[p] = "write" /\ job[p].kind = "import"
               /\ "list" \notin Faults[p]
               /\ Home[p] \in Usable /\ work'[Home[p]] # work[Home[p]])
              => \A r \in job[p].recs : Entity[r] \notin CarriedEntities(work[Home[p]])]_vars
  BY DEF ImportsFresh
<1> QED BY <1>2, <1>3, PTL DEF Spec, ImportAddsOnlyNew

-----------------------------------------------------------------------------
(***************************************************************************)
(* The carrier implements the grow-only log                                *)
(***************************************************************************)
\* A tracking ref holds what the remote held at some time: nothing that the
\* remote has lost since.
TrackedIsShared == \A c \in Clones : Lines(track[c]) \subseteq Lines(remote)

\* The lines of the two refs a step may move, as the abstract log sees them.
LogView == <<[c \in Usable |-> Lines(work[c])], Lines(remote)>>

LEMMA ViewUnchanged ==
    ASSUME UNCHANGED <<history, refs>>
    PROVE  UNCHANGED LogView /\ (TrackedIsShared => TrackedIsShared')
BY DEF LogView, TrackedIsShared, Lines, history, refs

LEMMA FetchSimulates ==
    ASSUME IInv, TrackedIsShared, NEW c \in Clones,
           track' = [track EXCEPT ![c] = remote], UNCHANGED <<history, work, remote>>
    PROVE  UNCHANGED LogView /\ TrackedIsShared'
<1>1. \A d \in Clones : track'[d] = track[d] \/ track'[d] = remote
  BY DEF IInv, TypeOK
<1> QED BY <1>1 DEF LogView, TrackedIsShared, Lines, history

LEMMA PushSimulates ==
    ASSUME IInv, TrackedIsShared, NEW p \in Procs, PublishPush(p)
    PROVE  [Log!Next]_LogView /\ TrackedIsShared'
<1> DEFINE c == Home[p]
<1>0. UNCHANGED <<history, work, track>> /\ c \in Usable
  BY DEF PublishPush, IInv, GuardedStages
<1>1. CASE UNCHANGED remote
  BY <1>0, <1>1, ViewUnchanged DEF refs
<1>2. CASE remote \in anc[work[c]] /\ remote' = work[c]
  <2>1. Lines(remote) \subseteq Lines(work[c])
    BY <1>0, <1>2 DEF IInv, HistoryGrows, KeepsAncestors, Lines
  <2>2. Lines(remote)' = Lines(work[c])
    BY <1>0, <1>2 DEF Lines, history
  <2>3. TrackedIsShared'
    BY <1>0, <2>1, <2>2 DEF TrackedIsShared, Lines, history
  <2>4. UNCHANGED [d \in Usable |-> Lines(work[d])]
    BY <1>0 DEF Lines, history
  <2>5. Log!Publish(c)
    BY <1>0, <2>1, <2>2, <2>4 DEF Log!Publish
  <2> QED BY <1>0, <2>3, <2>5 DEF Log!Next
<1> QED BY <1>1, <1>2 DEF PublishPush

\* A working ref moves, the existing commits and the other refs stay.
LEMMA WorkMovesView ==
    ASSUME IInv, TrackedIsShared, NEW c \in Clones, NEW tip,
           \A k \in 0..next : tree'[k] = tree[k],
           work' = [work EXCEPT ![c] = tip], UNCHANGED <<track, remote>>
    PROVE  /\ TrackedIsShared'
           /\ UNION {tree'[remote'][o] : o \in Objects} = Lines(remote)
           /\ \A d \in Usable \ {c} :
                  UNION {tree'[work'[d]][o] : o \in Objects} = Lines(work[d])
           /\ work'[c] = tip
<1>1. /\ \A d \in Clones \ {c} : work'[d] = work[d]
      /\ work'[c] = tip
      /\ \A d \in Clones : work[d] \in 0..next /\ track[d] \in 0..next
      /\ remote \in 0..next /\ track' = track /\ remote' = remote
  BY DEF IInv, TypeOK
<1> QED BY <1>1 DEF TrackedIsShared, Lines

LEMMA WriteSimulates ==
    ASSUME IInv, TrackedIsShared, NEW p \in Procs, WriteBody(p)
    PROVE  [Log!Next]_LogView /\ TrackedIsShared'
<1> DEFINE c == Home[p]
           o == job[p].obj
           ours == work[c]
           t == [tree[ours] EXCEPT ![o] = buf[p] \cup job[p].recs]
<1>1. /\ pc[p] = "write" /\ NewCommit({ours}, t)
      /\ work' = [work EXCEPT ![c] = next + 1] /\ UNCHANGED <<track, remote>>
  BY DEF WriteBody
<1>2. /\ TypeOK /\ AncestorsExist /\ c \in Clones /\ ours \in 0..next /\ o \in Objects
      /\ job[p].recs \in SUBSET Recs /\ {ours} \subseteq 0..next
      /\ ours \in CommitIds
  BY DEF IInv, TypeOK, Jobs, CommitIds
<1>3. t \in [Objects -> Body]
  BY <1>2 DEF TypeOK, Body
<1>4. c \in Usable => UNION {t[x] : x \in Objects} = Lines(ours) \cup job[p].recs
  BY <1>1, <1>2 DEF IInv, ReadIsCurrent, TypeOK, Lines
<1> HIDE DEF t
<1>5. (\A k \in 0..next : tree'[k] = tree[k]) /\ tree'[next + 1] = t
  BY <1>1, <1>2, <1>3, NewCommitKeeps
<1>6. /\ TrackedIsShared'
      /\ UNION {tree'[remote'][x] : x \in Objects} = Lines(remote)
      /\ \A d \in Usable \ {c} :
             UNION {tree'[work'[d]][x] : x \in Objects} = Lines(work[d])
      /\ work'[c] = next + 1
  BY <1>1, <1>2, <1>5, WorkMovesView
<1>7. CASE c \notin Usable
  <2>1. \A d \in Usable : UNION {tree'[work'[d]][x] : x \in Objects} = Lines(work[d])
    BY <1>6, <1>7
  <2>2. UNCHANGED [d \in Usable |-> Lines(work[d])]
    BY <2>1 DEF Lines
  <2>3. UNCHANGED Lines(remote)
    BY <1>6 DEF Lines
  <2> QED BY <1>6, <2>2, <2>3 DEF LogView
<1>8. CASE c \in Usable
  <2>1. \A d \in Usable : UNION {tree'[work'[d]][x] : x \in Objects} =
           IF d = c THEN Lines(work[d]) \cup job[p].recs ELSE Lines(work[d])
    BY <1>4, <1>5, <1>6, <1>8
  <2>2. [d \in Usable |-> UNION {tree'[work'[d]][x] : x \in Objects}] =
          [[d \in Usable |-> Lines(work[d])] EXCEPT ![c] = @ \cup job[p].recs]
    BY <2>1
  <2>3. [d \in Usable |-> Lines(work[d])]' =
          [[d \in Usable |-> Lines(work[d])] EXCEPT ![c] = @ \cup job[p].recs]
    BY <2>2 DEF Lines
  <2>4. Log!Append(c)
    BY <1>2, <1>6, <2>3 DEF Log!Append, Lines
  <2> QED BY <1>6, <1>8, <2>4 DEF Log!Next
<1> QED BY <1>7, <1>8

LEMMA MergeSimulates ==
    ASSUME IInv, TrackedIsShared, NEW p \in Procs, Merge(p)
    PROVE  [Log!Next]_LogView /\ TrackedIsShared'
<1> DEFINE c == Home[p]
           ours == work[c]
           theirs == track[c]
<1>1. pc[p] = "merge" /\ MergeInto(c) /\ UNCHANGED <<track, remote>>
  BY DEF Merge
<1>2. /\ TypeOK /\ AncestorsExist /\ c \in Usable /\ c \in Clones
      /\ ours \in 0..next /\ theirs \in 0..next
      /\ KeepsAncestors(ours) /\ KeepsAncestors(theirs)
      /\ Lines(theirs) \in SUBSET Lines(remote)
  BY <1>1 DEF IInv, TypeOK, GuardedStages, HistoryGrows, TrackedIsShared
<1>3. ASSUME NEW tip, \A k \in 0..next : tree'[k] = tree[k],
             work' = [work EXCEPT ![c] = tip],
             UNION {tree'[tip][o] : o \in Objects} = Lines(ours) \cup Lines(theirs)
      PROVE  [Log!Next]_LogView /\ TrackedIsShared'
  <2>1. /\ TrackedIsShared'
        /\ UNION {tree'[remote'][x] : x \in Objects} = Lines(remote)
        /\ \A d \in Usable \ {c} :
               UNION {tree'[work'[d]][x] : x \in Objects} = Lines(work[d])
        /\ work'[c] = tip
    BY <1>1, <1>2, <1>3, WorkMovesView
  <2>2. \A d \in Usable : UNION {tree'[work'[d]][x] : x \in Objects} =
           IF d = c THEN Lines(work[d]) \cup Lines(theirs) ELSE Lines(work[d])
    BY <1>2, <1>3, <2>1
  <2>3. [d \in Usable |-> UNION {tree'[work'[d]][x] : x \in Objects}] =
          [[d \in Usable |-> Lines(work[d])] EXCEPT ![c] = @ \cup Lines(theirs)]
    BY <2>2
  <2>4. [d \in Usable |-> Lines(work[d])]' =
          [[d \in Usable |-> Lines(work[d])] EXCEPT ![c] = @ \cup Lines(theirs)]
    BY <2>3 DEF Lines
  <2>5. Log!Merge(c)
    BY <1>2, <2>1, <2>4 DEF Log!Merge, Lines
  <2> QED BY <1>2, <2>1, <2>5 DEF Log!Next
<1>4. CASE UNCHANGED <<history, work>>
  BY <1>1, <1>4, ViewUnchanged DEF refs
<1>5. CASE /\ ours \in anc[theirs]
           /\ work' = [work EXCEPT ![c] = theirs] /\ UNCHANGED history
  <2>1. tree' = tree /\ Lines(ours) \subseteq Lines(theirs)
    BY <1>2, <1>5 DEF KeepsAncestors, Lines, history
  <2> QED BY <1>3, <1>5, <2>1 DEF Lines
<1>6. ASSUME NEW b \in MergeBases(ours, theirs),
             NewCommit({ours, theirs}, MergedTree(ours, theirs, b)),
             work' = [work EXCEPT ![c] = next + 1]
      PROVE  [Log!Next]_LogView /\ TrackedIsShared'
  <2> DEFINE t == MergedTree(ours, theirs, b)
  <2>1. /\ t \in [Objects -> Body]
        /\ \A o \in Objects : t[o] = tree[ours][o] \cup tree[theirs][o]
    BY <1>2, MergeIsUnion
  <2>2. {ours, theirs} \subseteq 0..next /\ NewCommit({ours, theirs}, t)
    BY <1>2, <1>6
  <2> HIDE DEF t
  <2>3. (\A k \in 0..next : tree'[k] = tree[k]) /\ tree'[next + 1] = t
    BY <1>2, <2>1, <2>2, NewCommitKeeps
  <2>4. UNION {tree'[next + 1][o] : o \in Objects} = Lines(ours) \cup Lines(theirs)
    BY <2>1, <2>3 DEF Lines
  <2> QED BY <1>3, <1>6, <2>3, <2>4
<1> QED BY <1>1, <1>4, <1>5, <1>6 DEF MergeInto

LEMMA StepSimulates ==
    ASSUME IInv, TrackedIsShared, [Next]_vars
    PROVE  [Log!Next]_LogView /\ TrackedIsShared'
<1>1. ASSUME NEW p \in Procs, Command(p)
      PROVE  UNCHANGED <<history, refs>>
  BY <1>1 DEF Command, StartAppend, StartImport, StartMerge, StartPublish, Start
<1>2. ASSUME NEW p \in Procs,
             \/ LockAcquired(p) \/ LockContended(p) \/ LockUnusable(p)
             \/ ReadCarried(p) \/ ReadCarriedFails(p) \/ ReadBody(p)
             \/ ReadBodyFails(p) \/ MergeSkipped(p) \/ Abort(p)
      PROVE  UNCHANGED <<history, refs>>
  BY <1>2 DEF LockAcquired, LockContended, LockUnusable, ReadCarried,
     ReadCarriedFails, ReadBody, ReadBodyFails, MergeSkipped, Abort
<1>3. ASSUME NEW p \in Procs, PublishFetch(p)
      PROVE  UNCHANGED LogView /\ TrackedIsShared'
  BY <1>3, FetchSimulates, ViewUnchanged DEF PublishFetch, refs
<1>4. ASSUME NEW c \in Clones, UserFetch(c)
      PROVE  UNCHANGED LogView /\ TrackedIsShared'
  BY <1>4, FetchSimulates DEF UserFetch
<1>5. CASE UNCHANGED vars
  BY <1>5, ViewUnchanged DEF vars, history, refs
<1>6. CASE Next
  BY <1>1, <1>2, <1>3, <1>4, <1>6, ViewUnchanged, WriteSimulates, MergeSimulates,
     PushSimulates DEF Next, ProcStep
<1> QED BY <1>5, <1>6

\* Step simulation and the map of the initial states: the clones that can lock
\* and the remote implement the abstract log that every team member relies on.
THEOREM CarrierImplementsLog == Spec => ImplementsLog
<1>1. Init => Log!Init /\ TrackedIsShared
  <2> SUFFICES ASSUME Init PROVE Log!Init /\ TrackedIsShared
    OBVIOUS
  <2>1. Lines(0) = {}
    BY DEF Init, CommitIds, Lines
  <2>2. /\ [c \in Usable |-> Lines(work[c])] = [c \in Usable |-> {}]
        /\ Lines(remote) = {} /\ \A c \in Clones : Lines(track[c]) = {}
    BY <2>1 DEF Init
  <2> QED BY <2>2 DEF Log!Init, TrackedIsShared
<1>2. IInv /\ TrackedIsShared /\ [Next]_vars => [Log!Next]_LogView /\ TrackedIsShared'
  BY StepSimulates
<1>3. Spec => []TrackedIsShared
  BY <1>1, <1>2, Invariance, PTL DEF Spec
<1> QED BY <1>1, <1>2, <1>3, Invariance, PTL DEF Spec, ImplementsLog, Log!Spec, LogView
=============================================================================
