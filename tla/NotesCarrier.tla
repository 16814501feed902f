---------------------------- MODULE NotesCarrier ----------------------------
(***************************************************************************)
(* The git-notes carrier: refs/notes/inkentry in every clone, the tracking *)
(* ref a fetch writes, the same ref on the shared remote, and the          *)
(* inkentry processes that append to, merge and publish it under the       *)
(* advisory lock of the clone's git common dir                             *)
(* (inkentry-core/src/storage/git_notes/{mod,lock,publish}.rs).            *)
(*                                                                         *)
(* Abstractions.                                                           *)
(*  - A note body is the set of its lines: appends keep the existing lines *)
(*    verbatim, cat_sort_uniq unions them, and every reader folds them.    *)
(*  - A notes ref points at a commit of the notes history.  Commit 0 is    *)
(*    the empty history, which is how a ref that does not exist behaves:   *)
(*    it merges as an empty tree and anything fast-forwards it.            *)
(*  - One git command (notes show / add / merge, fetch, push) is a step.   *)
(*    git is external: its steps are modelled from how the code calls it.  *)
(***************************************************************************)
EXTENDS Naturals, FiniteSets

CONSTANTS
    Clones,       \* working copies (one git common dir, one lock file each)
    Procs,        \* inkentry processes
    Home,         \* Home[p]: the clone process p runs in
    Commands,     \* Commands[p]: the kinds of command process p is run for
    Usable,       \* the clones whose filesystem supports the lock file
    Objects,      \* commits of the project a note can be attached to
    HeadReach,    \* the objects reachable from HEAD, where readers look
    Recs,         \* record lines that can be written
    Entity,       \* Entity[r]: the entity_id a line resolves to
    Faults,       \* Faults[p]: which of p's reads may fail, "show" or "list"
    NoProc,       \* "nobody holds the lock"
    MaxCommits,   \* bound on the commits of the notes history
    MaxAttempts   \* MAX_PUSH_ATTEMPTS

Kinds == {"append", "import", "merge", "publish"}

ASSUME CarrierAssumption ==
    /\ Home \in [Procs -> Clones]
    /\ Commands \in [Procs -> SUBSET Kinds]
    /\ Faults \in [Procs -> SUBSET {"show", "list"}]
    /\ Usable \subseteq Clones
    /\ Objects # {}
    /\ HeadReach \subseteq Objects
    /\ NoProc \notin Procs
    /\ MaxCommits \in Nat
    /\ MaxAttempts \in Nat \ {0}

VARIABLES
    next,     \* number of commits made so far; ids are 0..next
    anc,      \* anc[k]: the ancestors of commit k, k itself included
    tree,     \* tree[k][o]: the lines of the note on object o at commit k
    work,     \* work[c]: refs/notes/inkentry in clone c
    track,    \* track[c]: refs/notes/origin/inkentry in clone c
    remote,   \* refs/notes/inkentry on the remote
    lock,     \* lock[c]: the process holding clone c's notes lock
    pc,       \* pc[p]: where process p is
    job,      \* job[p]: what process p was asked to do
    buf,      \* buf[p]: the note body process p has read
    acked     \* acked[c]: the lines whose append returned Ok in clone c

vars == <<next, anc, tree, work, track, remote, lock, pc, job, buf, acked>>
history == <<next, anc, tree>>
refs == <<work, track, remote>>

CommitIds == 0..MaxCommits
Body == SUBSET Recs
Jobs == [kind : Kinds,
         recs : SUBSET Recs, obj : Objects, attempt : 0..MaxAttempts]
SomeObject == CHOOSE o \in Objects : TRUE
Task(kind, R, o, n) == [kind |-> kind, recs |-> R, obj |-> o, attempt |-> n]
NoJob == Task("append", {}, SomeObject, 0)
Stages == {"idle", "lock", "carried", "read", "write", "merge", "fetch", "push"}

TypeOK ==
    /\ next \in CommitIds
    /\ anc \in [CommitIds -> SUBSET CommitIds]
    /\ tree \in [CommitIds -> [Objects -> Body]]
    /\ work \in [Clones -> 0..next]
    /\ track \in [Clones -> 0..next]
    /\ remote \in 0..next
    /\ lock \in [Clones -> Procs \cup {NoProc}]
    /\ pc \in [Procs -> Stages]
    /\ job \in [Procs -> Jobs]
    /\ buf \in [Procs -> Body]
    /\ acked \in [Clones -> Body]

(***************************************************************************)
(* What a ref holds                                                        *)
(***************************************************************************)
Lines(k) == UNION {tree[k][o] : o \in Objects}

\* folded_records: the entities on the notes of HEAD-reachable commits.
CarriedEntities(k) == {Entity[r] : r \in UNION {tree[k][o] : o \in HeadReach}}

Init ==
    /\ next = 0
    /\ anc = [k \in CommitIds |-> IF k = 0 THEN {0} ELSE {}]
    /\ tree = [k \in CommitIds |-> [o \in Objects |-> {}]]
    /\ work = [c \in Clones |-> 0]
    /\ track = [c \in Clones |-> 0]
    /\ remote = 0
    /\ lock = [c \in Clones |-> NoProc]
    /\ pc = [p \in Procs |-> "idle"]
    /\ job = [p \in Procs |-> NoJob]
    /\ buf = [p \in Procs |-> {}]
    /\ acked = [c \in Clones |-> {}]

-----------------------------------------------------------------------------
(***************************************************************************)
(* The lock (lock.rs, writer_lock)                                         *)
(***************************************************************************)
Goto(p, stage) == pc' = [pc EXCEPT ![p] = stage]

\* Mutant: the lock file is removed by whoever leaves.
ReleaseAny(p) == lock' = [lock EXCEPT ![Home[p]] = NoProc]

\* Dropping the guard, and the OS on exit, release only the holder's lock.
Release(p) ==
    lock' = [lock EXCEPT ![Home[p]] = IF @ = p THEN NoProc ELSE @]

\* The call returns: its guard is dropped and its locals are gone.
Finish(p) ==
    /\ Goto(p, "idle")
    /\ Release(p)
    /\ job' = [job EXCEPT ![p] = NoJob]
    /\ buf' = [buf EXCEPT ![p] = {}]

LockedStage(kind) ==
    CASE kind = "append" -> "read"
      [] kind = "import" -> "carried"
      [] OTHER           -> "merge"

\* Mutant: the outcome of try_lock is ignored.
LockIgnored(p) ==
    /\ pc[p] = "lock"
    /\ Home[p] \in Usable
    /\ lock' = [lock EXCEPT ![Home[p]] = p]
    /\ Goto(p, LockedStage(job[p].kind))
    /\ UNCHANGED <<history, refs, job, buf, acked>>

\* try_lock succeeds.
LockAcquired(p) ==
    /\ pc[p] = "lock"
    /\ Home[p] \in Usable
    /\ lock[Home[p]] = NoProc
    /\ lock' = [lock EXCEPT ![Home[p]] = p]
    /\ Goto(p, LockedStage(job[p].kind))
    /\ UNCHANGED <<history, refs, job, buf, acked>>

\* The wait budget ran out: a writer fails, a merge is skipped, a publish is
\* reported as skipped.  Nothing has been written in any of the cases.
LockContended(p) ==
    /\ pc[p] = "lock"
    /\ Home[p] \in Usable
    /\ lock[Home[p]] # NoProc
    /\ Finish(p)
    /\ UNCHANGED <<history, refs, acked>>

\* Mutant: a publish, too, goes on without the lock.
LockUnusableGoesOn(p) ==
    /\ pc[p] = "lock"
    /\ Home[p] \notin Usable
    /\ Goto(p, LockedStage(job[p].kind))
    /\ UNCHANGED <<lock, job, buf, history, refs, acked>>

\* The lock file cannot exist here: a writer goes on without it, a merge (and
\* the publish that needs it) stops.
LockUnusable(p) ==
    /\ pc[p] = "lock"
    /\ Home[p] \notin Usable
    /\ \/ /\ job[p].kind \in {"append", "import"}
          /\ Goto(p, LockedStage(job[p].kind))
          /\ UNCHANGED <<lock, job, buf>>
       \/ /\ job[p].kind \in {"merge", "publish"}
          /\ Finish(p)
    /\ UNCHANGED <<history, refs, acked>>

-----------------------------------------------------------------------------
(***************************************************************************)
(* Writers: append_to_git_notes_at, append_record, append_new_to_git_notes *)
(***************************************************************************)
Start(p, stage, task) ==
    /\ pc[p] = "idle"
    /\ task.kind \in Commands[p]
    /\ job' = [job EXCEPT ![p] = task]
    /\ Goto(p, stage)
    /\ UNCHANGED <<history, refs, lock, buf, acked>>

\* Every append serializes a new line (its id is the clock's milliseconds).
StartAppend(p, r, o) ==
    /\ \A k \in 0..next : r \notin Lines(k)
    /\ \A q \in Procs : r \notin job[q].recs
    /\ Start(p, "lock", Task("append", {r}, o, 0))

StartImport(p, R, head) ==
    /\ R # {}
    /\ Start(p, "lock", Task("import", R, head, 0))

\* Mutant: the carried entities are not consulted.
KeepAll(p, carried) == Goto(p, "read") /\ UNCHANGED <<lock, job, buf>>

\* The import keeps the records whose entity is on no HEAD-reachable note.
KeepFresh(p, carried) ==
    LET fresh == {r \in job[p].recs : Entity[r] \notin carried}
    IN  \/ fresh = {} /\ Finish(p)
        \/ /\ fresh # {}
           /\ job' = [job EXCEPT ![p].recs = fresh]
           /\ Goto(p, "read")
           /\ UNCHANGED <<lock, buf>>

ReadCarried(p) ==
    /\ pc[p] = "carried"
    /\ KeepFresh(p, CarriedEntities(work[Home[p]]))
    /\ UNCHANGED <<history, refs, acked>>

\* noted_commits answers an empty list when `git notes list` or `git log`
\* fails, so the import sees a ref that carries nothing.
ReadCarriedFails(p) ==
    /\ pc[p] = "carried"
    /\ "list" \in Faults[p]
    /\ KeepFresh(p, {})
    /\ UNCHANGED <<history, refs, acked>>

ReadBody(p) ==
    /\ pc[p] = "read"
    /\ buf' = [buf EXCEPT ![p] = tree[work[Home[p]]][job[p].obj]]
    /\ Goto(p, "write")
    /\ UNCHANGED <<history, refs, lock, job, acked>>

\* Every attempt of read_note_body_with_retry failed: the writer gives up.
ReadBodyFails(p) ==
    /\ pc[p] = "read"
    /\ "show" \in Faults[p]
    /\ Finish(p)
    /\ UNCHANGED <<history, refs, acked>>

\* A new commit on top of the parents, with the given tree.
NewCommit(parents, t) ==
    LET k == next + 1
    IN  /\ k \in CommitIds
        /\ next' = k
        /\ anc' = [anc EXCEPT ![k] = {k} \cup UNION {anc[q] : q \in parents}]
        /\ tree' = [tree EXCEPT ![k] = t]

\* `git notes add -f`: the note on the target becomes what was read plus the
\* new lines.  The append then returns Ok and its guard is dropped.
WriteBody(p) ==
    LET c == Home[p]
        o == job[p].obj
    IN  /\ pc[p] = "write"
        /\ NewCommit({work[c]},
                     [tree[work[c]] EXCEPT ![o] = buf[p] \cup job[p].recs])
        /\ work' = [work EXCEPT ![c] = next + 1]
        /\ acked' = [acked EXCEPT ![c] = @ \cup job[p].recs]
        /\ Finish(p)
        /\ UNCHANGED <<track, remote>>

\* A failed `git notes add`, or a process that dies at any point: the OS drops
\* its lock, and what it had read is gone.
Abort(p) ==
    /\ pc[p] # "idle"
    /\ Finish(p)
    /\ UNCHANGED <<history, refs, acked>>

-----------------------------------------------------------------------------
(***************************************************************************)
(* merge_tracking_notes, run by readers and by publish_notes               *)
(***************************************************************************)
StartMerge(p) == Start(p, "lock", Task("merge", {}, SomeObject, 0))

\* The best common ancestors of two commits; git picks one of them.
MergeBases(x, y) ==
    LET common == anc[x] \cap anc[y]
    IN  {b \in common : \A d \in common : b \in anc[d] => d = b}

\* Mutant: a conflict is resolved in favour of ours.
MergedTreeOurs(x, y, b) ==
    [o \in Objects |-> IF tree[x][o] = tree[b][o] THEN tree[y][o] ELSE tree[x][o]]

\* Three-way, per annotated object; both sides changed means cat_sort_uniq.
MergedTree(x, y, b) ==
    [o \in Objects |->
        IF tree[x][o] = tree[b][o] THEN tree[y][o]
        ELSE IF tree[y][o] = tree[b][o] THEN tree[x][o]
        ELSE tree[x][o] \cup tree[y][o]]

\* Mutant: a fast-forward or nothing.
MergeFastForward(c) ==
    /\ work' = [work EXCEPT ![c] = IF @ \in anc[track[c]] THEN track[c] ELSE @]
    /\ UNCHANGED history

MergeInto(c) ==
    LET ours == work[c]
        theirs == track[c]
    IN  \/ /\ theirs \in anc[ours]
           /\ UNCHANGED <<history, work>>
        \/ /\ theirs \notin anc[ours]
           /\ ours \in anc[theirs]
           /\ work' = [work EXCEPT ![c] = theirs]
           /\ UNCHANGED history
        \/ /\ theirs \notin anc[ours]
           /\ ours \notin anc[theirs]
           /\ \E b \in MergeBases(ours, theirs) :
                 NewCommit({ours, theirs}, MergedTree(ours, theirs, b))
           /\ work' = [work EXCEPT ![c] = next + 1]

\* Readers go on reading, a publish goes on to its push; the guard is dropped.
AfterMerge(p) ==
    \/ /\ job[p].kind = "publish"
       /\ Goto(p, "push")
       /\ Release(p)
       /\ UNCHANGED <<job, buf>>
    \/ job[p].kind = "merge" /\ Finish(p)

Merge(p) ==
    /\ pc[p] = "merge"
    /\ MergeInto(Home[p])
    /\ AfterMerge(p)
    /\ UNCHANGED <<track, remote, acked>>

\* `git notes merge` failed (NotesMergeOutcome::Skipped): the caller goes on.
MergeSkipped(p) ==
    /\ pc[p] = "merge"
    /\ AfterMerge(p)
    /\ UNCHANGED <<history, refs, acked>>

-----------------------------------------------------------------------------
(***************************************************************************)
(* publish_notes, and the user's own `git fetch`                           *)
(***************************************************************************)
StartPublish(p) ==
    /\ work[Home[p]] # 0                       \* else Skipped(NoLocalNotes)
    /\ Start(p, "fetch", Task("publish", {}, SomeObject, 1))

\* The `+` refspec overwrites the tracking ref; a failed fetch is ignored.
PublishFetch(p) ==
    /\ pc[p] = "fetch"
    /\ \/ track' = [track EXCEPT ![Home[p]] = remote]
       \/ UNCHANGED track
    /\ Goto(p, "lock")
    /\ UNCHANGED <<history, work, remote, lock, job, buf, acked>>

\* Mutant: the push is forced.
PublishForce(p) ==
    /\ pc[p] = "push"
    /\ remote' = work[Home[p]]
    /\ Finish(p)
    /\ UNCHANGED <<history, work, track, acked>>

\* Mutant: a lost race is retried without limit.
PublishForever(p) ==
    /\ pc[p] = "push"
    /\ \/ /\ remote \in anc[work[Home[p]]]
          /\ remote' = work[Home[p]]
          /\ Finish(p)
       \/ /\ remote \notin anc[work[Home[p]]]
          /\ job' = [job EXCEPT ![p].attempt = @ + 1]
          /\ Goto(p, "fetch")
          /\ UNCHANGED <<remote, lock, buf>>
    /\ UNCHANGED <<history, work, track, acked>>

\* A push that is never forced: it lands when the remote's tip is an ancestor
\* of the working ref as it is now, and is a lost race otherwise.
PublishPush(p) ==
    LET tip == work[Home[p]]
    IN  /\ pc[p] = "push"
        /\ \/ /\ remote \in anc[tip]
              /\ remote' = tip
              /\ Finish(p)
           \/ /\ remote \notin anc[tip]
              /\ job[p].attempt < MaxAttempts
              /\ job' = [job EXCEPT ![p].attempt = @ + 1]
              /\ Goto(p, "fetch")
              /\ UNCHANGED <<remote, lock, buf>>
           \/ /\ remote \notin anc[tip]
              /\ job[p].attempt = MaxAttempts
              /\ Finish(p)
              /\ UNCHANGED remote
        /\ UNCHANGED <<history, work, track, acked>>

UserFetch(c) ==
    /\ track[c] # remote
    /\ track' = [track EXCEPT ![c] = remote]
    /\ UNCHANGED <<history, work, remote, lock, pc, job, buf, acked>>

-----------------------------------------------------------------------------
ProcStep(p) ==
    \/ LockAcquired(p) \/ LockContended(p) \/ LockUnusable(p)
    \/ ReadCarried(p) \/ ReadCarriedFails(p)
    \/ ReadBody(p) \/ ReadBodyFails(p) \/ WriteBody(p)
    \/ Merge(p) \/ MergeSkipped(p)
    \/ PublishFetch(p) \/ PublishPush(p)
    \/ Abort(p)

Command(p) ==
    \/ \E r \in Recs, o \in Objects : StartAppend(p, r, o)
    \/ \E R \in SUBSET Recs, o \in HeadReach : StartImport(p, R, o)
    \/ StartMerge(p)
    \/ StartPublish(p)

Next ==
    \/ \E p \in Procs : Command(p) \/ ProcStep(p)
    \/ \E c \in Clones : UserFetch(c)

Spec == Init /\ [][Next]_vars

-----------------------------------------------------------------------------
(***************************************************************************)
(* Properties                                                              *)
(***************************************************************************)
\* A commit's notes hold every line of every commit it descends from.
KeepsAncestors(k) ==
    \A d \in anc[k], o \in Objects : tree[d][o] \subseteq tree[k][o]

\* A record whose append returned Ok (append_to_git_notes_at, append_record,
\* append_new_to_git_notes) stays on the working ref of a clone that can lock,
\* whatever appends, merges and crashes follow it.
NoLostAppend == \A c \in Usable : acked[c] \subseteq Lines(work[c])

\* No notes commit that is shared, fetched, or the tip of a clone that can
\* lock drops a line of its own history: this is what makes git's three-way
\* notes merge (merge_tracking_notes) a union.
HistoryGrows ==
    /\ KeepsAncestors(remote)
    /\ \A c \in Clones : KeepsAncestors(track[c])
    /\ \A c \in Usable : KeepsAncestors(work[c])

\* What reaches the remote was appended in a clone that can lock: the clone
\* whose writers run unserialized (WriterLock::Unlocked) never publishes,
\* because publish_notes stops at LockUnavailable.
OnlySerializedIsShared ==
    Lines(remote) \subseteq UNION {acked[c] : c \in Usable}

\* The holder of a note body that it is about to write back read it under the
\* lock it still holds, and nobody changed the note since (the lock comment:
\* "the race is the gap between reading the note body and writing it back").
ReadIsCurrent ==
    \A p \in Procs :
        (pc[p] = "write" /\ Home[p] \in Usable) =>
            /\ lock[Home[p]] = p
            /\ buf[p] = tree[work[Home[p]]][job[p].obj]

\* An import (append_new_to_git_notes) whose `git notes list` answers appends
\* no record of an entity that the HEAD-reachable notes carry at the moment of
\* the write.
ImportAddsOnlyNew ==
    [][\A p \in Procs :
          (/\ pc[p] = "write" /\ job[p].kind = "import"
           /\ "list" \notin Faults[p]
           /\ Home[p] \in Usable /\ work'[Home[p]] # work[Home[p]])
          => \A r \in job[p].recs : Entity[r] \notin CarriedEntities(work[Home[p]])]_vars

\* The clones that can lock, with the remote, implement the grow-only log.
Log == INSTANCE NotesLog WITH
    Clones <- Usable,
    log <- [c \in Usable |-> Lines(work[c])],
    shared <- Lines(remote)
ImplementsLog == Log!Spec
=============================================================================
