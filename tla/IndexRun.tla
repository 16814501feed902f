------------------------------ MODULE IndexRun ------------------------------
(***************************************************************************)
(* `inkentry index`: any number of processes that want to bring one        *)
(* index.db up to date with a source tree.  A run takes the run lock,      *)
(* walks the tree statement by statement, composes summaries, embeds what  *)
(* has no current vector and refines title-less chunks; or it hands the    *)
(* embedding over to a background process that has to win the lock again.  *)
(* The tree changes, the embedder comes and goes, and a process may die    *)
(* between any two statements.                                             *)
(*                                                                         *)
(* Abstracted: texts (a version of a file stands for its content and its   *)
(* blake3 hash, a summary is only null, empty or set), graph ranks and     *)
(* file times (the embed queue's order within a band is arbitrary), token  *)
(* counts and the rate estimate (a batch length is arbitrary up to         *)
(* MaxBatch), back-off times, messages and logs.                           *)
(***************************************************************************)
EXTENDS Naturals, FiniteSets, Sequences, FiniteSetsExt

CONSTANTS
    Procs,        \* process slots; a slot is one process from Start to Exit
    None,         \* no process, no file
    Files,        \* source files
    DocFiles,     \* those read by process_doc_file and process_pdf_file
    PartsOf,      \* version -> sequence of the kinds of the chunks it yields
    Modes,        \* the command lines in use
    BigRun,       \* more newly indexed files than this and post phases detach
    MaxBatch,     \* bound on the length of an embed batch
    MaxConnect,   \* connection failures a batch survives
    MaxBusy,      \* 429 answers a batch survives
    InitTree,     \* the tree before the first run
    Changes,      \* what may happen to files: pairs of a file and its next version
    MaxEdits,     \* bound on tree changes, schema upgrades and forced runs
    MaxFaults     \* bound on crashes, failed requests and failed spawns

\* What there is to know of a chunk's text.  A named chunk's structural summary
\* may have to be suppressed (it is empty or holds a secret), a title-less one may
\* have nothing to select from, and a text-only chunk is never embedded.
Kinds == {"named", "suppressed", "untitled", "unrefinable", "textonly"}

Versions == DOMAIN PartsOf

\* A version number no file has: the file does not exist.
Absent == 0

ASSUME ConstantsOK ==
    /\ None \notin Procs
    /\ DocFiles \subseteq Files
    /\ Versions \subseteq Nat \ {Absent}
    /\ \A v \in Versions : PartsOf[v] \in Seq(Kinds)
    /\ Modes \subseteq [kind : {"index"}, force : BOOLEAN, detach : BOOLEAN, noSummaries : BOOLEAN]
    /\ {BigRun, MaxBatch, MaxConnect, MaxBusy, MaxEdits, MaxFaults} \subseteq Nat
    /\ MaxBatch > 0
    /\ InitTree \in [Files -> Versions \cup {Absent}]
    /\ Changes \subseteq Files \X (Versions \cup {Absent})

VARIABLES
    disk,       \* the tree: file -> version or Absent
    hash,       \* files.hash: file -> version or Absent (no row)
    edges,      \* graph_edges of a file: "none", "old" (before the upgrade) or "new"
    owed,       \* index_meta: the graph re-extraction pass is owed
    chunks,     \* chunks rows
    vectors,    \* embeddings rows
    nextId,     \* the next AUTOINCREMENT value of chunks.id
    lock,       \* the holder of index.lock
    pidFile,    \* the content of index.lock.pid
    watch,      \* slot -> "nobody", or its process's parent is "waiting" to see it
                \* take the lock, which it since "took"
    proc,       \* slot -> what its process is doing
    embedder,   \* "ready", "loading" or "off"
    edits, faults,
    torn,       \* history: files a crash left with some, but not their, chunks
    stray       \* history: a run has gone on without the lock after a failed spawn

vars == <<disk, hash, edges, owed, chunks, vectors, nextId, lock, pidFile, watch, proc,
          embedder, edits, faults, torn, stray>>

db == <<hash, edges, owed, chunks, vectors, nextId>>
env == <<disk, embedder, edits, faults, torn, stray>>

-----------------------------------------------------------------------------
(* The rows of index.db. *)

ChunksOf(f) == {c \in chunks : c.file = f}

IdsOf(cs) == {c.id : c \in cs}

Kind(c) == PartsOf[c.version][c.part]

\* insert_chunk: a new row starts with no summary and no re-embed flag.
NewChunk(f, v, k) == [id |-> nextId, file |-> f, version |-> v, part |-> k,
                      summary |-> "null", pending |-> FALSE]

\* What the stored chunks of a file should be: one per part of its content.
Whole(f) ==
    /\ {<<c.version, c.part>> : c \in ChunksOf(f)}
         = {<<hash[f], k>> : k \in IF hash[f] = Absent THEN {} ELSE DOMAIN PartsOf[hash[f]]}
    /\ \A c, d \in ChunksOf(f) : c.part = d.part => c = d

\* reconstruct_embedding_text, as far as it varies: is there a summary slot with words in it?
Text(c) == c.summary = "set"

HasVector(c) == \E v \in vectors : v.id = c.id

\* chunks_missing_embeddings: the work queue, with the band each row sorts in.
Missing == {[id |-> c.id, text |-> Text(c), fresh |-> ~HasVector(c)] :
              c \in {d \in chunks : Kind(d) # "textonly" /\ (~HasVector(d) \/ d.pending)}}

\* named_chunks_needing_summary
NeedingSummary == {c \in chunks : Kind(c) \in {"named", "suppressed"} /\ c.summary = "null"}

\* titleless_chunks_needing_selection
NeedingSelection == {c \in chunks : /\ Kind(c) \in {"untitled", "unrefinable"}
                                /\ c.summary = "null" /\ HasVector(c)}

\* compose_structural_summary and the MMR selection are functions of the text.
SummaryOf(c) == IF Kind(c) \in {"named", "untitled"} THEN "set" ELSE "empty"

\* (The summary is written without the re-embed flag.)
WithSummaryUnflagged(i, s, p) ==
    {IF c.id = i THEN [c EXCEPT !.summary = s] ELSE c : c \in chunks}

\* update_chunk_summary and, with the flag p, set_summary_and_mark_pending.
WithSummary(i, s, p) ==
    {IF c.id = i THEN [c EXCEPT !.summary = s, !.pending = @ \/ p] ELSE c : c \in chunks}

\* (The old vector is not deleted first.)
InsertedOnly(B) == vectors \cup {[id |-> b.id, text |-> b.text] : b \in B}

\* insert_embeddings: delete, then insert, for each row of the batch.
Inserted(B) ==
    {v \in vectors : \A b \in B : v.id # b.id} \cup {[id |-> b.id, text |-> b.text] : b \in B}

-----------------------------------------------------------------------------
(* Processes. *)

Args == [kind : {"index", "embed", "post"}, force : BOOLEAN, detach : BOOLEAN, noSummaries : BOOLEAN]

\* build_detached_child_command: only --no-summaries is forwarded.
ChildArgs(k, m) == [kind |-> k, force |-> FALSE, detach |-> FALSE, noSummaries |-> m.noSummaries]

PCs == {"idle", "acquire", "pid", "collect", "walk", "dropvectors", "dropchunks", "droprow",
        "edges", "store", "summarise", "decide", "spawn", "wait", "embed",
        "tail", "post", "refine", "finish"}

NoArgs == [kind |-> "index", force |-> FALSE, detach |-> FALSE, noSummaries |-> FALSE]

\* A process that has just started with arguments m.
Fresh(pc, m) ==
    [pc |-> pc, args |-> m,
     visited |-> {}, todo |-> {}, unread |-> {}, file |-> None, part |-> 0,
     reextract |-> FALSE, indexed |-> 0,
     queue |-> {}, size |-> 0, rated |-> FALSE, patient |-> FALSE, connect |-> 0, busy |-> 0,
     then |-> "tail", ready |-> FALSE,
     cands |-> {}, refined |-> FALSE]

IdleProc == Fresh("idle", NoArgs)

Idle == {p \in Procs : proc[p].pc = "idle"}

Released(p) == IF lock = p THEN None ELSE lock

\* The pid file, once nobody looks for p's pid in it any more.
Forgotten(p) == IF pidFile = p THEN None ELSE pidFile

\* The process ends and the operating system frees its lock.  The pid file is not
\* removed, but its content matters only to a parent that still polls for it.
Ends(p) ==
    /\ lock' = Released(p)
    /\ pidFile' = IF watch[p] = "nobody" THEN Forgotten(p) ELSE pidFile
    /\ proc' = [proc EXCEPT ![p] = IdleProc]

Goto(p, pc) == proc' = [proc EXCEPT ![p].pc = pc]

\* Between a file's hash write, or its being found stale, and its last statement.
FileSteps == {"dropvectors", "dropchunks", "droprow", "edges", "store"}

\* Where index.db is written.
Writing == FileSteps \cup {"walk", "summarise", "embed", "refine"}

Faulty == faults < MaxFaults /\ faults' = faults + 1

\* A command line starts and wins the lock; one that finds it held fails at once
\* and leaves no trace.  Which of the free slots it gets is immaterial.
Start(p, m) ==
    /\ Idle # {} /\ p = (CHOOSE q \in Idle : TRUE) /\ lock = None
    /\ m.force => edits < MaxEdits
    /\ edits' = IF m.force THEN edits + 1 ELSE edits
    /\ lock' = p
    /\ pidFile' = Forgotten(p)
    /\ watch' = [watch EXCEPT ![p] = "nobody"]
    /\ proc' = [proc EXCEPT ![p] = Fresh("pid", m)]
    /\ UNCHANGED <<db, disk, embedder, faults, torn, stray>>

\* (A child that goes on although the lock is held.)
TryAcquireAnyway(p) ==
    /\ proc[p].pc = "acquire"
    /\ lock' = p
    /\ Goto(p, "pid")
    /\ watch' = [watch EXCEPT ![p] = IF @ = "waiting" THEN "took" ELSE @]
    /\ UNCHANGED <<db, env, pidFile>>

\* (The pid is written before the lock is tried.)
TryAcquireNamed(p) ==
    /\ proc[p].pc = "acquire"
    /\ pidFile' = p
    /\ \/ /\ lock = None /\ lock' = p /\ Goto(p, "pid")
          /\ watch' = [watch EXCEPT ![p] = IF @ = "waiting" THEN "took" ELSE @]
       \/ /\ lock # None /\ proc' = [proc EXCEPT ![p] = IdleProc]
          /\ UNCHANGED <<lock, watch>>
    /\ UNCHANGED <<db, env>>

\* run_lock::try_acquire in a spawned process.  It never waits.
TryAcquire(p) ==
    /\ proc[p].pc = "acquire"
    /\ \/ /\ lock = None
          /\ lock' = p
          /\ Goto(p, "pid")
          /\ watch' = [watch EXCEPT ![p] = IF @ = "waiting" THEN "took" ELSE @]
          /\ UNCHANGED pidFile
       \/ /\ lock # None    \* its parent will time out
          /\ Ends(p)
          /\ watch' = [watch EXCEPT ![p] = "nobody"]
    /\ UNCHANGED <<db, env>>

\* run_index opens the database and turns to what its arguments ask for.
Dispatch(p) == Goto(p, CASE proc[p].args.kind = "index" -> "collect"
                         [] proc[p].args.kind = "embed" -> "wait"
                         [] OTHER -> "post")

\* The pid is written only after the lock is won.
WritePid(p) ==
    /\ proc[p].pc = "pid"
    /\ pidFile' = p
    /\ Dispatch(p)
    /\ UNCHANGED <<db, env, lock, watch>>

\* The write fails; nobody is told.
PidLost(p) ==
    /\ proc[p].pc = "pid" /\ Faulty
    /\ Dispatch(p)
    /\ UNCHANGED <<db, disk, embedder, edits, torn, stray, lock, pidFile, watch>>

-----------------------------------------------------------------------------
(* run_parse_phase.  No transaction spans two of these steps. *)

\* collect_files; with nothing found the phase returns before cleanup and before
\* the owed pass is looked at.
Collect(p) ==
    /\ proc[p].pc = "collect"
    /\ LET found == {f \in Files : disk[f] # Absent} IN
         proc' = [proc EXCEPT ![p].pc = IF found = {} THEN "summarise" ELSE "walk",
                              ![p].visited = found, ![p].todo = found,
                              ![p].reextract = owed /\ found # {}]
    /\ UNCHANGED <<db, env, lock, pidFile, watch>>

\* (A file is up to date by its hash alone.)
UnchangedByHash(p, f) == ~proc[p].args.force /\ hash[f] = disk[f]

\* A file is up to date by its hash and, unless it is a document, by having chunks at all.
Unchanged(p, f) ==
    /\ ~proc[p].args.force
    /\ hash[f] = disk[f]
    /\ f \in DocFiles \/ ChunksOf(f) # {}

\* (The owed pass leaves unchanged files out.)
ReextractedNot(p, f) == edges

\* The edges of an unchanged file are extracted again only when the pass is owed.
Reextracted(p, f) ==
    IF proc[p].reextract /\ f \notin DocFiles THEN [edges EXCEPT ![f] = "new"] ELSE edges

\* process_text_file, process_doc_file, process_pdf_file up to the hash write.
ReadFile(p, f) ==
    /\ proc[p].pc = "walk" /\ f \in proc[p].todo
    /\ \/ /\ disk[f] = Absent    \* gone since collect_files: a warning, and it still counts as visited
          /\ proc' = [proc EXCEPT ![p].todo = @ \ {f}, ![p].unread = @ \cup {f}]
          /\ UNCHANGED <<db, torn>>
       \/ /\ disk[f] # Absent /\ Unchanged(p, f)
          /\ edges' = Reextracted(p, f)
          /\ proc' = [proc EXCEPT ![p].todo = @ \ {f}]
          /\ UNCHANGED <<hash, owed, chunks, vectors, nextId, torn>>
       \/ /\ disk[f] # Absent /\ ~Unchanged(p, f)
          /\ hash' = [hash EXCEPT ![f] = disk[f]]
          /\ torn' = torn \ {f}
          /\ proc' = [proc EXCEPT ![p].pc = "dropvectors", ![p].file = f]
          /\ UNCHANGED <<edges, owed, chunks, vectors, nextId>>
    /\ UNCHANGED <<disk, embedder, edits, faults, stray, lock, pidFile, watch>>

\* cleanup_stale: a row whose file the walk did not find.
StaleFile(p, f) ==
    /\ proc[p].pc = "walk" /\ proc[p].todo = {}
    /\ hash[f] # Absent /\ f \notin proc[p].visited
    /\ proc' = [proc EXCEPT ![p].pc = "dropvectors", ![p].file = f]
    /\ UNCHANGED <<db, env, lock, pidFile, watch>>

\* (The vectors of a file are left to themselves.)
DropNoVectors(p) ==
    /\ proc[p].pc = "dropvectors"
    /\ Goto(p, "dropchunks")
    /\ UNCHANGED <<db, env, lock, pidFile, watch>>

\* delete_embeddings_for_file; it finds the vectors through the chunk rows.
DropVectors(p) ==
    /\ proc[p].pc = "dropvectors"
    /\ vectors' = {v \in vectors : v.id \notin IdsOf(ChunksOf(proc[p].file))}
    /\ Goto(p, "dropchunks")
    /\ UNCHANGED <<hash, edges, owed, chunks, nextId, env, lock, pidFile, watch>>

\* delete_chunks_for_file
DropChunks(p) ==
    /\ proc[p].pc = "dropchunks"
    /\ chunks' = chunks \ ChunksOf(proc[p].file)
    /\ Goto(p, IF proc[p].file \in proc[p].visited THEN "edges" ELSE "droprow")
    /\ UNCHANGED <<hash, edges, owed, vectors, nextId, env, lock, pidFile, watch>>

\* The end of delete_file: edges, then the row itself.
DropRow(p) ==
    /\ proc[p].pc = "droprow"
    /\ edges' = [edges EXCEPT ![proc[p].file] = "none"]
    /\ hash' = [hash EXCEPT ![proc[p].file] = Absent]
    /\ torn' = torn \ {proc[p].file}
    /\ proc' = [proc EXCEPT ![p].pc = "walk", ![p].file = None]
    /\ UNCHANGED <<owed, chunks, vectors, nextId, disk, embedder, edits, faults, stray, lock, pidFile, watch>>

\* graph_pass::store_edges; documents have no graph.
StoreEdges(p) ==
    /\ proc[p].pc = "edges"
    /\ edges' = IF proc[p].file \in DocFiles THEN edges ELSE [edges EXCEPT ![proc[p].file] = "new"]
    /\ proc' = [proc EXCEPT ![p].pc = "store", ![p].part = 1]
    /\ UNCHANGED <<hash, owed, chunks, vectors, nextId, env, lock, pidFile, watch>>

\* store_chunks: one autocommitted insert per chunk, and the file is done.
StoreChunk(p) ==
    /\ proc[p].pc = "store"
    /\ LET f == proc[p].file  v == hash[f]  k == proc[p].part IN
       \/ /\ k <= Len(PartsOf[v])
          /\ chunks' = chunks \cup {NewChunk(f, v, k)}
          /\ nextId' = nextId + 1
          /\ proc' = [proc EXCEPT ![p].part = k + 1]
       \/ /\ k > Len(PartsOf[v])
          /\ proc' = [proc EXCEPT ![p].pc = "walk", ![p].todo = @ \ {f}, ![p].file = None, ![p].part = 0,
                                  ![p].indexed = Min({@ + 1, BigRun + 1})]
          /\ UNCHANGED <<chunks, nextId>>
    /\ UNCHANGED <<hash, edges, owed, vectors, env, lock, pidFile, watch>>

\* graph_pass::finish: the owed pass is retired only at the end of a whole walk.
EndParse(p) ==
    /\ proc[p].pc = "walk" /\ proc[p].todo = {}
    /\ \A f \in Files : hash[f] # Absent => f \in proc[p].visited
    /\ owed' = (owed /\ ~proc[p].reextract)
    /\ proc' = [proc EXCEPT ![p] = [Fresh("summarise", proc[p].args) EXCEPT !.indexed = proc[p].indexed]]
    /\ UNCHANGED <<hash, edges, chunks, vectors, nextId, env, lock, pidFile, watch>>

-----------------------------------------------------------------------------
(* run_pre_embed_phases and the hand-over. *)

\* generate_structural_summaries: one update per named chunk, empty when the
\* composed text is empty or holds a secret.
Summarise(p) ==
    /\ proc[p].pc = "summarise"
    /\ \/ /\ ~proc[p].args.noSummaries
          /\ \E c \in NeedingSummary :
               /\ \A d \in NeedingSummary : c.id <= d.id
               /\ chunks' = WithSummary(c.id, SummaryOf(c), FALSE)
          /\ UNCHANGED proc
       \/ /\ proc[p].args.noSummaries \/ NeedingSummary = {}
          /\ Goto(p, "decide")
          /\ UNCHANGED chunks
    /\ UNCHANGED <<hash, edges, owed, vectors, nextId, env, lock, pidFile, watch>>

\* The rest of run_index: the probed tier and the queue say how to go on.  A run
\* with --detach-embed gives the lock up before it spawns.
Decide(p) ==
    /\ proc[p].pc = "decide"
    /\ LET detached == proc[p].args.detach /\ embedder \in {"ready", "loading"}
       IN  \/ Missing = {} /\ Ends(p)
           \/ /\ Missing # {}
              /\ UNCHANGED pidFile
              /\ lock' = IF detached THEN Released(p) ELSE lock
              /\ proc' = [proc EXCEPT ![p].queue = Missing,
                                      ![p].ready = (embedder = "ready"),
                                      ![p].then = "tail",
                                      ![p].pc = IF detached THEN "spawn"
                                                ELSE IF embedder = "ready" THEN "embed" ELSE "tail"]
    /\ UNCHANGED <<db, env, watch>>

\* The embedding is done, stopped or skipped; after a large run the post phases
\* get a process of their own, again after giving the lock up.
AfterEmbed(p) ==
    /\ proc[p].pc = "tail"
    /\ LET detached == proc[p].indexed > BigRun IN
         /\ lock' = IF detached THEN Released(p) ELSE lock
         /\ proc' = [proc EXCEPT ![p].pc = IF detached THEN "spawn" ELSE "post", ![p].then = "post"]
    /\ UNCHANGED <<db, env, pidFile, watch>>

\* What the spawned process is to do: the embedding, or only the post phases.
ChildKind(p) == IF proc[p].then = "tail" THEN "embed" ELSE "post"

\* spawn_embed_subprocess and the spawn of --_background-phases.  From here on the
\* slot is the child's; its parent does nothing but watch the pid file.
Spawn(p) ==
    /\ proc[p].pc = "spawn"
    /\ pidFile' = Forgotten(p)
    /\ watch' = [watch EXCEPT ![p] = "waiting"]
    /\ proc' = [proc EXCEPT ![p] = Fresh("acquire", ChildArgs(ChildKind(p), proc[p].args))]
    /\ UNCHANGED <<db, env, lock>>

\* The spawn fails: the run goes on by itself, without taking the lock again.
SpawnFails(p) ==
    /\ proc[p].pc = "spawn" /\ Faulty
    /\ Goto(p, IF proc[p].then = "post" THEN "post" ELSE IF proc[p].ready THEN "embed" ELSE "tail")
    /\ stray' = TRUE
    /\ UNCHANGED <<db, disk, embedder, edits, torn, lock, pidFile, watch>>

\* The parent has its answer and exits.
Unwatched(p) ==
    /\ watch' = [watch EXCEPT ![p] = "nobody"]
    /\ pidFile' = IF proc[p].pc = "idle" THEN Forgotten(p) ELSE pidFile
    /\ UNCHANGED <<db, env, lock, proc>>

\* wait_for_holder_pid returns true: "Embedding ... in the background".
Confirmed(p) ==
    /\ watch[p] # "nobody" /\ pidFile = p
    /\ Unwatched(p)

\* Two seconds have passed: the parent reports that another run took the lock.
ConfirmTimeout(p) ==
    /\ watch[p] # "nobody"
    /\ Unwatched(p)

-----------------------------------------------------------------------------
(* The embed phase. *)

\* wait_for_embedder_fresh in the background process: a loading embedder is
\* waited for with the lock held, one that stays away is given up on.
WaitEmbedder(p) ==
    /\ proc[p].pc = "wait"
    /\ embedder # "loading"
    /\ proc' = [proc EXCEPT ![p].then = "post",
                            ![p].queue = IF embedder = "ready" THEN Missing ELSE {},
                            ![p].pc = IF embedder = "ready" THEN "embed" ELSE "post"]
    /\ UNCHANGED <<db, env, lock, pidFile, watch>>

\* The length of the next batch: one for calibration, then what the rate allows,
\* and a batch that is being retried keeps its (shrunk) length.
Sizes(p) ==
    LET left == Cardinality(proc[p].queue) IN
    IF proc[p].size # 0 THEN {proc[p].size}
    ELSE IF ~proc[p].rated THEN {1}
    ELSE {n \in 1..MaxBatch : n <= left}

\* The head of the queue: rows that never had a vector come before re-embeds.
Batches(p, n) ==
    {B \in kSubset(n, proc[p].queue) :
       (\E b \in B : ~b.fresh) => {q \in proc[p].queue : q.fresh} \subseteq B}

\* A batch is answered: one transaction replaces the vectors and clears the flags.
EmbedOk(p) ==
    /\ proc[p].pc = "embed" /\ embedder = "ready"
    /\ \E n \in Sizes(p) : \E B \in Batches(p, n) :
         /\ vectors' = Inserted(B)
         /\ chunks' = {IF \E b \in B : b.id = c.id THEN [c EXCEPT !.pending = FALSE] ELSE c : c \in chunks}
         /\ proc' = [proc EXCEPT ![p].queue = @ \ B, ![p].size = 0, ![p].rated = TRUE,
                                 ![p].patient = FALSE, ![p].connect = 0, ![p].busy = 0]
    /\ UNCHANGED <<hash, edges, owed, nextId, env, lock, pidFile, watch>>

\* The queue is empty, or the phase has stopped early: it never fails the run.
EmbedEnds(p) == proc' = [proc EXCEPT ![p].pc = proc[p].then, ![p].queue = {}, ![p].size = 0,
                                     ![p].rated = FALSE, ![p].patient = FALSE,
                                     ![p].connect = 0, ![p].busy = 0]

EmbedDone(p) ==
    /\ proc[p].pc = "embed" /\ proc[p].queue = {}
    /\ EmbedEnds(p)
    /\ UNCHANGED <<db, env, lock, pidFile, watch>>

\* A request fails.  Only the first failure of a batch is counted: its retries may
\* fail too, and how often is bounded by the phase itself.
RequestFails(p) == IF proc[p].size = 0 THEN Faulty ELSE UNCHANGED faults

\* 408 or a client-side timeout: halve the batch; at length one be patient once,
\* before the rate is known, and then stop.
EmbedOverBudget(p) ==
    /\ proc[p].pc = "embed" /\ proc[p].queue # {} /\ embedder = "ready" /\ RequestFails(p)
    /\ \E n \in Sizes(p) :
         \/ /\ n = 1 /\ ~proc[p].patient /\ ~proc[p].rated
            /\ proc' = [proc EXCEPT ![p].patient = TRUE, ![p].size = 1]
         \/ n = 1 /\ (proc[p].patient \/ proc[p].rated) /\ EmbedEnds(p)
         \/ n > 1 /\ proc' = [proc EXCEPT ![p].size = n \div 2, ![p].rated = TRUE]
    /\ UNCHANGED <<db, disk, embedder, edits, torn, stray, lock, pidFile, watch>>

\* No connection: the same batch again, a bounded number of times.
EmbedUnreachable(p) ==
    /\ proc[p].pc = "embed" /\ proc[p].queue # {} /\ embedder = "off"
    /\ \/ /\ proc[p].connect < MaxConnect
          /\ \E n \in Sizes(p) : proc' = [proc EXCEPT ![p].connect = @ + 1, ![p].size = n]
       \/ proc[p].connect >= MaxConnect /\ EmbedEnds(p)
    /\ UNCHANGED <<db, env, lock, pidFile, watch>>

\* 429: the same batch again, a bounded number of times.
EmbedBusy(p) ==
    /\ proc[p].pc = "embed" /\ proc[p].queue # {} /\ embedder = "ready" /\ RequestFails(p)
    /\ \/ /\ proc[p].busy < MaxBusy
          /\ \E n \in Sizes(p) : proc' = [proc EXCEPT ![p].busy = @ + 1, ![p].size = n]
       \/ proc[p].busy >= MaxBusy /\ EmbedEnds(p)
    /\ UNCHANGED <<db, disk, embedder, edits, torn, stray, lock, pidFile, watch>>

\* Any other answer, such as the 503 of an embedder that is loading again.
EmbedRefused(p) ==
    /\ proc[p].pc = "embed" /\ proc[p].queue # {} /\ embedder = "loading"
    /\ EmbedEnds(p)
    /\ UNCHANGED <<db, env, lock, pidFile, watch>>

-----------------------------------------------------------------------------
(* run_post_embed_phases. *)

Post(p) ==
    /\ proc[p].pc = "post"
    /\ IF ~proc[p].args.noSummaries /\ embedder = "ready"
         THEN proc' = [proc EXCEPT ![p].pc = "refine", ![p].cands = IdsOf(NeedingSelection), ![p].refined = FALSE]
         ELSE Goto(p, "finish")
    /\ UNCHANGED <<db, env, lock, pidFile, watch>>

\* The candidate at hand, if it still has a vector: it is read again.
Candidate(p) == {c \in chunks : c.id = Min(proc[p].cands) /\ HasVector(c)}

\* One candidate of run_tier3_selection.  Only the units of a chunk that has two or
\* more are embedded; a slot that stays empty needs no new vector.
Refine(p) ==
    /\ proc[p].pc = "refine" /\ proc[p].cands # {}
    /\ LET i == Min(proc[p].cands)
           sets == \E c \in Candidate(p) : SummaryOf(c) = "set"
       IN  /\ sets => embedder = "ready"
           /\ proc' = [proc EXCEPT ![p].cands = @ \ {i}, ![p].refined = @ \/ sets]
           /\ chunks' = IF Candidate(p) = {} THEN chunks
                        ELSE WithSummary(i, IF sets THEN "set" ELSE "empty", sets)
    /\ UNCHANGED <<hash, edges, owed, vectors, nextId, env, lock, pidFile, watch>>

\* Embedding a unit failed: a warning, and what was flagged waits for the next run.
RefineFails(p) ==
    /\ proc[p].pc = "refine" /\ proc[p].cands # {} /\ Candidate(p) # {} /\ embedder # "ready"
    /\ proc' = [proc EXCEPT ![p].pc = "finish", ![p].cands = {}]
    /\ UNCHANGED <<db, env, lock, pidFile, watch>>

RefineDone(p) ==
    /\ proc[p].pc = "refine" /\ proc[p].cands = {}
    /\ LET again == proc[p].refined /\ Missing # {} IN
         proc' = [proc EXCEPT ![p].pc = IF again THEN "embed" ELSE "finish", ![p].then = "finish",
                              ![p].queue = IF again THEN Missing ELSE {}]
    /\ UNCHANGED <<db, env, lock, pidFile, watch>>

Exit(p) ==
    /\ proc[p].pc = "finish"
    /\ Ends(p)
    /\ UNCHANGED <<db, env, watch>>

-----------------------------------------------------------------------------
(* The world around the runs. *)

\* A file is created, changed or deleted.
Edit(f, v) ==
    /\ edits < MaxEdits /\ <<f, v>> \in Changes /\ disk[f] # v
    /\ disk' = [disk EXCEPT ![f] = v]
    /\ edits' = edits + 1
    /\ UNCHANGED <<db, lock, pidFile, watch, proc, embedder, faults, torn, stray>>

\* A build with a newer schema opens the database: add_target_file leaves the
\* stored edges unresolved and the pass owed.
Upgrade ==
    /\ edits < MaxEdits /\ Idle = Procs
    /\ \E f \in Files : edges[f] = "new"
    /\ edges' = [f \in Files |-> IF edges[f] = "new" THEN "old" ELSE edges[f]]
    /\ owed' = TRUE
    /\ edits' = edits + 1
    /\ UNCHANGED <<hash, chunks, vectors, nextId, lock, pidFile, watch, proc, disk, embedder, faults, torn, stray>>

\* The embedder starts and finishes loading its model.
EmbedderUp ==
    /\ embedder # "ready"
    /\ embedder' = IF embedder = "off" THEN "loading" ELSE "ready"
    /\ UNCHANGED <<db, lock, pidFile, watch, proc, disk, edits, faults, torn, stray>>

EmbedderDown ==
    /\ embedder # "off" /\ Faulty
    /\ embedder' = "off"
    /\ UNCHANGED <<db, lock, pidFile, watch, proc, disk, edits, torn, stray>>

\* A process is killed, or a statement fails and the error unwinds it.
Crash(p) ==
    /\ proc[p].pc # "idle" /\ Faulty
    /\ LET f == proc[p].file IN
         torn' = IF /\ proc[p].pc \in FileSteps
                    /\ ~Whole(f)
                    /\ ChunksOf(f) # {} \/ f \in DocFiles
                 THEN torn \cup {f} ELSE torn
    /\ Ends(p)
    /\ UNCHANGED <<db, watch, disk, embedder, edits, stray>>

-----------------------------------------------------------------------------

Init ==
    /\ disk = InitTree
    /\ hash = [f \in Files |-> Absent]
    /\ edges = [f \in Files |-> "none"]
    /\ owed = FALSE
    /\ chunks = {} /\ vectors = {} /\ nextId = 1
    /\ lock = None /\ pidFile = None /\ watch = [p \in Procs |-> "nobody"]
    /\ proc = [p \in Procs |-> IdleProc]
    /\ embedder = "loading"
    /\ edits = 0 /\ faults = 0
    /\ torn = {} /\ stray = FALSE

\* What a process does by itself.
Advance(p) ==
    \/ TryAcquire(p) \/ WritePid(p) \/ Collect(p)
    \/ \E f \in Files : ReadFile(p, f) \/ StaleFile(p, f)
    \/ DropVectors(p) \/ DropChunks(p) \/ DropRow(p) \/ StoreEdges(p) \/ StoreChunk(p) \/ EndParse(p)
    \/ Summarise(p) \/ Decide(p) \/ AfterEmbed(p)
    \/ Spawn(p) \/ Confirmed(p) \/ ConfirmTimeout(p)
    \/ WaitEmbedder(p) \/ EmbedOk(p) \/ EmbedDone(p) \/ EmbedUnreachable(p) \/ EmbedRefused(p)
    \/ Post(p) \/ Refine(p) \/ RefineFails(p) \/ RefineDone(p) \/ Exit(p)

\* What happens to it.
Disturb(p) == PidLost(p) \/ SpawnFails(p) \/ EmbedOverBudget(p) \/ EmbedBusy(p) \/ Crash(p)

World ==
    \/ \E f \in Files, v \in Versions \cup {Absent} : Edit(f, v)
    \/ Upgrade \/ EmbedderUp \/ EmbedderDown

Next ==
    \/ \E p \in Procs, m \in Modes : Start(p, m)
    \/ \E p \in Procs : Advance(p) \/ Disturb(p)
    \/ World

Spec == Init /\ [][Next]_vars

\* A plain run, without --force or --detach-embed, finds the lock free.
StartPlain ==
    \E p \in Procs, m \in Modes : ~m.force /\ ~m.detach /\ Start(p, m)

\* A process is scheduled, the embedder loads, and plain runs (every commit starts
\* one, through the hook) do not find the lock held every time.  Nothing is assumed
\* of hand-overs: another run may win the gap each time.
Fairness ==
    /\ \A p \in Procs : WF_vars(Advance(p))
    /\ WF_vars(EmbedderUp)
    /\ SF_vars(StartPlain)

FairSpec == Spec /\ Fairness

-----------------------------------------------------------------------------
(* Properties. *)

Chunk == [id : 1..nextId, file : Files, version : Versions, part : Nat \ {0},
          summary : {"null", "empty", "set"}, pending : BOOLEAN]

\* The state is well formed: the rows of index.db (an AUTOINCREMENT id names at
\* most one chunk row and one vector row), the lock, and every process.
TypeOK ==
    /\ disk \in [Files -> Versions \cup {Absent}]
    /\ hash \in [Files -> Versions \cup {Absent}]
    /\ edges \in [Files -> {"none", "old", "new"}]
    /\ owed \in BOOLEAN /\ stray \in BOOLEAN
    /\ nextId \in Nat \ {0}
    /\ chunks \subseteq Chunk
    /\ \A c \in chunks : c.id < nextId /\ (\A d \in chunks : c.id = d.id => c = d)
    /\ \A v \in vectors : v.id < nextId /\ (\A w \in vectors : v.id = w.id => v = w)
    /\ lock \in Procs \cup {None} /\ pidFile \in Procs \cup {None}
    /\ watch \in [Procs -> {"nobody", "waiting", "took"}]
    /\ embedder \in {"ready", "loading", "off"}
    /\ torn \subseteq Files
    /\ edits \in 0..MaxEdits /\ faults \in 0..MaxFaults
    /\ \A p \in Procs : /\ proc[p].pc \in PCs /\ proc[p].args \in Args
                         /\ proc[p].todo \subseteq proc[p].visited
                         /\ proc[p].pc \in FileSteps => proc[p].file \in Files

\* docs/commands.md: a second run "fails immediately ... instead of writing to the
\* database alongside the first run".  Through crashes, hand-overs and lost races
\* two processes are never both past the lock, as long as no spawn has failed.
OneWriter ==
    ~stray => \A p, q \in Procs : proc[p].pc \in Writing /\ proc[q].pc \in Writing => p = q

\* A vector belongs to a stored chunk: embeddings has no foreign key, and its rows
\* can only be found through chunk rows, so an orphan would stay for ever.
VectorsBelong == ~stray => \A v \in vectors : v.id \in IdsOf(chunks)

\* set_summary_and_mark_pending: the selection of a title-less chunk and its
\* re-embed flag are one write, and insert_embeddings clears the flag together with
\* the new vector, so wherever a process dies an unflagged vector of such a chunk is
\* of the text the chunk has now.
RefinedVectors ==
    ~stray => \A c \in chunks, v \in vectors :
        v.id = c.id /\ Kind(c) = "untitled" /\ ~c.pending => v.text = Text(c)

\* The owed re-extraction is retired only when every file with edges of the old
\* kind was seen by that very walk, or could not be read during it.
OwedUntilDone ==
    [][owed /\ ~owed' => \A f \in Files :
          edges'[f] = "old" => \E p \in Procs : lock = p /\ f \in proc[p].unread]_vars

\* What the foreground run tells its user after wait_for_holder_pid is true: the
\* process it started did take the run lock.
HandoverIsTrue == [][\A p \in Procs : Confirmed(p) => watch[p] = "took"]_vars

\* The index describes the tree and every chunk that is to have a vector has one.
Described(f) == hash[f] = disk[f] /\ Whole(f)
Embedded == \A c \in chunks : Kind(c) # "textonly" => HasVector(c) /\ ~c.pending
EmptyTree == \A f \in Files : disk[f] = Absent

\* Once the tree, the embedder and the machine leave it in peace, repeated plain
\* runs bring the index up to date and embed all of it, whatever was cut short
\* before; a file a crash left with chunks that are not its own is excepted.
CatchesUp == <>[](EmptyTree \/ (Embedded /\ \A f \in Files : f \in torn \/ Described(f)))

\* docs/commands.md says of a run interrupted "after recording a file's new content
\* hash but before writing its chunks" that a plain run "detects this and
\* reprocesses the file automatically; you don't need `--force`": without the exception.
RecoversWithoutForce ==
    <>[](EmptyTree \/ \A f \in Files \ DocFiles : Described(f))

=============================================================================
