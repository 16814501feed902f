---------------------------- MODULE IndexRun_proofs ----------------------------
(***************************************************************************)
(* The index run for every number of processes, files, versions, edits and *)
(* faults: OneWriter, VectorsBelong, RefinedVectors, OwedUntilDone and     *)
(* HandoverIsTrue.  The argument: a process that parses or has yet to      *)
(* embed holds the run lock, so what it read of the rows (the queue with   *)
(* the texts, the file it is replacing, what it has already walked) is     *)
(* still so when it acts on it.  Only after a failed spawn does a process  *)
(* go on without the lock (stray); it never parses again, so the types,    *)
(* the owed pass and the hand-over need no exception.                      *)
(***************************************************************************)
EXTENDS IndexRun, TLAPS

Fields == {"pc", "args", "visited", "todo", "unread", "file", "part", "reextract", "indexed",
           "queue", "size", "rated", "patient", "connect", "busy", "then", "ready", "cands",
           "refined"}

\* Where a process is sure to hold the lock, and where unless a spawn has failed.
Alone == {"pid", "collect", "walk", "summarise", "decide", "wait"} \cup FileSteps
After == {"embed", "tail", "post", "refine", "finish"}

QueueOK(Q) ==
    \A a \in Q : a.id \in Nat /\ a.id < nextId /\ (\A b \in Q : a.id = b.id => a = b)

ShapeOK(r) ==
    /\ DOMAIN r = Fields
    /\ r.pc \in PCs /\ r.args \in Args
    /\ r.todo \subseteq r.visited /\ r.visited \subseteq Files
    /\ r.pc \in FileSteps => r.file \in Files
    /\ r.pc = "store" => r.part \in Nat \ {0}
    /\ r.then \in {"tail", "post", "finish"}
    /\ QueueOK(r.queue)

LockOK(p, r) ==
    /\ r.pc \in Alone => lock = p
    /\ ~stray /\ r.pc \in After => lock = p

\* The file at hand has a row unless it is stale; what the walk is through with has no
\* old edges any more, or could not be read.
HashOK(r) ==
    /\ r.pc \in {"dropvectors", "dropchunks"} /\ r.file \in r.visited => hash[r.file] # Absent
    /\ r.pc \in {"edges", "store"} => hash[r.file] # Absent /\ r.file \in r.visited
    /\ r.pc = "store" => edges[r.file] # "old"
    /\ r.pc \in FileSteps \cup {"walk"} /\ r.reextract =>
          \A f \in r.visited \ r.todo : f \in r.unread \/ edges[f] # "old"

\* The chunks about to go have no vectors left; a queued row is a chunk with that text.
DataOK(r) ==
    ~stray =>
        /\ r.pc = "dropchunks" =>
              \A v \in vectors, c \in chunks : v.id = c.id => c.file # r.file
        /\ r.pc = "embed" =>
              \A b \in r.queue : /\ b.id \in IdsOf(chunks)
                                 /\ \A c \in chunks : c.id = b.id => b.text = Text(c)

ProcOK(p, r) == ShapeOK(r) /\ LockOK(p, r) /\ HashOK(r) /\ DataOK(r)

EdgesOK == \A f \in Files : /\ edges[f] # "none" => hash[f] # Absent
                            /\ f \in DocFiles => edges[f] = "none"

\* A parent that waits has not been shown its child's pid.
WatchOK ==
    \A p \in Procs : watch[p] = "waiting" => pidFile # p /\ proc[p].pc \in {"acquire", "idle"}

\* The parts of TypeOK; a vector's id is a number.
RowsTyped ==
    /\ hash \in [Files -> Versions \cup {Absent}]
    /\ edges \in [Files -> {"none", "old", "new"}]
    /\ nextId \in Nat \ {0}
    /\ chunks \subseteq Chunk
    /\ \A c \in chunks : c.id < nextId /\ (\A d \in chunks : c.id = d.id => c = d)
    /\ \A v \in vectors : v.id \in Nat /\ v.id < nextId /\ (\A w \in vectors : v.id = w.id => v = w)

RestTyped ==
    /\ disk \in [Files -> Versions \cup {Absent}]
    /\ owed \in BOOLEAN /\ stray \in BOOLEAN
    /\ lock \in Procs \cup {None} /\ pidFile \in Procs \cup {None}
    /\ watch \in [Procs -> {"nobody", "waiting", "took"}]
    /\ embedder \in {"ready", "loading", "off"}
    /\ torn \subseteq Files
    /\ edits \in 0..MaxEdits /\ faults \in 0..MaxFaults

IInv ==
    /\ RowsTyped /\ RestTyped
    /\ DOMAIN proc = Procs /\ proc = [p \in Procs |-> proc[p]]
    /\ \A p \in Procs : ProcOK(p, proc[p])
    /\ EdgesOK /\ WatchOK /\ VectorsBelong /\ RefinedVectors

-----------------------------------------------------------------------------
(* Constants, processes and their frames. *)

LEMMA Constants ==
    /\ None \notin Procs /\ DocFiles \subseteq Files /\ Versions \subseteq Nat \ {0} /\ Absent = 0
    /\ \A v \in Versions : PartsOf[v] \in Seq(Kinds)
    /\ Modes \subseteq [kind : {"index"}, force : BOOLEAN, detach : BOOLEAN, noSummaries : BOOLEAN]
    /\ MaxEdits \in Nat /\ MaxFaults \in Nat
    /\ InitTree \in [Files -> Versions \cup {Absent}]
BY ConstantsOK DEF ConstantsOK, Absent

LEMMA GotoFields ==
    ASSUME NEW r, DOMAIN r = Fields, NEW pc
    PROVE  LET t == [r EXCEPT !.pc = pc] IN
           /\ DOMAIN t = Fields /\ t.pc = pc /\ t.args = r.args /\ t.visited = r.visited
           /\ t.todo = r.todo /\ t.unread = r.unread /\ t.file = r.file /\ t.part = r.part
           /\ t.reextract = r.reextract /\ t.queue = r.queue /\ t.then = r.then
BY DEF Fields

LEMMA FreshFields ==
    ASSUME NEW pc, NEW m
    PROVE  LET t == Fresh(pc, m) IN
           /\ DOMAIN t = Fields /\ t.pc = pc /\ t.args = m
           /\ t.visited = {} /\ t.todo = {} /\ t.queue = {} /\ t.reextract = FALSE
           /\ t.then = "tail"
BY DEF Fresh, Fields

LEMMA ProcFrame ==
    ASSUME IInv, NEW p \in Procs, NEW r, proc' = [proc EXCEPT ![p] = r]
    PROVE  /\ DOMAIN proc' = Procs /\ proc' = [q \in Procs |-> proc'[q]] /\ proc'[p] = r
           /\ \A q \in Procs \ {p} : proc'[q] = proc[q]
BY DEF IInv

\* What another process relies on: its lock, or that nothing it relies on changes.
LEMMA Others ==
    ASSUME IInv, NEW p \in Procs, NEW q \in Procs, q # p, proc'[q] = proc[q],
           lock = q => lock' = q, stray => stray', nextId' \in Nat, nextId' >= nextId,
           \/ UNCHANGED <<hash, edges, chunks, vectors>>
           \/ lock = p
           \/ stray /\ UNCHANGED <<hash, edges>>
    PROVE  ProcOK(q, proc[q])'
<1> DEFINE r == proc[q]
<1>1. ShapeOK(r) /\ LockOK(q, r) /\ HashOK(r) /\ DataOK(r)
  BY DEF IInv, ProcOK
<1>2. nextId \in Nat
  BY DEF IInv, RowsTyped
<1>3. r' = r
  OBVIOUS
<1> HIDE DEF r
<1>4. ShapeOK(r)'
  <2>1. QueueOK(r.queue)'
    BY <1>1, <1>2, <1>3 DEF ShapeOK, QueueOK
  <2> QED BY <1>1, <1>3, <2>1 DEF ShapeOK
<1>5. LockOK(q, r)'
  BY <1>1, <1>3 DEF LockOK
<1>6. HashOK(r)' /\ DataOK(r)'
  <2>1. CASE UNCHANGED <<hash, edges, chunks, vectors>>
    BY <1>1, <1>3, <2>1 DEF HashOK, DataOK, IdsOf, Text
  <2>2. CASE lock = p
    <3>1. r.pc \notin Alone /\ (stray' \/ r.pc \notin After)
      BY <1>1, <2>2 DEF LockOK
    <3>2. HashOK(r)'
      BY <1>3, <3>1 DEF HashOK, Alone, FileSteps
    <3>3. DataOK(r)'
      BY <1>3, <3>1 DEF DataOK, Alone, After, FileSteps
    <3> QED BY <3>2, <3>3
  <2>3. CASE stray /\ UNCHANGED <<hash, edges>>
    BY <1>1, <1>3, <2>3 DEF HashOK, DataOK
  <2> QED BY <2>1, <2>2, <2>3
<1> QED BY <1>4, <1>5, <1>6 DEF ProcOK, r

\* A step that leaves the rows alone.
LEMMA ProcStep ==
    ASSUME IInv, NEW p \in Procs, NEW r, proc' = [proc EXCEPT ![p] = r],
           UNCHANGED <<hash, edges, chunks, vectors, nextId>>, RestTyped', stray => stray',
           \A q \in Procs \ {p} : lock = q => lock' = q,
           ProcOK(p, r)', WatchOK'
    PROVE  IInv'
<1>1. /\ DOMAIN proc' = Procs /\ proc' = [q \in Procs |-> proc'[q]] /\ proc'[p] = r
      /\ \A q \in Procs \ {p} : proc'[q] = proc[q]
  BY ProcFrame
<1>2. nextId' \in Nat /\ nextId' >= nextId
  BY DEF IInv, RowsTyped
<1>3. \A q \in Procs \ {p} : ProcOK(q, proc[q])'
  BY <1>1, <1>2, Others
<1>4. ProcOK(p, proc[p])'
  BY <1>1 DEF ProcOK, ShapeOK, LockOK, HashOK, DataOK, QueueOK
<1>5. RowsTyped' /\ EdgesOK'
  BY DEF IInv, RowsTyped, EdgesOK, Chunk
<1>6. VectorsBelong' /\ RefinedVectors'
  BY DEF IInv, VectorsBelong, RefinedVectors, IdsOf, Text, Kind
<1> QED BY <1>1, <1>3, <1>4, <1>5, <1>6 DEF IInv

\* The same for a process that is running; its parent, if any, has seen it take the lock.
LEMMA RunStep ==
    ASSUME IInv, NEW p \in Procs, proc[p].pc \notin {"idle", "acquire"},
           NEW r, proc' = [proc EXCEPT ![p] = r],
           UNCHANGED <<hash, edges, chunks, vectors, nextId, watch>>, RestTyped', stray => stray',
           pidFile' \in {pidFile, p, None}, lock' \in {lock, Released(p)}, ProcOK(p, r)'
    PROVE  IInv'
<1>1. /\ proc'[p] = r /\ \A q \in Procs \ {p} : proc'[q] = proc[q]
  BY ProcFrame
<1>2. WatchOK'
  BY <1>1, Constants DEF IInv, WatchOK
<1>3. \A q \in Procs \ {p} : lock = q => lock' = q
  BY DEF Released
<1> QED BY <1>2, <1>3, ProcStep

\* A step that writes rows, with the lock or after a failed spawn.
LEMMA RowStep ==
    ASSUME IInv, NEW p \in Procs, proc[p].pc \notin {"idle", "acquire"},
           NEW r, proc' = [proc EXCEPT ![p] = r],
           UNCHANGED <<watch, pidFile, lock, stray>>, RestTyped',
           lock = p \/ (stray /\ UNCHANGED <<hash, edges>>),
           RowsTyped', nextId' >= nextId, EdgesOK', VectorsBelong', RefinedVectors', ProcOK(p, r)'
    PROVE  IInv'
<1>1. /\ DOMAIN proc' = Procs /\ proc' = [q \in Procs |-> proc'[q]] /\ proc'[p] = r
      /\ \A q \in Procs \ {p} : proc'[q] = proc[q]
  BY ProcFrame
<1>2. \A q \in Procs \ {p} : ProcOK(q, proc[q])'
  BY <1>1, Others DEF RowsTyped
<1>3. ProcOK(p, proc[p])'
  BY <1>1 DEF ProcOK, ShapeOK, LockOK, HashOK, DataOK, QueueOK
<1>4. WatchOK'
  BY <1>1 DEF IInv, WatchOK
<1> QED BY <1>1, <1>2, <1>3, <1>4 DEF IInv

LEMMA RestSame ==
    ASSUME IInv, UNCHANGED <<env, lock, watch, owed>>, pidFile' \in Procs \cup {None}
    PROVE  RestTyped'
BY DEF IInv, RestTyped, env

\* What is known of a process.
LEMMA Running ==
    ASSUME IInv, NEW p \in Procs
    PROVE  /\ ShapeOK(proc[p]) /\ LockOK(p, proc[p]) /\ HashOK(proc[p]) /\ DataOK(proc[p])
           /\ DOMAIN proc[p] = Fields /\ RowsTyped /\ RestTyped
BY DEF IInv, ProcOK, ShapeOK

LEMMA MissingOK ==
    ASSUME IInv
    PROVE  /\ QueueOK(Missing)
           /\ \A b \in Missing : /\ b.id \in IdsOf(chunks)
                                 /\ \A c \in chunks : c.id = b.id => b.text = Text(c)
<1>1. /\ nextId \in Nat
      /\ \A c \in chunks : /\ c.id \in Nat /\ c.id < nextId
                            /\ \A d \in chunks : c.id = d.id => c = d
  BY DEF IInv, RowsTyped, Chunk
<1>2. \A b \in Missing : \E c \in chunks :
          b = [id |-> c.id, text |-> Text(c), fresh |-> ~HasVector(c)]
  BY DEF Missing
<1>3. \A b \in Missing : \E c \in chunks : b.id = c.id /\ b.text = Text(c)
  BY <1>2
<1>4. \A b \in Missing : b.id \in Nat /\ b.id < nextId
  BY <1>1, <1>3
<1>5. ASSUME NEW a \in Missing, NEW b \in Missing, a.id = b.id PROVE a = b
  <2>1. PICK c \in chunks : a = [id |-> c.id, text |-> Text(c), fresh |-> ~HasVector(c)]
    BY <1>2
  <2>2. PICK d \in chunks : b = [id |-> d.id, text |-> Text(d), fresh |-> ~HasVector(d)]
    BY <1>2
  <2>3. a.id = c.id /\ b.id = d.id
    BY <2>1, <2>2
  <2>4. c = d
    BY <1>1, <1>5, <2>3
  <2> QED BY <2>1, <2>2, <2>4
<1> QED BY <1>1, <1>3, <1>4, <1>5 DEF QueueOK, IdsOf

\* The states after the parse phase.  A step between them keeps what is in the queue, or
\* queues what is missing at that moment.
Late == {"summarise", "decide", "spawn", "wait", "embed", "tail", "post", "refine", "finish", "idle"}

LEMMA LateStep ==
    ASSUME IInv, NEW p \in Procs, proc[p].pc \notin {"idle", "acquire"},
           NEW r, proc' = [proc EXCEPT ![p] = r],
           UNCHANGED <<hash, edges, chunks, vectors, nextId, watch>>, RestTyped', stray => stray',
           pidFile' \in {pidFile, p, None},
           lock' = lock \/ (lock' = Released(p) /\ r.pc \in {"spawn", "idle"}),
           DOMAIN r = Fields, r.pc \in Late, r.args \in Args,
           r.todo \subseteq r.visited, r.visited \subseteq Files,
           r.then \in {"tail", "post", "finish"},
           r.pc \in Alone => proc[p].pc \in Alone,
           r.pc \in After => proc[p].pc \in Alone \cup After \/ stray',
           r.queue \subseteq Missing \/ (r.queue \subseteq proc[p].queue
                                          /\ (r.pc = "embed" => proc[p].pc = "embed" \/ stray'))
    PROVE  IInv'
<1>1. ShapeOK(proc[p]) /\ LockOK(p, proc[p]) /\ DataOK(proc[p])
  BY Running
<1>2. QueueOK(Missing)
  BY MissingOK
<1>3. QueueOK(r.queue)'
  BY <1>1, <1>2 DEF QueueOK, ShapeOK
<1>4. ShapeOK(r)'
  BY <1>3 DEF ShapeOK, Late, PCs, FileSteps
<1>5. LockOK(p, r)'
  BY <1>1, Constants DEF LockOK, Alone, After, FileSteps
<1>6. HashOK(r)'
  BY DEF HashOK, Late, FileSteps
<1>7. DataOK(r)'
  <2> SUFFICES ASSUME ~stray', r.pc = "embed"
      PROVE \A b \in r.queue : /\ b.id \in IdsOf(chunks)
                               /\ \A c \in chunks : c.id = b.id => b.text = Text(c)
    BY DEF DataOK, Late, IdsOf, Text
  <2> QED BY <1>1, MissingOK DEF DataOK
<1>8. lock' \in {lock, Released(p)}
  OBVIOUS
<1> QED BY <1>4, <1>5, <1>6, <1>7, <1>8, RunStep DEF ProcOK

\* Its end.
LEMMA EndStep ==
    ASSUME IInv, NEW p \in Procs, proc[p].pc \notin {"idle", "acquire"}, Ends(p),
           UNCHANGED <<hash, edges, chunks, vectors, nextId, watch>>, RestTyped', stray => stray'
    PROVE  IInv'
<1> DEFINE r == IdleProc
<1>1. /\ DOMAIN r = Fields /\ r.pc = "idle" /\ r.args = NoArgs
      /\ r.todo = {} /\ r.visited = {} /\ r.queue = {} /\ r.then = "tail"
  BY DEF IdleProc, Fresh, Fields
<1>2. proc' = [proc EXCEPT ![p] = r] /\ lock' = Released(p) /\ pidFile' \in {pidFile, p, None}
  BY DEF Ends, Forgotten
<1> HIDE DEF r
<1>3. NoArgs \in Args
  BY DEF NoArgs, Args
<1>4. r.pc \in Late /\ r.pc \notin Alone /\ r.pc \notin After
  BY <1>1 DEF Late, Alone, After, FileSteps
<1> QED BY <1>1, <1>2, <1>3, <1>4, LateStep

LEMMA RestFault ==
    ASSUME IInv, UNCHANGED <<disk, embedder, edits, owed>>, Faulty \/ UNCHANGED faults,
           torn' \subseteq Files, stray' \in BOOLEAN,
           watch' \in [Procs -> {"nobody", "waiting", "took"}],
           lock' \in Procs \cup {None}, pidFile' \in Procs \cup {None}
    PROVE  RestTyped'
<1>1. faults' \in 0..MaxFaults
  BY Constants DEF IInv, RestTyped, Faulty
<1> QED BY <1>1 DEF IInv, RestTyped

LEMMA ReleasedTyped ==
    ASSUME IInv, NEW p \in Procs
    PROVE  Released(p) \in Procs \cup {None} /\ Forgotten(p) \in Procs \cup {None}
BY DEF IInv, RestTyped, Released, Forgotten

-----------------------------------------------------------------------------
(* The steps after the parse phase. *)

LEMMA DecideInv ==
    ASSUME IInv, NEW p \in Procs, Decide(p)
    PROVE  IInv'
<1>1. /\ DOMAIN proc[p] = Fields /\ ShapeOK(proc[p]) /\ proc[p].pc = "decide"
      /\ UNCHANGED <<db, env, watch>>
  BY Running DEF Decide
<1>2. Released(p) \in Procs \cup {None} /\ Forgotten(p) \in Procs \cup {None}
  BY ReleasedTyped
<1>3. CASE Ends(p)
  <2>1. RestTyped'
    BY <1>1, <1>2, <1>3, RestFault DEF IInv, RestTyped, Ends, env, db
  <2> QED BY <1>1, <1>3, <2>1, EndStep DEF env, db
<1>4. CASE ~Ends(p)
  <2> DEFINE detached == proc[p].args.detach /\ embedder \in {"ready", "loading"}
             rdy == embedder = "ready"
             pc == IF detached THEN "spawn" ELSE IF embedder = "ready" THEN "embed" ELSE "tail"
  <2>1. /\ UNCHANGED pidFile
        /\ lock' = IF detached THEN Released(p) ELSE lock
        /\ proc' = [proc EXCEPT ![p].queue = Missing, ![p].ready = rdy, ![p].then = "tail",
                                ![p].pc = pc]
    BY <1>4 DEF Decide
  <2>2. pc \in {"spawn", "embed", "tail"} /\ (pc # "spawn" => lock' = lock)
        /\ (lock' = lock \/ lock' = Released(p))
    BY <2>1
  <2> HIDE DEF pc, rdy
  <2> DEFINE r == [proc[p] EXCEPT !.queue = Missing, !.ready = rdy, !.then = "tail", !.pc = pc]
  <2>3. proc' = [proc EXCEPT ![p] = r]
    BY <2>1 DEF IInv
  <2>4. /\ DOMAIN r = Fields /\ r.pc = pc /\ r.args = proc[p].args /\ r.todo = proc[p].todo
        /\ r.visited = proc[p].visited /\ r.queue = Missing /\ r.then = "tail"
    BY <1>1 DEF Fields
  <2> HIDE DEF r
  <2>5. RestTyped'
    BY <1>1, <1>2, <2>1, RestFault DEF IInv, RestTyped, env, db
  <2> QED BY <1>1, <2>1, <2>2, <2>3, <2>4, <2>5, LateStep
      DEF ShapeOK, Late, Alone, After, FileSteps, env, db
<1> QED BY <1>3, <1>4

LEMMA AfterEmbedInv ==
    ASSUME IInv, NEW p \in Procs, AfterEmbed(p)
    PROVE  IInv'
<1>1. /\ DOMAIN proc[p] = Fields /\ ShapeOK(proc[p]) /\ proc[p].pc = "tail"
      /\ UNCHANGED <<db, env, pidFile, watch>>
  BY Running DEF AfterEmbed
<1> DEFINE detached == proc[p].indexed > BigRun
           pc == IF detached THEN "spawn" ELSE "post"
<1>2. /\ lock' = IF detached THEN Released(p) ELSE lock
      /\ proc' = [proc EXCEPT ![p].pc = pc, ![p].then = "post"]
  BY DEF AfterEmbed
<1>3. /\ pc \in {"spawn", "post"} /\ (pc # "spawn" => lock' = lock)
      /\ (lock' = lock \/ lock' = Released(p))
  BY <1>2
<1> HIDE DEF pc
<1> DEFINE r == [proc[p] EXCEPT !.pc = pc, !.then = "post"]
<1>4. proc' = [proc EXCEPT ![p] = r]
  BY <1>2 DEF IInv
<1>5. /\ DOMAIN r = Fields /\ r.pc = pc /\ r.args = proc[p].args /\ r.todo = proc[p].todo
      /\ r.visited = proc[p].visited /\ r.queue = proc[p].queue /\ r.then = "post"
  BY <1>1 DEF Fields
<1> HIDE DEF r
<1>6. RestTyped'
  BY <1>1, <1>3, ReleasedTyped, RestFault DEF IInv, RestTyped, env, db
<1> QED BY <1>1, <1>3, <1>4, <1>5, <1>6, LateStep
    DEF ShapeOK, Late, Alone, After, FileSteps, env, db

LEMMA WaitEmbedderInv ==
    ASSUME IInv, NEW p \in Procs, WaitEmbedder(p)
    PROVE  IInv'
<1>1. /\ DOMAIN proc[p] = Fields /\ ShapeOK(proc[p]) /\ proc[p].pc = "wait"
      /\ UNCHANGED <<db, env, lock, pidFile, watch>>
  BY Running DEF WaitEmbedder
<1> DEFINE Q == IF embedder = "ready" THEN Missing ELSE {}
           pc == IF embedder = "ready" THEN "embed" ELSE "post"
<1>2. proc' = [proc EXCEPT ![p].then = "post", ![p].queue = Q, ![p].pc = pc]
  BY DEF WaitEmbedder
<1>3. pc \in {"embed", "post"} /\ Q \subseteq Missing
  OBVIOUS
<1> HIDE DEF pc, Q
<1> DEFINE r == [proc[p] EXCEPT !.then = "post", !.queue = Q, !.pc = pc]
<1>4. proc' = [proc EXCEPT ![p] = r]
  BY <1>2 DEF IInv
<1>5. /\ DOMAIN r = Fields /\ r.pc = pc /\ r.args = proc[p].args /\ r.todo = proc[p].todo
      /\ r.visited = proc[p].visited /\ r.queue = Q /\ r.then = "post"
  BY <1>1 DEF Fields
<1> HIDE DEF r
<1>6. RestTyped'
  BY <1>1, RestFault DEF IInv, RestTyped, env, db
<1> QED BY <1>1, <1>3, <1>4, <1>5, <1>6, LateStep
    DEF ShapeOK, Late, Alone, After, FileSteps, env, db

\* A phase that ends keeps nothing in its queue.
LEMMA EmbedEndsStep ==
    ASSUME IInv, NEW p \in Procs, proc[p].pc = "embed", EmbedEnds(p),
           UNCHANGED <<db, disk, embedder, edits, torn, stray, lock, pidFile, watch>>,
           Faulty \/ UNCHANGED faults
    PROVE  IInv'
<1>1. DOMAIN proc[p] = Fields /\ ShapeOK(proc[p])
  BY Running
<1> DEFINE r == [proc[p] EXCEPT !.pc = proc[p].then, !.queue = {}, !.size = 0, !.rated = FALSE,
                                !.patient = FALSE, !.connect = 0, !.busy = 0]
<1>2. proc' = [proc EXCEPT ![p] = r]
  BY DEF EmbedEnds, IInv
<1>3. /\ DOMAIN r = Fields /\ r.pc = proc[p].then /\ r.args = proc[p].args /\ r.todo = proc[p].todo
      /\ r.visited = proc[p].visited /\ r.queue = {} /\ r.then = proc[p].then
  BY <1>1 DEF Fields
<1> HIDE DEF r
<1>4. RestTyped'
  BY RestFault DEF IInv, RestTyped, db
<1> QED BY <1>1, <1>2, <1>3, <1>4, LateStep DEF ShapeOK, Late, Alone, After, FileSteps, db

LEMMA EmbedDoneInv ==
    ASSUME IInv, NEW p \in Procs, EmbedDone(p)
    PROVE  IInv'
BY EmbedEndsStep DEF EmbedDone, env, db

LEMMA EmbedRefusedInv ==
    ASSUME IInv, NEW p \in Procs, EmbedRefused(p)
    PROVE  IInv'
BY EmbedEndsStep DEF EmbedRefused, env, db

\* A batch that is tried again.
LEMMA RetryStep ==
    ASSUME IInv, NEW p \in Procs, proc[p].pc = "embed", NEW r, proc' = [proc EXCEPT ![p] = r],
           DOMAIN r = Fields, r.pc = "embed", r.args = proc[p].args, r.todo = proc[p].todo,
           r.visited = proc[p].visited, r.queue = proc[p].queue, r.then = proc[p].then,
           UNCHANGED <<db, disk, embedder, edits, torn, stray, lock, pidFile, watch>>,
           Faulty \/ UNCHANGED faults
    PROVE  IInv'
<1>1. ShapeOK(proc[p])
  BY Running
<1>2. RestTyped'
  BY RestFault DEF IInv, RestTyped, db
<1> QED BY <1>1, <1>2, LateStep DEF ShapeOK, Late, Alone, After, FileSteps, db

LEMMA EmbedOverBudgetInv ==
    ASSUME IInv, NEW p \in Procs, EmbedOverBudget(p)
    PROVE  IInv'
<1>1. /\ proc[p].pc = "embed" /\ (Faulty \/ UNCHANGED faults)
      /\ UNCHANGED <<db, disk, embedder, edits, torn, stray, lock, pidFile, watch>>
      /\ DOMAIN proc[p] = Fields
  BY Running DEF EmbedOverBudget, RequestFails
<1>2. CASE EmbedEnds(p)
  BY <1>1, <1>2, EmbedEndsStep
<1>3. ASSUME proc' = [proc EXCEPT ![p].patient = TRUE, ![p].size = 1] PROVE IInv'
  <2> DEFINE r == [proc[p] EXCEPT !.patient = TRUE, !.size = 1]
  <2>1. proc' = [proc EXCEPT ![p] = r]
    BY <1>3 DEF IInv
  <2>2. /\ DOMAIN r = Fields /\ r.pc = proc[p].pc /\ r.args = proc[p].args /\ r.todo = proc[p].todo
        /\ r.visited = proc[p].visited /\ r.queue = proc[p].queue /\ r.then = proc[p].then
    BY <1>1 DEF Fields
  <2> HIDE DEF r
  <2> QED BY <1>1, <2>1, <2>2, RetryStep
<1>4. ASSUME NEW n, proc' = [proc EXCEPT ![p].size = n, ![p].rated = TRUE] PROVE IInv'
  <2> DEFINE r == [proc[p] EXCEPT !.size = n, !.rated = TRUE]
  <2>1. proc' = [proc EXCEPT ![p] = r]
    BY <1>4 DEF IInv
  <2>2. /\ DOMAIN r = Fields /\ r.pc = proc[p].pc /\ r.args = proc[p].args /\ r.todo = proc[p].todo
        /\ r.visited = proc[p].visited /\ r.queue = proc[p].queue /\ r.then = proc[p].then
    BY <1>1 DEF Fields
  <2> HIDE DEF r
  <2> QED BY <1>1, <2>1, <2>2, RetryStep
<1> QED BY <1>2, <1>3, <1>4 DEF EmbedOverBudget

LEMMA EmbedUnreachableInv ==
    ASSUME IInv, NEW p \in Procs, EmbedUnreachable(p)
    PROVE  IInv'
<1>1. /\ proc[p].pc = "embed" /\ DOMAIN proc[p] = Fields
      /\ UNCHANGED <<db, disk, embedder, edits, faults, torn, stray, lock, pidFile, watch>>
  BY Running DEF EmbedUnreachable, env
<1>2. CASE EmbedEnds(p)
  BY <1>1, <1>2, EmbedEndsStep
<1>3. ASSUME NEW n, proc' = [proc EXCEPT ![p].connect = @ + 1, ![p].size = n] PROVE IInv'
  <2> DEFINE r == [proc[p] EXCEPT !.connect = @ + 1, !.size = n]
  <2>1. proc' = [proc EXCEPT ![p] = r]
    BY <1>3 DEF IInv
  <2>2. /\ DOMAIN r = Fields /\ r.pc = proc[p].pc /\ r.args = proc[p].args /\ r.todo = proc[p].todo
        /\ r.visited = proc[p].visited /\ r.queue = proc[p].queue /\ r.then = proc[p].then
    BY <1>1 DEF Fields
  <2> HIDE DEF r
  <2> QED BY <1>1, <2>1, <2>2, RetryStep
<1> QED BY <1>2, <1>3 DEF EmbedUnreachable

LEMMA EmbedBusyInv ==
    ASSUME IInv, NEW p \in Procs, EmbedBusy(p)
    PROVE  IInv'
<1>1. /\ proc[p].pc = "embed" /\ (Faulty \/ UNCHANGED faults) /\ DOMAIN proc[p] = Fields
      /\ UNCHANGED <<db, disk, embedder, edits, torn, stray, lock, pidFile, watch>>
  BY Running DEF EmbedBusy, RequestFails
<1>2. CASE EmbedEnds(p)
  BY <1>1, <1>2, EmbedEndsStep
<1>3. ASSUME NEW n, proc' = [proc EXCEPT ![p].busy = @ + 1, ![p].size = n] PROVE IInv'
  <2> DEFINE r == [proc[p] EXCEPT !.busy = @ + 1, !.size = n]
  <2>1. proc' = [proc EXCEPT ![p] = r]
    BY <1>3 DEF IInv
  <2>2. /\ DOMAIN r = Fields /\ r.pc = proc[p].pc /\ r.args = proc[p].args /\ r.todo = proc[p].todo
        /\ r.visited = proc[p].visited /\ r.queue = proc[p].queue /\ r.then = proc[p].then
    BY <1>1 DEF Fields
  <2> HIDE DEF r
  <2> QED BY <1>1, <2>1, <2>2, RetryStep
<1> QED BY <1>2, <1>3 DEF EmbedBusy

LEMMA SpawnFailsInv ==
    ASSUME IInv, NEW p \in Procs, SpawnFails(p)
    PROVE  IInv'
<1>1. /\ DOMAIN proc[p] = Fields /\ ShapeOK(proc[p]) /\ proc[p].pc = "spawn" /\ Faulty /\ stray' = TRUE
      /\ UNCHANGED <<db, disk, embedder, edits, torn, lock, pidFile, watch>>
  BY Running DEF SpawnFails
<1> DEFINE pc == IF proc[p].then = "post" THEN "post" ELSE IF proc[p].ready THEN "embed" ELSE "tail"
           r == [proc[p] EXCEPT !.pc = pc]
<1>2. proc' = [proc EXCEPT ![p] = r]
  BY DEF IInv, SpawnFails, Goto
<1>3. pc \in {"post", "embed", "tail"}
  OBVIOUS
<1> HIDE DEF pc
<1>4. /\ DOMAIN r = Fields /\ r.pc = pc /\ r.args = proc[p].args /\ r.todo = proc[p].todo
      /\ r.visited = proc[p].visited /\ r.queue = proc[p].queue /\ r.then = proc[p].then
  BY <1>1 DEF Fields
<1> HIDE DEF r
<1>5. RestTyped'
  BY <1>1, RestFault DEF IInv, RestTyped, db
<1> QED BY <1>1, <1>2, <1>3, <1>4, <1>5, LateStep DEF ShapeOK, Late, Alone, After, FileSteps, db

LEMMA PostInv ==
    ASSUME IInv, NEW p \in Procs, Post(p)
    PROVE  IInv'
<1>1. /\ DOMAIN proc[p] = Fields /\ ShapeOK(proc[p]) /\ proc[p].pc = "post"
      /\ UNCHANGED <<db, env, lock, pidFile, watch>>
  BY Running DEF Post
<1>2. RestTyped'
  BY <1>1, RestFault DEF IInv, RestTyped, env, db
<1>3. ASSUME NEW r, proc' = [proc EXCEPT ![p] = r], DOMAIN r = Fields,
             r.pc \in {"refine", "finish"}, r.args = proc[p].args, r.todo = proc[p].todo,
             r.visited = proc[p].visited, r.queue = proc[p].queue, r.then = proc[p].then
      PROVE  IInv'
  BY <1>1, <1>2, <1>3, LateStep DEF ShapeOK, Late, Alone, After, FileSteps, env, db
<1>4. ASSUME NEW K, proc' = [proc EXCEPT ![p].pc = "refine", ![p].cands = K, ![p].refined = FALSE]
      PROVE  IInv'
  <2> DEFINE r == [proc[p] EXCEPT !.pc = "refine", !.cands = K, !.refined = FALSE]
  <2>1. proc' = [proc EXCEPT ![p] = r]
    BY <1>4 DEF IInv
  <2>2. /\ DOMAIN r = Fields /\ r.pc = "refine" /\ r.args = proc[p].args /\ r.todo = proc[p].todo
        /\ r.visited = proc[p].visited /\ r.queue = proc[p].queue /\ r.then = proc[p].then
    BY <1>1 DEF Fields
  <2> HIDE DEF r
  <2> QED BY <1>3, <2>1, <2>2
<1>5. ASSUME Goto(p, "finish") PROVE IInv'
  <2> DEFINE r == [proc[p] EXCEPT !.pc = "finish"]
  <2>1. proc' = [proc EXCEPT ![p] = r]
    BY <1>5 DEF IInv, Goto
  <2>2. /\ DOMAIN r = Fields /\ r.pc = "finish" /\ r.args = proc[p].args /\ r.todo = proc[p].todo
        /\ r.visited = proc[p].visited /\ r.queue = proc[p].queue /\ r.then = proc[p].then
    BY <1>1 DEF Fields
  <2> HIDE DEF r
  <2> QED BY <1>3, <2>1, <2>2
<1> QED BY <1>4, <1>5 DEF Post

LEMMA RefineFailsInv ==
    ASSUME IInv, NEW p \in Procs, RefineFails(p)
    PROVE  IInv'
<1>1. /\ DOMAIN proc[p] = Fields /\ ShapeOK(proc[p]) /\ proc[p].pc = "refine"
      /\ UNCHANGED <<db, env, lock, pidFile, watch>>
  BY Running DEF RefineFails
<1> DEFINE r == [proc[p] EXCEPT !.pc = "finish", !.cands = {}]
<1>2. proc' = [proc EXCEPT ![p] = r]
  BY DEF RefineFails, IInv
<1>3. /\ DOMAIN r = Fields /\ r.pc = "finish" /\ r.args = proc[p].args /\ r.todo = proc[p].todo
      /\ r.visited = proc[p].visited /\ r.queue = proc[p].queue /\ r.then = proc[p].then
  BY <1>1 DEF Fields
<1> HIDE DEF r
<1>4. RestTyped'
  BY <1>1, RestFault DEF IInv, RestTyped, env, db
<1> QED BY <1>1, <1>2, <1>3, <1>4, LateStep DEF ShapeOK, Late, Alone, After, FileSteps, env, db

LEMMA RefineDoneInv ==
    ASSUME IInv, NEW p \in Procs, RefineDone(p)
    PROVE  IInv'
<1>1. /\ DOMAIN proc[p] = Fields /\ ShapeOK(proc[p]) /\ proc[p].pc = "refine"
      /\ UNCHANGED <<db, env, lock, pidFile, watch>>
  BY Running DEF RefineDone
<1> DEFINE again == proc[p].refined /\ Missing # {}
           Q == IF again THEN Missing ELSE {}
           pc == IF again THEN "embed" ELSE "finish"
           r == [proc[p] EXCEPT !.pc = pc, !.then = "finish", !.queue = Q]
<1>2. proc' = [proc EXCEPT ![p] = r]
  BY DEF RefineDone, IInv
<1>3. pc \in {"embed", "finish"} /\ Q \subseteq Missing
  OBVIOUS
<1> HIDE DEF pc, Q
<1>4. /\ DOMAIN r = Fields /\ r.pc = pc /\ r.args = proc[p].args /\ r.todo = proc[p].todo
      /\ r.visited = proc[p].visited /\ r.queue = Q /\ r.then = "finish"
  BY <1>1 DEF Fields
<1> HIDE DEF r
<1>5. RestTyped'
  BY <1>1, RestFault DEF IInv, RestTyped, env, db
<1> QED BY <1>1, <1>2, <1>3, <1>4, <1>5, LateStep DEF ShapeOK, Late, Alone, After, FileSteps, env, db

LEMMA ExitInv ==
    ASSUME IInv, NEW p \in Procs, Exit(p)
    PROVE  IInv'
<1>1. RestTyped'
  BY ReleasedTyped, RestFault DEF IInv, RestTyped, Exit, Ends, env, db
<1> QED BY <1>1, EndStep DEF Exit, env, db

LEMMA CrashInv ==
    ASSUME IInv, NEW p \in Procs, Crash(p), proc[p].pc # "acquire"
    PROVE  IInv'
<1>1. torn' \subseteq Files
  BY Running DEF Crash, ShapeOK, IInv, RestTyped
<1>2. RestTyped'
  BY <1>1, ReleasedTyped, RestFault DEF IInv, RestTyped, Crash, Ends, db
<1> QED BY <1>2, EndStep DEF Crash, db

-----------------------------------------------------------------------------
(* The lock, the hand-over and the world. *)

\* The states before the parse phase.
LEMMA EarlyStep ==
    ASSUME IInv, NEW p \in Procs, NEW r, proc' = [proc EXCEPT ![p] = r],
           UNCHANGED <<hash, edges, chunks, vectors, nextId>>, RestTyped', WatchOK', stray => stray',
           \A q \in Procs \ {p} : lock = q => lock' = q,
           DOMAIN r = Fields, r.pc \in {"acquire", "pid", "collect", "wait", "post"}, r.args \in Args,
           r.todo \subseteq r.visited, r.visited \subseteq Files,
           r.then \in {"tail", "post", "finish"}, QueueOK(r.queue),
           r.pc # "acquire" => lock' = p
    PROVE  IInv'
<1>1. QueueOK(r.queue)'
  BY DEF QueueOK
<1>2. ProcOK(p, r)'
  BY <1>1 DEF ProcOK, ShapeOK, LockOK, HashOK, DataOK, PCs, FileSteps, Alone, After
<1> QED BY <1>2, ProcStep

LEMMA StartInv ==
    ASSUME IInv, NEW p \in Procs, NEW m \in Modes, Start(p, m)
    PROVE  IInv'
<1> DEFINE r == Fresh("pid", m)
<1>1. /\ DOMAIN r = Fields /\ r.pc = "pid" /\ r.args = m
      /\ r.todo = {} /\ r.visited = {} /\ r.queue = {} /\ r.then = "tail"
  BY DEF Fresh, Fields
<1>2. /\ proc' = [proc EXCEPT ![p] = r] /\ lock = None /\ lock' = p
      /\ pidFile' = Forgotten(p) /\ watch' = [watch EXCEPT ![p] = "nobody"]
      /\ UNCHANGED <<hash, edges, owed, chunks, vectors, nextId, disk, embedder, faults, torn, stray>>
      /\ (m.force => edits < MaxEdits) /\ edits' = IF m.force THEN edits + 1 ELSE edits
  BY DEF Start, db
<1> HIDE DEF r
<1>3. m \in Args
  BY Constants DEF Args
<1>4. QueueOK(r.queue)
  BY <1>1 DEF QueueOK
<1>5. RestTyped'
  <2>1. edits' \in 0..MaxEdits
    BY <1>2, Constants DEF IInv, RestTyped
  <2> QED BY <1>2, <2>1, ReleasedTyped DEF IInv, RestTyped
<1>6. WatchOK'
  BY <1>2, ProcFrame, Constants DEF IInv, RestTyped, WatchOK, Forgotten
<1> QED BY <1>1, <1>2, <1>3, <1>4, <1>5, <1>6, EarlyStep, Constants

\* A spawned process that dies or finds the lock held before it had it.
LEMMA LoseStep ==
    ASSUME IInv, NEW p \in Procs, Ends(p), UNCHANGED <<hash, edges, chunks, vectors, nextId>>,
           watch' \in {watch, [watch EXCEPT ![p] = "nobody"]}, RestTyped', stray => stray'
    PROVE  IInv'
<1> DEFINE r == IdleProc
<1>1. /\ DOMAIN r = Fields /\ r.pc = "idle" /\ r.args = NoArgs
      /\ r.todo = {} /\ r.visited = {} /\ r.queue = {} /\ r.then = "tail"
  BY DEF IdleProc, Fresh, Fields
<1>2. proc' = [proc EXCEPT ![p] = r] /\ lock' = Released(p) /\ pidFile' \in {pidFile, None}
  BY DEF Ends, Forgotten
<1> HIDE DEF r
<1>3. ProcOK(p, r)'
  BY <1>1 DEF ProcOK, ShapeOK, LockOK, HashOK, DataOK, QueueOK, PCs, FileSteps, Alone, After,
              NoArgs, Args
<1>4. WatchOK'
  BY <1>1, <1>2, ProcFrame, Constants DEF IInv, RestTyped, WatchOK
<1>5. \A q \in Procs \ {p} : lock = q => lock' = q
  BY <1>2 DEF Released
<1> QED BY <1>2, <1>3, <1>4, <1>5, ProcStep

LEMMA TryAcquireInv ==
    ASSUME IInv, NEW p \in Procs, TryAcquire(p)
    PROVE  IInv'
<1>1. /\ DOMAIN proc[p] = Fields /\ ShapeOK(proc[p]) /\ proc[p].pc = "acquire"
      /\ UNCHANGED <<db, env>>
  BY Running DEF TryAcquire
<1>2. ASSUME lock = None, lock' = p, Goto(p, "pid"), UNCHANGED pidFile,
             watch' = [watch EXCEPT ![p] = IF @ = "waiting" THEN "took" ELSE @]
      PROVE  IInv'
  <2> DEFINE r == [proc[p] EXCEPT !.pc = "pid"]
  <2>1. proc' = [proc EXCEPT ![p] = r]
    BY <1>2 DEF IInv, Goto
  <2>2. /\ DOMAIN r = Fields /\ r.pc = "pid" /\ r.args = proc[p].args /\ r.todo = proc[p].todo
        /\ r.visited = proc[p].visited /\ r.queue = proc[p].queue /\ r.then = proc[p].then
    BY <1>1 DEF Fields
  <2> HIDE DEF r
  <2>4. /\ watch' \in [Procs -> {"nobody", "waiting", "took"}] /\ watch'[p] # "waiting"
        /\ \A q \in Procs \ {p} : watch'[q] = watch[q]
    BY <1>2 DEF IInv, RestTyped
  <2>5. RestTyped'
    BY <1>1, <1>2, <2>4, RestFault DEF IInv, RestTyped, env, db
  <2>6. WatchOK'
    BY <1>2, <2>1, <2>4, ProcFrame DEF IInv, WatchOK
  <2> QED BY <1>1, <1>2, <2>1, <2>2, <2>5, <2>6, EarlyStep, Constants DEF ShapeOK, env, db
<1>3. ASSUME Ends(p), watch' = [watch EXCEPT ![p] = "nobody"] PROVE IInv'
  <2>1. RestTyped'
    BY <1>1, <1>3, ReleasedTyped, RestFault DEF IInv, RestTyped, Ends, env, db
  <2> QED BY <1>1, <1>3, <2>1, LoseStep DEF env, db
<1> QED BY <1>2, <1>3 DEF TryAcquire

LEMMA CrashAcquireInv ==
    ASSUME IInv, NEW p \in Procs, Crash(p), proc[p].pc = "acquire"
    PROVE  IInv'
<1>1. UNCHANGED torn
  BY DEF Crash, FileSteps
<1>2. RestTyped'
  BY <1>1, ReleasedTyped, RestFault DEF IInv, RestTyped, Crash, Ends, db
<1> QED BY <1>2, LoseStep DEF Crash, db

\* With its pid written or not, a process turns to its work.
LEMMA DispatchStep ==
    ASSUME IInv, NEW p \in Procs, proc[p].pc = "pid", Dispatch(p), pidFile' \in {pidFile, p},
           UNCHANGED <<db, disk, embedder, edits, torn, stray, lock, watch>>,
           Faulty \/ UNCHANGED faults
    PROVE  IInv'
<1>1. DOMAIN proc[p] = Fields /\ ShapeOK(proc[p]) /\ LockOK(p, proc[p])
  BY Running
<1> DEFINE pc == CASE proc[p].args.kind = "index" -> "collect"
                   [] proc[p].args.kind = "embed" -> "wait"
                   [] OTHER -> "post"
           r == [proc[p] EXCEPT !.pc = pc]
<1>2. proc' = [proc EXCEPT ![p] = r]
  BY DEF IInv, Dispatch, Goto
<1>3. pc \in {"collect", "wait", "post"}
  OBVIOUS
<1> HIDE DEF pc
<1>4. /\ DOMAIN r = Fields /\ r.pc = pc /\ r.args = proc[p].args /\ r.todo = proc[p].todo
      /\ r.visited = proc[p].visited /\ r.queue = proc[p].queue /\ r.then = proc[p].then
  BY <1>1 DEF Fields
<1> HIDE DEF r
<1>5. lock = p /\ lock' = p
  BY <1>1 DEF LockOK, Alone
<1>6. RestTyped'
  BY RestFault DEF IInv, RestTyped, db
<1>7. WatchOK'
  BY <1>2, ProcFrame DEF IInv, WatchOK
<1> QED BY <1>1, <1>2, <1>3, <1>4, <1>5, <1>6, <1>7, EarlyStep DEF ShapeOK, db

LEMMA WritePidInv ==
    ASSUME IInv, NEW p \in Procs, WritePid(p)
    PROVE  IInv'
BY DispatchStep DEF WritePid, env

LEMMA PidLostInv ==
    ASSUME IInv, NEW p \in Procs, PidLost(p)
    PROVE  IInv'
BY DispatchStep DEF PidLost

LEMMA SpawnInv ==
    ASSUME IInv, NEW p \in Procs, Spawn(p)
    PROVE  IInv'
<1>1. /\ ShapeOK(proc[p]) /\ pidFile' = Forgotten(p) /\ watch' = [watch EXCEPT ![p] = "waiting"]
      /\ UNCHANGED <<db, env, lock>>
  BY Running DEF Spawn
<1> DEFINE a == ChildArgs(ChildKind(p), proc[p].args)
           r == Fresh("acquire", a)
<1>2. proc' = [proc EXCEPT ![p] = r]
  BY DEF Spawn
<1>3. a \in Args
  BY <1>1 DEF ShapeOK, Args, ChildArgs, ChildKind
<1> HIDE DEF a
<1>4. /\ DOMAIN r = Fields /\ r.pc = "acquire" /\ r.args = a
      /\ r.todo = {} /\ r.visited = {} /\ r.queue = {} /\ r.then = "tail"
  BY DEF Fresh, Fields
<1> HIDE DEF r
<1>5. QueueOK(r.queue)
  BY <1>4 DEF QueueOK
<1>6. RestTyped'
  BY <1>1, ReleasedTyped, RestFault DEF IInv, RestTyped, env, db
<1>7. WatchOK'
  BY <1>1, <1>2, <1>4, ProcFrame, Constants DEF IInv, RestTyped, WatchOK, Forgotten
<1> QED BY <1>1, <1>2, <1>3, <1>4, <1>5, <1>6, <1>7, EarlyStep DEF env, db

\* No process moves and no row changes.
LEMMA WorldStep ==
    ASSUME IInv, UNCHANGED <<hash, edges, chunks, vectors, nextId, lock, proc, stray>>,
           RestTyped', WatchOK'
    PROVE  IInv'
<1>1. \A q \in Procs : ProcOK(q, proc[q])'
  BY DEF IInv, ProcOK, ShapeOK, LockOK, HashOK, DataOK, QueueOK, IdsOf, Text
<1>2. RowsTyped' /\ EdgesOK'
  BY DEF IInv, RowsTyped, EdgesOK, Chunk
<1>3. VectorsBelong' /\ RefinedVectors'
  BY DEF IInv, VectorsBelong, RefinedVectors, IdsOf, Text, Kind
<1> QED BY <1>1, <1>2, <1>3 DEF IInv

LEMMA UnwatchedInv ==
    ASSUME IInv, NEW p \in Procs, Unwatched(p)
    PROVE  IInv'
<1>1. RestTyped'
  BY ReleasedTyped, RestFault DEF IInv, RestTyped, Unwatched, env, db
<1>2. WatchOK'
  BY Constants DEF IInv, RestTyped, WatchOK, Unwatched, Forgotten
<1> QED BY <1>1, <1>2, WorldStep DEF Unwatched, env, db

LEMMA EditInv ==
    ASSUME IInv, NEW f \in Files, NEW v \in Versions \cup {Absent}, Edit(f, v)
    PROVE  IInv'
<1>1. RestTyped'
  <2>1. disk' \in [Files -> Versions \cup {Absent}]
    BY DEF IInv, RestTyped, Edit
  <2>2. edits' \in 0..MaxEdits
    BY Constants DEF IInv, RestTyped, Edit
  <2> QED BY <2>1, <2>2 DEF IInv, RestTyped, Edit, db
<1>2. WatchOK'
  BY DEF IInv, WatchOK, Edit
<1> QED BY <1>1, <1>2, WorldStep DEF Edit, db

LEMMA EmbedderInv ==
    ASSUME IInv, EmbedderUp \/ EmbedderDown
    PROVE  IInv'
<1>1. RestTyped'
  <2>1. embedder' \in {"ready", "loading", "off"} /\ faults' \in 0..MaxFaults
    BY Constants DEF IInv, RestTyped, EmbedderUp, EmbedderDown, Faulty
  <2> QED BY <2>1 DEF IInv, RestTyped, EmbedderUp, EmbedderDown, db
<1>2. WatchOK'
  BY DEF IInv, WatchOK, EmbedderUp, EmbedderDown
<1> QED BY <1>1, <1>2, WorldStep DEF EmbedderUp, EmbedderDown, db

\* An upgrade finds no process at work.
LEMMA UpgradeInv ==
    ASSUME IInv, Upgrade
    PROVE  IInv'
<1>1. \A q \in Procs : proc[q].pc = "idle"
  BY DEF Upgrade, Idle
<1>2. \A q \in Procs : ProcOK(q, proc[q])'
  BY <1>1 DEF IInv, ProcOK, ShapeOK, LockOK, HashOK, DataOK, QueueOK, FileSteps, Alone, After, Upgrade
<1>3. RowsTyped' /\ EdgesOK'
  BY DEF IInv, RowsTyped, EdgesOK, Chunk, Upgrade
<1>4. VectorsBelong' /\ RefinedVectors'
  BY DEF IInv, VectorsBelong, RefinedVectors, IdsOf, Text, Kind, Upgrade
<1>5. RestTyped' /\ WatchOK'
  <2>1. edits' \in 0..MaxEdits
    BY Constants DEF IInv, RestTyped, Upgrade
  <2> QED BY <2>1 DEF IInv, RestTyped, WatchOK, Upgrade
<1> QED BY <1>2, <1>3, <1>4, <1>5 DEF IInv, Upgrade

-----------------------------------------------------------------------------
(* The parse phase.  Its process has the lock, and it has seen every row it replaces. *)

LEMMA CollectInv ==
    ASSUME IInv, NEW p \in Procs, Collect(p)
    PROVE  IInv'
<1>1. /\ DOMAIN proc[p] = Fields /\ ShapeOK(proc[p]) /\ LockOK(p, proc[p]) /\ proc[p].pc = "collect"
      /\ UNCHANGED <<db, env, lock, pidFile, watch>>
  BY Running DEF Collect
<1> DEFINE found == {f \in Files : disk[f] # Absent}
           pc == IF found = {} THEN "summarise" ELSE "walk"
           re == owed /\ found # {}
<1>2. /\ proc' = [proc EXCEPT ![p].pc = pc, ![p].visited = found, ![p].todo = found, ![p].reextract = re]
      /\ found \subseteq Files /\ pc \in {"summarise", "walk"}
  BY DEF Collect
<1> HIDE DEF found, pc, re
<1>3. PICK r : /\ r = [proc[p] EXCEPT !.pc = pc, !.visited = found, !.todo = found, !.reextract = re]
               /\ proc' = [proc EXCEPT ![p] = r]
  BY <1>2 DEF IInv
<1>4. /\ DOMAIN r = Fields /\ r.pc \in {"summarise", "walk"} /\ r.args = proc[p].args
      /\ r.visited \subseteq Files /\ r.todo = r.visited
      /\ r.queue = proc[p].queue /\ r.then = proc[p].then
  BY <1>1, <1>2, <1>3 DEF Fields
<1>5. ProcOK(p, r)'
  BY <1>1, <1>4
     DEF ProcOK, ShapeOK, LockOK, HashOK, DataOK, QueueOK, PCs, FileSteps, Alone, After, db
<1>6. RestTyped'
  BY <1>1, RestFault DEF IInv, RestTyped, env, db
<1> QED BY <1>1, <1>3, <1>5, <1>6, RunStep DEF env, db

LEMMA StaleFileInv ==
    ASSUME IInv, NEW p \in Procs, NEW f \in Files, StaleFile(p, f)
    PROVE  IInv'
<1>1. /\ DOMAIN proc[p] = Fields /\ ShapeOK(proc[p]) /\ LockOK(p, proc[p]) /\ HashOK(proc[p])
      /\ proc[p].pc = "walk" /\ f \notin proc[p].visited
      /\ UNCHANGED <<db, env, lock, pidFile, watch>>
  BY Running DEF StaleFile
<1>2. PICK r : r = [proc[p] EXCEPT !.pc = "dropvectors", !.file = f] /\ proc' = [proc EXCEPT ![p] = r]
  BY DEF IInv, StaleFile
<1>3. /\ DOMAIN r = Fields /\ r.pc = "dropvectors" /\ r.args = proc[p].args /\ r.file = f
      /\ r.visited = proc[p].visited /\ r.todo = proc[p].todo /\ r.unread = proc[p].unread
      /\ r.reextract = proc[p].reextract /\ r.queue = proc[p].queue /\ r.then = proc[p].then
  BY <1>1, <1>2 DEF Fields
<1>4. ShapeOK(r)' /\ LockOK(p, r)' /\ DataOK(r)'
  BY <1>1, <1>3 DEF ShapeOK, LockOK, DataOK, QueueOK, PCs, FileSteps, Alone, After, db
<1>5. HashOK(r)'
  BY <1>1, <1>3 DEF HashOK, FileSteps, db
<1>6. RestTyped'
  BY <1>1, RestFault DEF IInv, RestTyped, env, db
<1> QED BY <1>1, <1>2, <1>4, <1>5, <1>6, RunStep DEF ProcOK, env, db

LEMMA EndParseInv ==
    ASSUME IInv, NEW p \in Procs, EndParse(p)
    PROVE  IInv'
<1>1. /\ ShapeOK(proc[p]) /\ LockOK(p, proc[p]) /\ proc[p].pc = "walk"
      /\ owed' = (owed /\ ~proc[p].reextract)
      /\ UNCHANGED <<hash, edges, chunks, vectors, nextId, env, lock, pidFile, watch>>
  BY Running DEF EndParse
<1> DEFINE a == proc[p].args  n == proc[p].indexed
<1>2. PICK r : r = [Fresh("summarise", a) EXCEPT !.indexed = n] /\ proc' = [proc EXCEPT ![p] = r]
  BY DEF IInv, EndParse
<1>3. /\ DOMAIN r = Fields /\ r.pc = "summarise" /\ r.args = a
      /\ r.todo = {} /\ r.visited = {} /\ r.queue = {} /\ r.then = "tail"
  BY <1>2 DEF Fresh, Fields
<1>4. RestTyped'
  <2>1. owed' \in BOOLEAN
    BY <1>1
  <2> QED BY <1>1, <2>1 DEF IInv, RestTyped, env
<1> QED BY <1>1, <1>2, <1>3, <1>4, LateStep DEF ShapeOK, Late, Alone, After, FileSteps, env

\* What a step of the parse phase has to show of the process itself.
LEMMA WalkStep ==
    ASSUME IInv, NEW p \in Procs, proc[p].pc \in FileSteps \cup {"walk"},
           NEW r, proc' = [proc EXCEPT ![p] = r], DOMAIN r = Fields, r.args = proc[p].args,
           r.visited = proc[p].visited, r.todo \subseteq proc[p].todo, r.queue = proc[p].queue,
           r.then = proc[p].then, r.pc \in FileSteps \cup {"walk"},
           r.pc \in FileSteps => r.file \in Files,
           r.pc = "store" => r.part \in Nat \ {0},
           UNCHANGED <<watch, pidFile, lock, stray, disk, embedder, edits, faults, owed>>,
           torn' \subseteq Files,
           RowsTyped', nextId' >= nextId, EdgesOK', VectorsBelong', RefinedVectors',
           HashOK(r)', DataOK(r)'
    PROVE  IInv'
<1>1. ShapeOK(proc[p]) /\ lock = p /\ nextId \in Nat
  BY Running DEF LockOK, Alone, RowsTyped
<1>2. QueueOK(r.queue)'
  BY <1>1 DEF ShapeOK, QueueOK, RowsTyped
<1>3. ProcOK(p, r)'
  BY <1>1, <1>2 DEF ProcOK, ShapeOK, LockOK, PCs, FileSteps, Alone, After
<1>4. RestTyped'
  BY RestFault DEF IInv, RestTyped
<1>5. proc[p].pc \notin {"idle", "acquire"}
  BY DEF FileSteps
<1> QED BY <1>1, <1>3, <1>4, <1>5, RowStep

LEMMA RowsSame ==
    ASSUME IInv, UNCHANGED <<hash, edges, chunks, vectors, nextId, stray>>
    PROVE  /\ RowsTyped' /\ EdgesOK' /\ VectorsBelong' /\ RefinedVectors' /\ nextId' >= nextId
<1>1. RowsTyped' /\ EdgesOK' /\ nextId' >= nextId
  BY DEF IInv, RowsTyped, EdgesOK, Chunk
<1> QED BY <1>1 DEF IInv, VectorsBelong, RefinedVectors, IdsOf, Text, Kind

LEMMA ReadFileInv ==
    ASSUME IInv, NEW p \in Procs, NEW f \in Files, ReadFile(p, f)
    PROVE  IInv'
<1>1. /\ DOMAIN proc[p] = Fields /\ ShapeOK(proc[p]) /\ HashOK(proc[p])
      /\ proc[p].pc = "walk" /\ f \in proc[p].todo
      /\ UNCHANGED <<disk, embedder, edits, faults, stray, lock, pidFile, watch>>
  BY Running DEF ReadFile
<1>2. /\ RowsTyped /\ RestTyped /\ EdgesOK /\ VectorsBelong /\ RefinedVectors
  BY DEF IInv
<1>3. ASSUME proc' = [proc EXCEPT ![p].todo = @ \ {f}, ![p].unread = @ \cup {f}],
             UNCHANGED <<db, torn>>
      PROVE  IInv'
  <2> DEFINE T == proc[p].todo \ {f}  U == proc[p].unread \cup {f}
  <2>1. PICK r : r = [proc[p] EXCEPT !.todo = T, !.unread = U] /\ proc' = [proc EXCEPT ![p] = r]
    BY <1>3 DEF IInv
  <2>2. /\ DOMAIN r = Fields /\ r.pc = "walk" /\ r.args = proc[p].args /\ r.file = proc[p].file
        /\ r.visited = proc[p].visited /\ r.todo = T /\ r.unread = U
        /\ r.reextract = proc[p].reextract /\ r.queue = proc[p].queue /\ r.then = proc[p].then
    BY <1>1, <2>1 DEF Fields
  <2>3. HashOK(r)' /\ DataOK(r)'
    BY <1>1, <1>3, <2>2 DEF HashOK, DataOK, FileSteps, db
  <2>4. RowsTyped' /\ EdgesOK' /\ VectorsBelong' /\ RefinedVectors' /\ nextId' >= nextId
    BY <1>1, <1>3, RowsSame DEF db
  <2> QED BY <1>1, <1>2, <1>3, <2>1, <2>2, <2>3, <2>4, WalkStep DEF RestTyped, FileSteps, db
<1>4. ASSUME disk[f] # Absent, Unchanged(p, f), edges' = Reextracted(p, f),
             proc' = [proc EXCEPT ![p].todo = @ \ {f}],
             UNCHANGED <<hash, owed, chunks, vectors, nextId, torn>>
      PROVE  IInv'
  <2> DEFINE T == proc[p].todo \ {f}
  <2>1. PICK r : r = [proc[p] EXCEPT !.todo = T] /\ proc' = [proc EXCEPT ![p] = r]
    BY <1>4 DEF IInv
  <2>2. /\ DOMAIN r = Fields /\ r.pc = "walk" /\ r.args = proc[p].args /\ r.file = proc[p].file
        /\ r.visited = proc[p].visited /\ r.todo = T /\ r.unread = proc[p].unread
        /\ r.reextract = proc[p].reextract /\ r.queue = proc[p].queue /\ r.then = proc[p].then
    BY <1>1, <2>1 DEF Fields
  <2>3. /\ edges' \in [Files -> {"none", "old", "new"}]
        /\ \A g \in Files \ {f} : edges'[g] = edges[g]
        /\ edges'[f] = edges[f] \/ (edges'[f] = "new" /\ f \notin DocFiles)
        /\ proc[p].reextract => edges'[f] # "old"
    BY <1>2, <1>4, Constants DEF Reextracted, RowsTyped, EdgesOK
  <2>4. hash[f] # Absent
    BY <1>4 DEF Unchanged
  <2>5. HashOK(r)' /\ DataOK(r)'
    BY <1>1, <2>2, <2>3 DEF HashOK, DataOK, ShapeOK, FileSteps
  <2>6. RowsTyped' /\ nextId' >= nextId
    BY <1>2, <1>4, <2>3 DEF RowsTyped, Chunk
  <2>7. EdgesOK'
    BY <1>2, <1>4, <2>3, <2>4 DEF EdgesOK
  <2>8. VectorsBelong' /\ RefinedVectors'
    BY <1>1, <1>2, <1>4 DEF VectorsBelong, RefinedVectors, IdsOf, Text, Kind
  <2> QED BY <1>1, <1>2, <1>4, <2>1, <2>2, <2>5, <2>6, <2>7, <2>8, WalkStep DEF RestTyped, FileSteps
<1>5. ASSUME disk[f] # Absent, hash' = [hash EXCEPT ![f] = disk[f]], torn' = torn \ {f},
             proc' = [proc EXCEPT ![p].pc = "dropvectors", ![p].file = f],
             UNCHANGED <<edges, owed, chunks, vectors, nextId>>
      PROVE  IInv'
  <2>1. PICK r : r = [proc[p] EXCEPT !.pc = "dropvectors", !.file = f] /\ proc' = [proc EXCEPT ![p] = r]
    BY <1>5 DEF IInv
  <2>2. /\ DOMAIN r = Fields /\ r.pc = "dropvectors" /\ r.args = proc[p].args /\ r.file = f
        /\ r.visited = proc[p].visited /\ r.todo = proc[p].todo /\ r.unread = proc[p].unread
        /\ r.reextract = proc[p].reextract /\ r.queue = proc[p].queue /\ r.then = proc[p].then
    BY <1>1, <2>1 DEF Fields
  <2>3. /\ hash' \in [Files -> Versions \cup {Absent}] /\ hash'[f] # Absent
        /\ \A g \in Files \ {f} : hash'[g] = hash[g]
    BY <1>2, <1>5 DEF RowsTyped, RestTyped
  <2>4. HashOK(r)' /\ DataOK(r)'
    BY <1>1, <1>5, <2>2, <2>3 DEF HashOK, DataOK, ShapeOK, FileSteps
  <2>5. RowsTyped' /\ nextId' >= nextId
    BY <1>2, <1>5, <2>3 DEF RowsTyped, Chunk
  <2>6. EdgesOK'
    BY <1>2, <1>5, <2>3 DEF EdgesOK
  <2>7. VectorsBelong' /\ RefinedVectors'
    BY <1>1, <1>2, <1>5 DEF VectorsBelong, RefinedVectors, IdsOf, Text, Kind
  <2> QED BY <1>1, <1>2, <1>5, <2>1, <2>2, <2>4, <2>5, <2>6, <2>7, WalkStep DEF RestTyped, FileSteps
<1> QED BY <1>3, <1>4, <1>5 DEF ReadFile

LEMMA DropVectorsInv ==
    ASSUME IInv, NEW p \in Procs, DropVectors(p)
    PROVE  IInv'
<1>1. /\ DOMAIN proc[p] = Fields /\ ShapeOK(proc[p]) /\ HashOK(proc[p]) /\ proc[p].pc = "dropvectors"
      /\ UNCHANGED <<hash, edges, owed, chunks, nextId, env, lock, pidFile, watch>>
      /\ vectors' = {v \in vectors : v.id \notin IdsOf(ChunksOf(proc[p].file))}
  BY Running DEF DropVectors
<1>2. /\ RowsTyped /\ RestTyped /\ EdgesOK /\ VectorsBelong /\ RefinedVectors
  BY DEF IInv
<1>3. PICK r : r = [proc[p] EXCEPT !.pc = "dropchunks"] /\ proc' = [proc EXCEPT ![p] = r]
  BY DEF IInv, DropVectors, Goto
<1>4. /\ DOMAIN r = Fields /\ r.pc = "dropchunks" /\ r.args = proc[p].args /\ r.file = proc[p].file
      /\ r.visited = proc[p].visited /\ r.todo = proc[p].todo /\ r.unread = proc[p].unread
      /\ r.reextract = proc[p].reextract /\ r.queue = proc[p].queue /\ r.then = proc[p].then
  BY <1>1, <1>3 DEF Fields
<1>5. HashOK(r)'
  BY <1>1, <1>4 DEF HashOK, FileSteps
<1>6. DataOK(r)'
  BY <1>1, <1>4 DEF DataOK, IdsOf, ChunksOf
<1>7. RowsTyped' /\ EdgesOK' /\ nextId' >= nextId
  BY <1>1, <1>2 DEF RowsTyped, Chunk, EdgesOK
<1>8. VectorsBelong' /\ RefinedVectors'
  BY <1>1, <1>2 DEF VectorsBelong, RefinedVectors, IdsOf, Text, Kind, env
<1> QED BY <1>1, <1>2, <1>3, <1>4, <1>5, <1>6, <1>7, <1>8, WalkStep DEF RestTyped, ShapeOK, FileSteps, env

LEMMA DropChunksInv ==
    ASSUME IInv, NEW p \in Procs, DropChunks(p)
    PROVE  IInv'
<1>1. /\ DOMAIN proc[p] = Fields /\ ShapeOK(proc[p]) /\ HashOK(proc[p]) /\ DataOK(proc[p])
      /\ proc[p].pc = "dropchunks"
      /\ UNCHANGED <<hash, edges, owed, vectors, nextId, env, lock, pidFile, watch>>
      /\ chunks' = chunks \ ChunksOf(proc[p].file)
  BY Running DEF DropChunks
<1>2. /\ RowsTyped /\ RestTyped /\ EdgesOK /\ VectorsBelong /\ RefinedVectors
  BY DEF IInv
<1> DEFINE pc == IF proc[p].file \in proc[p].visited THEN "edges" ELSE "droprow"
<1>3. PICK r : r = [proc[p] EXCEPT !.pc = pc] /\ proc' = [proc EXCEPT ![p] = r]
  BY DEF IInv, DropChunks, Goto
<1>4. /\ DOMAIN r = Fields /\ r.pc = pc /\ r.args = proc[p].args /\ r.file = proc[p].file
      /\ r.visited = proc[p].visited /\ r.todo = proc[p].todo /\ r.unread = proc[p].unread
      /\ r.reextract = proc[p].reextract /\ r.queue = proc[p].queue /\ r.then = proc[p].then
  BY <1>1, <1>3 DEF Fields
<1>5. HashOK(r)' /\ DataOK(r)'
  BY <1>1, <1>4 DEF HashOK, DataOK, FileSteps
<1>6. RowsTyped' /\ EdgesOK' /\ nextId' >= nextId
  BY <1>1, <1>2 DEF RowsTyped, Chunk, EdgesOK
<1>7. VectorsBelong'
  <2> SUFFICES ASSUME ~stray, NEW v \in vectors PROVE \E c \in chunks' : c.id = v.id
    BY <1>1 DEF VectorsBelong, IdsOf, env
  <2>1. PICK c \in chunks : c.id = v.id
    BY <1>2 DEF VectorsBelong, IdsOf
  <2>2. c.file # proc[p].file
    BY <1>1, <2>1 DEF DataOK
  <2> QED BY <1>1, <2>1, <2>2 DEF ChunksOf
<1>8. RefinedVectors'
  BY <1>1, <1>2 DEF RefinedVectors, Text, Kind, env
<1>9. r.pc \in FileSteps \cup {"walk"} /\ r.pc # "store"
  BY <1>4 DEF FileSteps
<1> QED BY <1>1, <1>2, <1>3, <1>4, <1>5, <1>6, <1>7, <1>8, <1>9, WalkStep
    DEF RestTyped, ShapeOK, FileSteps, env

LEMMA DropRowInv ==
    ASSUME IInv, NEW p \in Procs, DropRow(p)
    PROVE  IInv'
<1>1. /\ DOMAIN proc[p] = Fields /\ ShapeOK(proc[p]) /\ HashOK(proc[p]) /\ proc[p].pc = "droprow"
      /\ proc[p].file \in Files
      /\ UNCHANGED <<owed, chunks, vectors, nextId, disk, embedder, edits, faults, stray, lock, pidFile, watch>>
      /\ edges' = [edges EXCEPT ![proc[p].file] = "none"]
      /\ hash' = [hash EXCEPT ![proc[p].file] = Absent]
      /\ torn' = torn \ {proc[p].file}
  BY Running DEF DropRow, ShapeOK, FileSteps
<1>2. /\ RowsTyped /\ RestTyped /\ EdgesOK /\ VectorsBelong /\ RefinedVectors
  BY DEF IInv
<1>3. PICK r : r = [proc[p] EXCEPT !.pc = "walk", !.file = None] /\ proc' = [proc EXCEPT ![p] = r]
  BY DEF IInv, DropRow
<1>4. /\ DOMAIN r = Fields /\ r.pc = "walk" /\ r.args = proc[p].args
      /\ r.visited = proc[p].visited /\ r.todo = proc[p].todo /\ r.unread = proc[p].unread
      /\ r.reextract = proc[p].reextract /\ r.queue = proc[p].queue /\ r.then = proc[p].then
  BY <1>1, <1>3 DEF Fields
<1>5. /\ edges' \in [Files -> {"none", "old", "new"}] /\ hash' \in [Files -> Versions \cup {Absent}]
      /\ edges'[proc[p].file] = "none"
      /\ \A g \in Files \ {proc[p].file} : edges'[g] = edges[g] /\ hash'[g] = hash[g]
  BY <1>1, <1>2 DEF RowsTyped
<1>6. HashOK(r)' /\ DataOK(r)'
  BY <1>1, <1>4, <1>5 DEF HashOK, DataOK, ShapeOK, FileSteps
<1>7. RowsTyped' /\ EdgesOK' /\ nextId' >= nextId
  BY <1>1, <1>2, <1>5 DEF RowsTyped, Chunk, EdgesOK
<1>8. VectorsBelong' /\ RefinedVectors'
  BY <1>1, <1>2 DEF VectorsBelong, RefinedVectors, IdsOf, Text, Kind
<1> QED BY <1>1, <1>2, <1>3, <1>4, <1>6, <1>7, <1>8, WalkStep DEF RestTyped, ShapeOK, FileSteps

LEMMA StoreEdgesInv ==
    ASSUME IInv, NEW p \in Procs, StoreEdges(p)
    PROVE  IInv'
<1>1. /\ DOMAIN proc[p] = Fields /\ ShapeOK(proc[p]) /\ HashOK(proc[p]) /\ proc[p].pc = "edges"
      /\ proc[p].file \in Files /\ hash[proc[p].file] # Absent /\ proc[p].file \in proc[p].visited
      /\ UNCHANGED <<hash, owed, chunks, vectors, nextId, env, lock, pidFile, watch>>
  BY Running DEF StoreEdges, ShapeOK, HashOK, FileSteps
<1>2. /\ RowsTyped /\ RestTyped /\ EdgesOK /\ VectorsBelong /\ RefinedVectors
  BY DEF IInv
<1>3. PICK r : r = [proc[p] EXCEPT !.pc = "store", !.part = 1] /\ proc' = [proc EXCEPT ![p] = r]
  BY DEF IInv, StoreEdges
<1>4. /\ DOMAIN r = Fields /\ r.pc = "store" /\ r.args = proc[p].args /\ r.file = proc[p].file
      /\ r.visited = proc[p].visited /\ r.todo = proc[p].todo /\ r.unread = proc[p].unread
      /\ r.reextract = proc[p].reextract /\ r.queue = proc[p].queue /\ r.then = proc[p].then
      /\ r.part = 1
  BY <1>1, <1>3 DEF Fields
<1> DEFINE f == proc[p].file
<1>5. /\ edges' \in [Files -> {"none", "old", "new"}] /\ edges'[f] # "old"
      /\ f \in DocFiles => edges'[f] = "none"
      /\ \A g \in Files \ {f} : edges'[g] = edges[g]
  BY <1>1, <1>2 DEF RowsTyped, EdgesOK, StoreEdges
<1>6. HashOK(r)' /\ DataOK(r)'
  BY <1>1, <1>4, <1>5 DEF HashOK, DataOK, ShapeOK, FileSteps
<1>7. RowsTyped' /\ EdgesOK' /\ nextId' >= nextId
  BY <1>1, <1>2, <1>5 DEF RowsTyped, Chunk, EdgesOK
<1>8. VectorsBelong' /\ RefinedVectors'
  BY <1>1, <1>2 DEF VectorsBelong, RefinedVectors, IdsOf, Text, Kind, env
<1>9. /\ r.pc \in FileSteps \cup {"walk"} /\ proc[p].pc \in FileSteps \cup {"walk"} /\ r.file \in Files
      /\ r.part \in Nat \ {0} /\ r.todo \subseteq proc[p].todo /\ torn' \subseteq Files
  BY <1>1, <1>2, <1>4 DEF FileSteps, RestTyped, env
<1> QED BY <1>1, <1>2, <1>3, <1>4, <1>6, <1>7, <1>8, <1>9, WalkStep DEF env

LEMMA StoreChunkInv ==
    ASSUME IInv, NEW p \in Procs, StoreChunk(p)
    PROVE  IInv'
<1> DEFINE f == proc[p].file  v == hash[f]  k == proc[p].part
<1>1. /\ DOMAIN proc[p] = Fields /\ ShapeOK(proc[p]) /\ HashOK(proc[p]) /\ proc[p].pc = "store"
      /\ f \in Files /\ v # Absent /\ f \in proc[p].visited /\ edges[f] # "old" /\ k \in Nat \ {0}
      /\ UNCHANGED <<hash, edges, owed, vectors, env, lock, pidFile, watch>>
  BY Running DEF StoreChunk, ShapeOK, HashOK, FileSteps
<1>2. /\ RowsTyped /\ RestTyped /\ EdgesOK /\ VectorsBelong /\ RefinedVectors
  BY DEF IInv
<1>3. ASSUME chunks' = chunks \cup {NewChunk(f, v, k)}, nextId' = nextId + 1,
             proc' = [proc EXCEPT ![p].part = k + 1]
      PROVE  IInv'
  <2>1. PICK r : r = [proc[p] EXCEPT !.part = k + 1] /\ proc' = [proc EXCEPT ![p] = r]
    BY <1>3 DEF IInv
  <2>2. /\ DOMAIN r = Fields /\ r.pc = "store" /\ r.args = proc[p].args /\ r.file = f
        /\ r.visited = proc[p].visited /\ r.todo = proc[p].todo /\ r.unread = proc[p].unread
        /\ r.reextract = proc[p].reextract /\ r.queue = proc[p].queue /\ r.then = proc[p].then
        /\ r.part = k + 1
    BY <1>1, <2>1 DEF Fields
  <2>3. HashOK(r)' /\ DataOK(r)'
    BY <1>1, <2>2 DEF HashOK, DataOK, FileSteps
  <2>4. PICK n : n = NewChunk(f, v, k)
    OBVIOUS
  <2>5. /\ n \in Chunk' /\ n.id = nextId /\ chunks' = chunks \cup {n}
    <3>1. v \in Versions /\ nextId \in Nat \ {0}
      BY <1>1, <1>2 DEF RowsTyped
    <3> QED BY <1>1, <1>3, <2>4, <3>1 DEF NewChunk, Chunk
  <2>6. RowsTyped'
    <3>1. /\ nextId \in Nat \ {0} /\ chunks \subseteq Chunk
          /\ \A c \in chunks : c.id < nextId /\ (\A d \in chunks : c.id = d.id => c = d)
          /\ \A w \in vectors : w.id \in Nat /\ w.id < nextId /\ (\A u \in vectors : w.id = u.id => w = u)
      BY <1>2 DEF RowsTyped
    <3>2. Chunk \subseteq Chunk'
      BY <1>3, <3>1 DEF Chunk
    <3>3. chunks' \subseteq Chunk'
      BY <2>5, <3>1, <3>2
    <3>4. \A c \in chunks : c.id \in Nat
      BY <3>1 DEF Chunk
    <3>5. \A c \in chunks' : c.id < nextId' /\ (\A d \in chunks' : c.id = d.id => c = d)
      BY <1>3, <2>5, <3>1, <3>4
    <3>6. \A w \in vectors' : w.id \in Nat /\ w.id < nextId' /\ (\A u \in vectors' : w.id = u.id => w = u)
      BY <1>1, <1>3, <3>1
    <3>7. /\ nextId' \in Nat \ {0} /\ hash' \in [Files -> Versions \cup {Absent}]
          /\ edges' \in [Files -> {"none", "old", "new"}]
      BY <1>1, <1>2, <1>3, <3>1 DEF RowsTyped
    <3> QED BY <3>3, <3>5, <3>6, <3>7 DEF RowsTyped
  <2>7. EdgesOK' /\ nextId' >= nextId
    BY <1>1, <1>2, <1>3 DEF EdgesOK, RowsTyped
  <2>8. VectorsBelong'
    BY <1>1, <1>2, <2>5 DEF VectorsBelong, IdsOf, env
  <2>9. RefinedVectors'
    BY <1>1, <1>2, <2>5 DEF RowsTyped, RefinedVectors, Text, Kind, env
  <2>10. /\ r.pc \in FileSteps \cup {"walk"} /\ proc[p].pc \in FileSteps \cup {"walk"}
         /\ r.file \in Files /\ r.part \in Nat \ {0} /\ r.todo \subseteq proc[p].todo
         /\ torn' \subseteq Files
    BY <1>1, <1>2, <2>2 DEF FileSteps, RestTyped, env
  <2> QED BY <1>1, <2>1, <2>2, <2>3, <2>6, <2>7, <2>8, <2>9, <2>10, WalkStep DEF env
<1>4. ASSUME proc' = [proc EXCEPT ![p].pc = "walk", ![p].todo = @ \ {f}, ![p].file = None, ![p].part = 0,
                                  ![p].indexed = Min({@ + 1, BigRun + 1})],
             UNCHANGED <<chunks, nextId>>
      PROVE  IInv'
  <2> DEFINE T == proc[p].todo \ {f}  N == Min({proc[p].indexed + 1, BigRun + 1})
  <2>1. PICK r : /\ r = [proc[p] EXCEPT !.pc = "walk", !.todo = T, !.file = None, !.part = 0, !.indexed = N]
                 /\ proc' = [proc EXCEPT ![p] = r]
    BY <1>4 DEF IInv
  <2>2. /\ DOMAIN r = Fields /\ r.pc = "walk" /\ r.args = proc[p].args
        /\ r.visited = proc[p].visited /\ r.todo = T /\ r.unread = proc[p].unread
        /\ r.reextract = proc[p].reextract /\ r.queue = proc[p].queue /\ r.then = proc[p].then
    BY <1>1, <2>1 DEF Fields
  <2>3. HashOK(r)' /\ DataOK(r)'
    BY <1>1, <2>2 DEF HashOK, DataOK, FileSteps
  <2>4. RowsTyped' /\ EdgesOK' /\ VectorsBelong' /\ RefinedVectors' /\ nextId' >= nextId
    BY <1>1, <1>4, RowsSame DEF env
  <2> QED BY <1>1, <1>2, <2>1, <2>2, <2>3, <2>4, WalkStep DEF RestTyped, ShapeOK, FileSteps, env
<1> QED BY <1>3, <1>4 DEF StoreChunk

-----------------------------------------------------------------------------
(* Summaries and vectors. *)

\* What writing a summary does to the chunk rows.
LEMMA WithSummaryRows ==
    ASSUME RowsTyped, NEW i, NEW s \in {"null", "empty", "set"}, NEW u \in BOOLEAN
    PROVE  /\ WithSummary(i, s, u) \subseteq Chunk
           /\ \A d \in WithSummary(i, s, u) :
                 /\ \E c \in chunks : /\ d.id = c.id /\ Kind(d) = Kind(c)
                                      /\ c.id # i => d = c
                                      /\ c.id = i => d.summary = s /\ d.pending = (c.pending \/ u)
                 /\ \A e \in WithSummary(i, s, u) : d.id = e.id => d = e
           /\ IdsOf(WithSummary(i, s, u)) = IdsOf(chunks)
<1> DEFINE W(c) == IF c.id = i THEN [c EXCEPT !.summary = s, !.pending = @ \/ u] ELSE c
<1>1. WithSummary(i, s, u) = {W(c) : c \in chunks}
  BY DEF WithSummary
<1>2. ASSUME NEW c \in chunks
      PROVE  /\ W(c) \in Chunk /\ W(c).id = c.id /\ Kind(W(c)) = Kind(c)
             /\ c.id # i => W(c) = c
             /\ c.id = i => W(c).summary = s /\ W(c).pending = (c.pending \/ u)
  <2>1. c \in Chunk
    BY DEF RowsTyped
  <2>2. CASE c.id # i
    BY <2>1, <2>2
  <2>3. CASE c.id = i
    <3> DEFINE q == c.pending \/ u
    <3>1. W(c) = [c EXCEPT !.summary = s, !.pending = q]
      BY <2>3
    <3>2. q \in BOOLEAN
      BY <2>1 DEF Chunk
    <3> HIDE DEF q
    <3>3. /\ W(c) \in Chunk /\ W(c).id = c.id /\ W(c).version = c.version /\ W(c).part = c.part
          /\ W(c).summary = s /\ W(c).pending = q
      BY <2>1, <3>1, <3>2 DEF Chunk
    <3> QED BY <2>3, <3>3 DEF Kind, q
  <2> QED BY <2>2, <2>3
<1> HIDE DEF W
<1>3. \A c, d \in chunks : c.id = d.id => c = d
  BY DEF RowsTyped
<1>4. WithSummary(i, s, u) \subseteq Chunk
  BY <1>1, <1>2
<1>5. IdsOf(WithSummary(i, s, u)) = IdsOf(chunks)
  BY <1>1, <1>2 DEF IdsOf
<1>6. ASSUME NEW d \in WithSummary(i, s, u)
      PROVE  /\ \E c \in chunks : /\ d.id = c.id /\ Kind(d) = Kind(c)
                                  /\ c.id # i => d = c
                                  /\ c.id = i => d.summary = s /\ d.pending = (c.pending \/ u)
             /\ \A e \in WithSummary(i, s, u) : d.id = e.id => d = e
  <2>1. PICK c \in chunks : d = W(c)
    BY <1>1, <1>6
  <2>2. ASSUME NEW e \in WithSummary(i, s, u), d.id = e.id PROVE d = e
    <3>1. PICK b \in chunks : e = W(b)
      BY <1>1, <2>2
    <3> QED BY <1>2, <1>3, <2>1, <2>2, <3>1
  <2> QED BY <1>2, <2>1, <2>2
<1> QED BY <1>4, <1>5, <1>6

\* The invariants of the rows, when a summary has been written: to a chunk that is not
\* title-less, or with the flag, or without words and to one that cannot have any.
LEMMA SummaryStep ==
    ASSUME IInv, NEW p \in Procs, proc[p].pc \in {"summarise", "refine"},
           NEW i, NEW s \in {"null", "empty", "set"}, NEW u \in BOOLEAN,
           chunks' = WithSummary(i, s, u),
           u \/ \A c \in chunks : c.id = i => Kind(c) # "untitled",
           NEW r, proc' = [proc EXCEPT ![p] = r], DOMAIN r = Fields, r.pc = proc[p].pc,
           r.args = proc[p].args, r.visited = proc[p].visited, r.todo = proc[p].todo,
           r.queue = proc[p].queue, r.then = proc[p].then,
           UNCHANGED <<hash, edges, owed, vectors, nextId, env, lock, pidFile, watch>>
    PROVE  IInv'
<1>1. /\ ShapeOK(proc[p]) /\ LockOK(p, proc[p])
      /\ RowsTyped /\ RestTyped /\ EdgesOK /\ VectorsBelong /\ RefinedVectors
  BY Running DEF IInv
<1>2. /\ chunks' \subseteq Chunk
      /\ \A d \in chunks' : /\ \E c \in chunks : /\ d.id = c.id /\ Kind(d) = Kind(c)
                                                 /\ c.id # i => d = c
                                                 /\ c.id = i => d.summary = s /\ d.pending = (c.pending \/ u)
                            /\ \A e \in chunks' : d.id = e.id => d = e
      /\ IdsOf(chunks') = IdsOf(chunks)
  BY <1>1, WithSummaryRows
<1>3. RowsTyped' /\ nextId' >= nextId
  <2>1. Chunk' = Chunk
    BY DEF Chunk
  <2>2. \A d \in chunks' : d.id < nextId'
    BY <1>1, <1>2 DEF RowsTyped
  <2> QED BY <1>1, <1>2, <2>1, <2>2 DEF RowsTyped
<1>4. EdgesOK'
  BY <1>1 DEF EdgesOK
<1>5. VectorsBelong'
  BY <1>1, <1>2 DEF VectorsBelong, IdsOf, env
<1>6. RefinedVectors'
  <2> SUFFICES ASSUME ~stray, NEW d \in chunks', NEW v \in vectors, v.id = d.id,
                      Kind(d) = "untitled", ~d.pending
               PROVE  v.text = Text(d)
    BY DEF RefinedVectors, Kind, Text, env
  <2>1. PICK c \in chunks : /\ d.id = c.id /\ Kind(d) = Kind(c)
                            /\ c.id # i => d = c
                            /\ c.id = i => d.summary = s /\ d.pending = (c.pending \/ u)
    BY <1>2
  <2>2. c.id # i
    BY <2>1
  <2> QED BY <1>1, <2>1, <2>2 DEF RefinedVectors
<1>7. ProcOK(p, r)'
  BY <1>1 DEF ProcOK, ShapeOK, LockOK, HashOK, DataOK, QueueOK, PCs, FileSteps, Alone, After, env
<1>8. RestTyped'
  BY RestFault DEF IInv, RestTyped, env
<1>9. lock = p \/ stray
  BY <1>1 DEF LockOK, Alone, After
<1> QED BY <1>3, <1>4, <1>5, <1>6, <1>7, <1>8, <1>9, RowStep DEF env

LEMMA SummariseInv ==
    ASSUME IInv, NEW p \in Procs, Summarise(p)
    PROVE  IInv'
<1>1. /\ DOMAIN proc[p] = Fields /\ ShapeOK(proc[p]) /\ proc[p].pc = "summarise" /\ RowsTyped
      /\ UNCHANGED <<hash, edges, owed, vectors, nextId, env, lock, pidFile, watch>>
  BY Running DEF Summarise
<1>2. ASSUME NEW c \in NeedingSummary, chunks' = WithSummary(c.id, SummaryOf(c), FALSE), UNCHANGED proc
      PROVE  IInv'
  <2>1. PICK r : r = proc[p] /\ proc' = [proc EXCEPT ![p] = r]
    BY <1>2 DEF IInv
  <2>2. SummaryOf(c) \in {"null", "empty", "set"}
    BY DEF SummaryOf
  <2>3. \A d \in chunks : d.id = c.id => Kind(d) # "untitled"
    BY <1>1 DEF NeedingSummary, RowsTyped
  <2> QED BY <1>1, <1>2, <2>1, <2>2, <2>3, SummaryStep
<1>3. ASSUME Goto(p, "decide"), UNCHANGED chunks PROVE IInv'
  <2>1. PICK r : r = [proc[p] EXCEPT !.pc = "decide"] /\ proc' = [proc EXCEPT ![p] = r]
    BY <1>3 DEF IInv, Goto
  <2>2. /\ DOMAIN r = Fields /\ r.pc = "decide" /\ r.args = proc[p].args /\ r.todo = proc[p].todo
        /\ r.visited = proc[p].visited /\ r.queue = proc[p].queue /\ r.then = proc[p].then
    BY <1>1, <2>1 DEF Fields
  <2>3. RestTyped'
    BY <1>1, RestFault DEF IInv, RestTyped, env
  <2> QED BY <1>1, <1>3, <2>1, <2>2, <2>3, LateStep DEF ShapeOK, Late, Alone, After, FileSteps, env
<1> QED BY <1>2, <1>3 DEF Summarise

LEMMA RefineInv ==
    ASSUME IInv, NEW p \in Procs, Refine(p)
    PROVE  IInv'
<1> DEFINE i == Min(proc[p].cands)
           sets == \E c \in Candidate(p) : SummaryOf(c) = "set"
           K == proc[p].cands \ {i}
           q == proc[p].refined \/ sets
<1>1. /\ DOMAIN proc[p] = Fields /\ ShapeOK(proc[p]) /\ proc[p].pc = "refine" /\ RowsTyped
      /\ UNCHANGED <<hash, edges, owed, vectors, nextId, env, lock, pidFile, watch>>
      /\ proc' = [proc EXCEPT ![p].cands = K, ![p].refined = q]
      /\ chunks' = IF Candidate(p) = {} THEN chunks
                   ELSE WithSummary(i, IF sets THEN "set" ELSE "empty", sets)
  BY Running DEF Refine
<1>2. Candidate(p) # {} /\ ~sets => \A c \in chunks : c.id = i => Kind(c) # "untitled"
  BY <1>1 DEF Candidate, SummaryOf, RowsTyped
<1>3. sets \in BOOLEAN
  OBVIOUS
<1>4. PICK r : r = [proc[p] EXCEPT !.cands = K, !.refined = q] /\ proc' = [proc EXCEPT ![p] = r]
  BY <1>1 DEF IInv
<1>5. /\ DOMAIN r = Fields /\ r.pc = "refine" /\ r.args = proc[p].args /\ r.todo = proc[p].todo
      /\ r.visited = proc[p].visited /\ r.queue = proc[p].queue /\ r.then = proc[p].then
  BY <1>1, <1>4 DEF Fields
<1> HIDE DEF i, sets, K, q
<1>6. CASE Candidate(p) = {}
  <2>1. RestTyped' /\ UNCHANGED chunks
    BY <1>1, <1>6, RestFault DEF IInv, RestTyped, env
  <2> QED BY <1>1, <1>4, <1>5, <2>1, LateStep DEF ShapeOK, Late, Alone, After, FileSteps, env
<1>7. CASE Candidate(p) # {} /\ sets
  <2>1. chunks' = WithSummary(i, "set", TRUE)
    BY <1>1, <1>7
  <2> QED BY <1>1, <1>4, <1>5, <2>1, SummaryStep
<1>8. CASE Candidate(p) # {} /\ ~sets
  <2>1. chunks' = WithSummary(i, "empty", FALSE)
    <3>1. sets = FALSE
      BY <1>3, <1>8
    <3> QED BY <1>1, <1>8, <3>1
  <2> QED BY <1>1, <1>2, <1>4, <1>5, <1>8, <2>1, SummaryStep
<1> QED BY <1>6, <1>7, <1>8

\* An answered batch: its rows are chunks with the texts that were sent.
LEMMA EmbedOkInv ==
    ASSUME IInv, NEW p \in Procs, EmbedOk(p)
    PROVE  IInv'
<1>1. /\ DOMAIN proc[p] = Fields /\ ShapeOK(proc[p]) /\ LockOK(p, proc[p]) /\ DataOK(proc[p])
      /\ proc[p].pc = "embed" /\ RowsTyped /\ EdgesOK /\ VectorsBelong /\ RefinedVectors
      /\ UNCHANGED <<hash, edges, owed, nextId, env, lock, pidFile, watch>>
  BY Running DEF EmbedOk, IInv
<1>2. PICK B \in SUBSET proc[p].queue :
          /\ vectors' = Inserted(B)
          /\ chunks' = {IF \E b \in B : b.id = c.id THEN [c EXCEPT !.pending = FALSE] ELSE c : c \in chunks}
          /\ proc' = [proc EXCEPT ![p].queue = @ \ B, ![p].size = 0, ![p].rated = TRUE,
                                  ![p].patient = FALSE, ![p].connect = 0, ![p].busy = 0]
  BY DEF EmbedOk, Batches, kSubset
<1>3. \A a, b \in B : a.id \in Nat /\ a.id < nextId /\ (a.id = b.id => a = b)
  BY <1>1, <1>2 DEF ShapeOK, QueueOK
<1>4. /\ \A c \in chunks : /\ c \in Chunk /\ c.id < nextId
                           /\ \A d \in chunks : c.id = d.id => c = d
      /\ \A v \in vectors : /\ v.id \in Nat /\ v.id < nextId
                            /\ \A w \in vectors : v.id = w.id => v = w
  BY <1>1 DEF RowsTyped
<1> DEFINE F(c) == IF \E b \in B : b.id = c.id THEN [c EXCEPT !.pending = FALSE] ELSE c
<1>5. ASSUME NEW c \in chunks
      PROVE  /\ F(c) \in Chunk /\ F(c).id = c.id /\ Kind(F(c)) = Kind(c) /\ Text(F(c)) = Text(c)
             /\ (\A b \in B : b.id # c.id) => F(c) = c
  BY <1>4 DEF Chunk, Kind, Text
<1>6. chunks' = {F(c) : c \in chunks}
  BY <1>2
<1> HIDE DEF F
<1>7. /\ \A d \in chunks' : d \in Chunk /\ d.id < nextId /\ \A e \in chunks' : d.id = e.id => d = e
      /\ IdsOf(chunks') = IdsOf(chunks)
  <2>1. ASSUME NEW d \in chunks', NEW e \in chunks', d.id = e.id PROVE d = e
    <3>1. PICK c \in chunks : d = F(c)
      BY <1>6
    <3>2. PICK b \in chunks : e = F(b)
      BY <1>6
    <3> QED BY <1>4, <1>5, <2>1, <3>1, <3>2
  <2>2. ASSUME NEW d \in chunks' PROVE d \in Chunk /\ d.id < nextId
    BY <1>4, <1>5, <1>6
  <2>3. IdsOf(chunks') = IdsOf(chunks)
    BY <1>5, <1>6 DEF IdsOf
  <2> QED BY <2>1, <2>2, <2>3
<1> DEFINE V == {v \in vectors : \A b \in B : v.id # b.id}
           N == {[id |-> b.id, text |-> b.text] : b \in B}
<1>8. vectors' = V \cup N
  BY <1>2 DEF Inserted
<1>9. \A v \in N : \E b \in B : v.id = b.id /\ v.text = b.text /\ v = [id |-> b.id, text |-> b.text]
  OBVIOUS
<1> HIDE DEF N
<1>10. \A v \in vectors' : /\ v.id \in Nat /\ v.id < nextId
                           /\ \A w \in vectors' : v.id = w.id => v = w
  <2>1. ASSUME NEW v \in N, NEW w \in N, v.id = w.id PROVE v = w
    <3>1. PICK a \in B : v.id = a.id /\ v = [id |-> a.id, text |-> a.text]
      BY <1>9
    <3>2. PICK b \in B : w.id = b.id /\ w = [id |-> b.id, text |-> b.text]
      BY <1>9
    <3> QED BY <1>3, <2>1, <3>1, <3>2
  <2>2. \A v \in V, w \in N : v.id # w.id
    BY <1>9
  <2>3. \A v \in N : v.id \in Nat /\ v.id < nextId
    BY <1>3, <1>9
  <2> QED BY <1>4, <1>8, <2>1, <2>2, <2>3
<1>11. RowsTyped' /\ nextId' >= nextId
  <2>1. Chunk' = Chunk
    BY <1>1 DEF Chunk
  <2> QED BY <1>1, <1>7, <1>10, <2>1 DEF RowsTyped
<1>12. EdgesOK'
  BY <1>1 DEF EdgesOK
<1>13. ~stray => \A b \in B : b.id \in IdsOf(chunks) /\ \A c \in chunks : c.id = b.id => b.text = Text(c)
  BY <1>1, <1>2 DEF DataOK
<1>14. VectorsBelong'
  <2>1. ASSUME ~stray, NEW v \in vectors' PROVE v.id \in IdsOf(chunks)
    BY <1>1, <1>8, <1>9, <1>13, <2>1 DEF VectorsBelong
  <2> QED BY <1>1, <1>7, <2>1 DEF VectorsBelong, IdsOf, env
<1>15. RefinedVectors'
  <2> SUFFICES ASSUME ~stray, NEW d \in chunks', NEW v \in vectors', v.id = d.id,
                      Kind(d) = "untitled", ~d.pending
               PROVE  v.text = Text(d)
    BY <1>1 DEF RefinedVectors, Kind, Text, env
  <2>1. PICK c \in chunks : d = F(c)
    BY <1>6
  <2>2. CASE v \in V
    BY <1>1, <1>5, <2>1, <2>2 DEF RefinedVectors
  <2>3. CASE v \in N
    BY <1>5, <1>9, <1>13, <2>1, <2>3
  <2> QED BY <1>8, <2>2, <2>3
<1> DEFINE Q == proc[p].queue \ B
<1> DEFINE s == [proc[p] EXCEPT !.queue = Q, !.size = 0, !.rated = TRUE, !.patient = FALSE,
                                !.connect = 0, !.busy = 0]
<1>16. PICK r : r = s /\ proc' = [proc EXCEPT ![p] = r]
  <2>1. proc' = [proc EXCEPT ![p] = s]
    BY <1>2 DEF IInv
  <2> HIDE DEF s
  <2> QED BY <2>1
<1>17. /\ DOMAIN r = Fields /\ r.pc = "embed" /\ r.args = proc[p].args /\ r.todo = proc[p].todo
       /\ r.visited = proc[p].visited /\ r.queue \subseteq proc[p].queue /\ r.then = proc[p].then
  BY <1>1, <1>16 DEF Fields
<1>18. QueueOK(r.queue)'
  BY <1>1, <1>17 DEF ShapeOK, QueueOK
<1>19. DataOK(r)'
  <2> SUFFICES ASSUME ~stray, NEW q \in r.queue
               PROVE  /\ q.id \in IdsOf(chunks)'
                      /\ \A d \in chunks' : d.id = q.id => q.text = Text(d)
    BY <1>1, <1>17 DEF DataOK, env, Text
  <2>1. q.id \in IdsOf(chunks) /\ \A c \in chunks : c.id = q.id => q.text = Text(c)
    BY <1>1, <1>17 DEF DataOK
  <2> QED BY <1>5, <1>6, <1>7, <2>1 DEF IdsOf
<1>20. ProcOK(p, r)'
  BY <1>1, <1>17, <1>18, <1>19
     DEF ProcOK, ShapeOK, LockOK, HashOK, PCs, FileSteps, Alone, After, env
<1>21. RestTyped'
  BY <1>1, RestFault DEF IInv, RestTyped, env
<1>22. lock = p \/ stray
  BY <1>1 DEF LockOK, After
<1> QED BY <1>1, <1>11, <1>12, <1>14, <1>15, <1>16, <1>20, <1>21, <1>22, RowStep DEF env

-----------------------------------------------------------------------------
(* The invariant. *)

LEMMA InitIInv == Init => IInv
<1> SUFFICES ASSUME Init PROVE IInv
  OBVIOUS
<1> DEFINE r == IdleProc
<1>1. /\ DOMAIN r = Fields /\ r.pc = "idle" /\ r.args = NoArgs
      /\ r.todo = {} /\ r.visited = {} /\ r.queue = {} /\ r.then = "tail"
  BY DEF IdleProc, Fresh, Fields
<1> HIDE DEF r
<1>2. \A p \in Procs : ProcOK(p, r)
  BY <1>1 DEF ProcOK, ShapeOK, LockOK, HashOK, DataOK, QueueOK, PCs, FileSteps, Alone, After, NoArgs, Args
<1>3. /\ DOMAIN proc = Procs /\ proc = [p \in Procs |-> proc[p]] /\ \A p \in Procs : proc[p] = r
  BY DEF Init, r
<1>4. RowsTyped /\ EdgesOK
  <2>1. hash \in [Files -> Versions \cup {Absent}] /\ edges \in [Files -> {"none", "old", "new"}]
    BY DEF Init
  <2> QED BY <2>1 DEF Init, RowsTyped, EdgesOK
<1>5. RestTyped
  <2>1. disk \in [Files -> Versions \cup {Absent}]
    BY Constants DEF Init
  <2>2. watch \in [Procs -> {"nobody", "waiting", "took"}]
    BY DEF Init
  <2>3. edits \in 0..MaxEdits /\ faults \in 0..MaxFaults
    BY Constants DEF Init
  <2> QED BY <2>1, <2>2, <2>3 DEF Init, RestTyped
<1>6. WatchOK /\ VectorsBelong /\ RefinedVectors
  BY DEF Init, WatchOK, VectorsBelong, RefinedVectors
<1> QED BY <1>2, <1>3, <1>4, <1>5, <1>6 DEF IInv

LEMMA NextIInv == IInv /\ [Next]_vars => IInv'
<1> SUFFICES ASSUME IInv, [Next]_vars PROVE IInv'
  OBVIOUS
<1>1. ASSUME NEW p \in Procs, NEW m \in Modes, Start(p, m) PROVE IInv'
  BY <1>1, StartInv
<1>2. ASSUME NEW p \in Procs, Advance(p) PROVE IInv'
  <2>1. CASE TryAcquire(p) \/ WritePid(p) \/ Collect(p)
    BY <2>1, TryAcquireInv, WritePidInv, CollectInv
  <2>2. ASSUME NEW f \in Files, ReadFile(p, f) \/ StaleFile(p, f) PROVE IInv'
    BY <2>2, ReadFileInv, StaleFileInv
  <2>3. CASE DropVectors(p) \/ DropChunks(p) \/ DropRow(p) \/ StoreEdges(p) \/ StoreChunk(p) \/ EndParse(p)
    BY <2>3, DropVectorsInv, DropChunksInv, DropRowInv, StoreEdgesInv, StoreChunkInv, EndParseInv
  <2>4. CASE Summarise(p) \/ Decide(p) \/ AfterEmbed(p)
    BY <2>4, SummariseInv, DecideInv, AfterEmbedInv
  <2>5. CASE Spawn(p) \/ Confirmed(p) \/ ConfirmTimeout(p)
    BY <2>5, SpawnInv, UnwatchedInv DEF Confirmed, ConfirmTimeout
  <2>6. CASE WaitEmbedder(p) \/ EmbedOk(p) \/ EmbedDone(p) \/ EmbedUnreachable(p) \/ EmbedRefused(p)
    BY <2>6, WaitEmbedderInv, EmbedOkInv, EmbedDoneInv, EmbedUnreachableInv, EmbedRefusedInv
  <2>7. CASE Post(p) \/ Refine(p) \/ RefineFails(p) \/ RefineDone(p) \/ Exit(p)
    BY <2>7, PostInv, RefineInv, RefineFailsInv, RefineDoneInv, ExitInv
  <2> QED BY <1>2, <2>1, <2>2, <2>3, <2>4, <2>5, <2>6, <2>7 DEF Advance
<1>3. ASSUME NEW p \in Procs, Disturb(p) PROVE IInv'
  BY <1>3, PidLostInv, SpawnFailsInv, EmbedOverBudgetInv, EmbedBusyInv, CrashInv, CrashAcquireInv
     DEF Disturb
<1>4. CASE World
  BY <1>4, EditInv, UpgradeInv, EmbedderInv DEF World
<1>5. CASE UNCHANGED vars
  <2>1. RestTyped' /\ WatchOK'
    BY <1>5 DEF IInv, RestTyped, WatchOK, vars
  <2> QED BY <1>5, <2>1, WorldStep DEF vars
<1> QED BY <1>1, <1>2, <1>3, <1>4, <1>5 DEF Next

\* The inductive invariant holds in every reachable state.
THEOREM Invariance == Spec => []IInv
BY InitIInv, NextIInv, PTL DEF Spec

\* TypeOK: ids name one chunk row and one vector row, and every process has a walk it
\* can be on.
THEOREM TypeCorrect == Spec => []TypeOK
<1>1. IInv => TypeOK
  <2> SUFFICES ASSUME IInv PROVE TypeOK
    OBVIOUS
  <2>1. \A p \in Procs : ShapeOK(proc[p])
    BY DEF IInv, ProcOK
  <2> QED BY <2>1 DEF IInv, RowsTyped, RestTyped, ShapeOK, TypeOK
<1> QED BY <1>1, Invariance, PTL

\* OneWriter: index.db has one writer at a time, through crashes, hand-overs and lost
\* races, as long as no spawn has failed: whoever writes holds the lock.
THEOREM WritersAreAlone == Spec => []OneWriter
<1>1. IInv => OneWriter
  <2> SUFFICES ASSUME IInv, ~stray, NEW p \in Procs, NEW q \in Procs,
                      proc[p].pc \in Writing, proc[q].pc \in Writing
               PROVE  p = q
    BY DEF OneWriter
  <2>1. Writing \subseteq Alone \cup After
    BY DEF Writing, Alone, After, FileSteps
  <2>2. lock = p /\ lock = q
    BY <2>1, Running DEF LockOK
  <2> QED BY <2>2
<1> QED BY <1>1, Invariance, PTL

\* VectorsBelong: no vector is left without its chunk row.
THEOREM NoOrphanVectors == Spec => []VectorsBelong
<1>1. IInv => VectorsBelong
  BY DEF IInv
<1> QED BY <1>1, Invariance, PTL

\* RefinedVectors: an unflagged vector of a title-less chunk is of its present text.
THEOREM RefinedVectorsAreCurrent == Spec => []RefinedVectors
<1>1. IInv => RefinedVectors
  BY DEF IInv
<1> QED BY <1>1, Invariance, PTL

\* OwedUntilDone: the owed pass is retired only by a walk that has met every file whose
\* edges are still of the old kind, and could not read it.  Every stored file was visited
\* by a walk that ends, and what it visited it left without old edges (HashOK).
THEOREM OwedPassIsKept == Spec => OwedUntilDone
<1>1. IInv /\ [Next]_vars =>
        [owed /\ ~owed' => \A f \in Files :
            edges'[f] = "old" => \E p \in Procs : lock = p /\ f \in proc[p].unread]_vars
  <2> SUFFICES ASSUME IInv, Next, owed, ~owed', NEW f \in Files, edges'[f] = "old"
               PROVE  \E p \in Procs : lock = p /\ f \in proc[p].unread
    OBVIOUS
  <2>1. PICK p \in Procs : EndParse(p)
    <3>1. ~World
      BY DEF World, Edit, Upgrade, EmbedderUp, EmbedderDown, db
    <3>2. \A p \in Procs : ~Disturb(p)
      <4> SUFFICES ASSUME NEW p \in Procs, Disturb(p) PROVE UNCHANGED owed
        OBVIOUS
      <4>1. PidLost(p) \/ SpawnFails(p) => UNCHANGED owed
        BY DEF PidLost, SpawnFails, db
      <4>2. EmbedOverBudget(p) \/ EmbedBusy(p) => UNCHANGED owed
        BY DEF EmbedOverBudget, EmbedBusy, db
      <4>3. Crash(p) => UNCHANGED owed
        BY DEF Crash, db
      <4> QED BY <4>1, <4>2, <4>3 DEF Disturb
    <3>3. \A p \in Procs : Advance(p) => EndParse(p)
      <4> SUFFICES ASSUME NEW p \in Procs, Advance(p), ~EndParse(p) PROVE UNCHANGED owed
        OBVIOUS
      <4>1. TryAcquire(p) \/ WritePid(p) \/ Collect(p) => UNCHANGED owed
        BY DEF TryAcquire, WritePid, Collect, db
      <4>2. \A g \in Files : ReadFile(p, g) \/ StaleFile(p, g) => UNCHANGED owed
        BY DEF ReadFile, StaleFile, db
      <4>3. DropVectors(p) \/ DropChunks(p) \/ DropRow(p) \/ StoreEdges(p) \/ StoreChunk(p) => UNCHANGED owed
        BY DEF DropVectors, DropChunks, DropRow, StoreEdges, StoreChunk
      <4>4. Summarise(p) \/ Decide(p) \/ AfterEmbed(p) => UNCHANGED owed
        BY DEF Summarise, Decide, AfterEmbed, db
      <4>5. Spawn(p) \/ Confirmed(p) \/ ConfirmTimeout(p) => UNCHANGED owed
        BY DEF Spawn, Confirmed, ConfirmTimeout, Unwatched, db
      <4>6. WaitEmbedder(p) \/ EmbedOk(p) \/ EmbedDone(p) \/ EmbedUnreachable(p) \/ EmbedRefused(p)
            => UNCHANGED owed
        BY DEF WaitEmbedder, EmbedOk, EmbedDone, EmbedUnreachable, EmbedRefused, db
      <4>7. Post(p) \/ Refine(p) \/ RefineFails(p) \/ RefineDone(p) \/ Exit(p) => UNCHANGED owed
        BY DEF Post, Refine, RefineFails, RefineDone, Exit, db
      <4> QED BY <4>1, <4>2, <4>3, <4>4, <4>5, <4>6, <4>7 DEF Advance
    <3>4. \A p \in Procs, m \in Modes : ~Start(p, m)
      BY DEF Start, db
    <3> QED BY <3>1, <3>2, <3>3, <3>4 DEF Next
  <2>2. /\ proc[p].pc = "walk" /\ proc[p].todo = {} /\ proc[p].reextract /\ edges[f] = "old"
        /\ hash[f] # Absent => f \in proc[p].visited
    BY <2>1 DEF EndParse
  <2>3. hash[f] # Absent /\ HashOK(proc[p]) /\ LockOK(p, proc[p])
    BY <2>2, Running DEF IInv, EdgesOK
  <2> QED BY <2>2, <2>3 DEF HashOK, LockOK, Alone
<1> QED BY <1>1, Invariance, PTL DEF Spec, OwedUntilDone

\* HandoverIsTrue: a parent that reports the work handed over has a child that took the
\* lock: while it waits, the pid it looks for is not in the file.
THEOREM HandoversAreTrue == Spec => HandoverIsTrue
<1>1. IInv /\ [Next]_vars => [\A p \in Procs : Confirmed(p) => watch[p] = "took"]_vars
  <2> SUFFICES ASSUME IInv, NEW p \in Procs, Confirmed(p) PROVE watch[p] = "took"
    OBVIOUS
  <2> QED BY DEF Confirmed, IInv, RestTyped, WatchOK
<1> QED BY <1>1, Invariance, PTL DEF Spec, HandoverIsTrue
=============================================================================
