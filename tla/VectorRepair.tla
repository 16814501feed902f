---------------------------- MODULE VectorRepair ----------------------------
(***************************************************************************)
(* Memory writes of the team server that end up without a vector, and the  *)
(* background worker that repairs them (inkentry-server repair.rs, db.rs,  *)
(* handlers/notes.rs, handlers/batch.rs, main.rs).                         *)
(*                                                                         *)
(* A request embeds its text before it takes the database lock and stores  *)
(* the row under it; the worker reads a page under the lock, embeds it     *)
(* without, and writes back under it.  In between anything may happen.     *)
(*                                                                         *)
(* Abstractions.  A text is either one the embedder takes or one it always *)
(* refuses ("poison").  A batch stands for one of its entries; what the    *)
(* others do to it is that one of them is poison (Embed) or fails          *)
(* (BatchFails).  There is one project.  The debounce only delays a sweep. *)
(* A build without an embedder has no worker and is not modelled.          *)
(***************************************************************************)
EXTENDS Naturals, FiniteSets

CONSTANTS
    Requests,    \* write requests that can be in flight together
    MaxRow,      \* bound on the rows of the notes table
    PageSize,    \* REPAIR_PAGE_SIZE
    MaxCrashes,  \* bound on the restarts of the server
    Events       \* subset of {"supersede", "batch", "sweep"}

ASSUME RepairAssumption ==
    /\ MaxRow \in Nat
    /\ PageSize \in Nat \ {0}
    /\ MaxCrashes \in Nat

VARIABLES
    n,        \* rows inserted so far; row ids are never reused (AUTOINCREMENT)
    row,      \* row[i]: the notes row i
    sup,      \* <<i, k>>: the superseded_by of row i is row k
    vec,      \* row ids that have a note_embeddings row
    dim,      \* projects.embedding_dim: 0 until a write with a vector sets it
    slot,     \* EmbedderSlot
    sig,      \* RepairSignal: the permit of its Notify
    req,      \* req[q]: the write request q
    wk,       \* the repair worker
    crashes,  \* restarts so far
    dropped   \* history: rows a request or sweep that failed half-way left
              \* without a vector, and no sweep has begun since

db == <<n, row, sup, vec, dim>>

vars == <<n, row, sup, vec, dim, slot, sig, req, wk, crashes, dropped>>

-----------------------------------------------------------------------------
Rows == 1..MaxRow

\* ext: the row has an external_id (notes.remote_id).
RowStates == [st : {"none", "active", "archived", "deleted"}, poison : BOOLEAN,
              ext : BOOLEAN]

NoRow == [st |-> "none", poison |-> FALSE, ext |-> FALSE]

\* "embedded": back from the embedder, before the lock; "stored": row in, lock
\* released, signal not raised yet.
ReqStates == [pc : {"idle", "embedded", "stored"}, route : {"single", "batch"},
              poison : BOOLEAN, vector : BOOLEAN]

NoRequest == [pc |-> "idle", route |-> "single", poison |-> FALSE,
              vector |-> FALSE]

WorkerStates == [pc : {"wait", "read", "embed", "write"}, cursor : 0..MaxRow,
                 page : SUBSET Rows, got : SUBSET Rows]

Waiting == [pc |-> "wait", cursor |-> 0, page |-> {}, got |-> {}]

\* One type invariant for the module.
TypeOK ==
    /\ n \in 0..MaxRow
    /\ row \in [Rows -> RowStates]
    /\ sup \subseteq Rows \X Rows
    /\ vec \subseteq Rows
    /\ dim \in {0, 1}
    /\ slot \in {"loading", "published", "ready", "unavailable"}
    /\ sig \in BOOLEAN
    /\ req \in [Requests -> ReqStates]
    /\ wk \in WorkerStates
    /\ crashes \in 0..MaxCrashes
    /\ dropped \subseteq Rows

Init ==
    /\ n = 0
    /\ row = [i \in Rows |-> NoRow]
    /\ sup = {}
    /\ vec = {}
    /\ dim = 0
    /\ slot = "loading"
    /\ sig = FALSE
    /\ req = [q \in Requests |-> NoRequest]
    /\ wk = Waiting
    /\ crashes = 0
    /\ dropped = {}

-----------------------------------------------------------------------------
(* The embedder, and the restart of the process. *)

\* A backend can be asked from the moment it is published.
Available == slot \in {"published", "ready"}

\* set_ready_with_engine.
SetReady ==
    /\ slot = "loading"
    /\ slot' = "published"
    /\ UNCHANGED <<db, sig, req, wk, crashes, dropped>>

\* The load task raises the signal once: rows stored while the model was
\* loading, or by an earlier process, are looked at.
RaiseReady ==
    /\ slot = "published"
    /\ slot' = "ready"
    /\ sig' = TRUE
    /\ UNCHANGED <<db, req, wk, crashes, dropped>>

\* The model cannot be loaded; terminal for this process.
SetUnavailable ==
    /\ slot = "loading"
    /\ slot' = "unavailable"
    /\ UNCHANGED <<db, sig, req, wk, crashes, dropped>>

\* The database survives; the signal, the requests and the sweep do not.
Restart ==
    /\ crashes < MaxCrashes
    /\ crashes' = crashes + 1
    /\ slot' = "loading"
    /\ sig' = FALSE
    /\ req' = [q \in Requests |-> NoRequest]
    /\ wk' = Waiting
    /\ UNCHANGED <<db, dropped>>

-----------------------------------------------------------------------------
(* Writes: add_note ("single") and push_memory_batch ("batch"). *)

\* embed_for_storage off the lock, unless the client pushed a vector.  A text
\* the embedder refuses spoils the vectors of its whole batch.  A full
\* admission queue ends the request with 429 and changes nothing.
Embed(q, route, poison, pushed, spoiled) ==
    /\ req[q].pc = "idle"
    /\ spoiled => route = "batch"
    /\ n + Cardinality({p \in Requests : req[p].pc = "embedded"}) < MaxRow
    /\ req' = [req EXCEPT ![q] =
                 [pc |-> "embedded", route |-> route, poison |-> poison,
                  vector |-> pushed \/ (Available /\ ~poison /\ ~spoiled)]]
    /\ UNCHANGED <<db, slot, sig, wk, crashes, dropped>>

\* The dimension a route registers the project with: the vector's own, or the
\* server's configured one.
IncomingDim(q) ==
    IF req[q].route = "single" /\ ~req[q].vector THEN 0 ELSE 1

\* upsert_project: a project whose dimension is set takes no other.
DimensionMatches(q) == dim = 0 \/ dim = IncomingDim(q)

\* The part of upsert_project that writes.
RegisterDim(q) == dim' = IF dim = 0 THEN IncomingDim(q) ELSE dim

\* The row of request q, with the active rows R it supersedes.
InsertRow(q, R) ==
    /\ n < MaxRow
    /\ n' = n + 1
    /\ row' = [i \in Rows |->
                 IF i = n + 1 THEN [st |-> "active", poison |-> req[q].poison,
                                    ext |-> req[q].route = "batch"]
                 ELSE IF i \in R THEN [row[i] EXCEPT !.st = "archived"]
                 ELSE row[i]]
    /\ sup' = sup \cup (R \X {n + 1})

\* add_note: the row and its resolutions are one transaction, and the signal a
\* row without a vector owes is raised under the lock.
AddNote(q, R) ==
    /\ req[q].pc = "embedded" /\ req[q].route = "single"
    /\ DimensionMatches(q)
    /\ R # {} => "supersede" \in Events
    /\ \A i \in R : row[i].st = "active"
    /\ InsertRow(q, R)
    /\ RegisterDim(q)
    /\ vec' = IF req[q].vector THEN vec \cup {n + 1} ELSE vec
    /\ sig' = (sig \/ ~req[q].vector)
    /\ req' = [req EXCEPT ![q] = NoRequest]
    /\ UNCHANGED <<slot, wk, crashes, dropped>>

\* push_memory_batch: the entry is stored; the signal follows after the lock.
PushEntry(q) ==
    /\ req[q].pc = "embedded" /\ req[q].route = "batch"
    /\ InsertRow(q, {})
    /\ RegisterDim(q)
    /\ vec' = IF req[q].vector THEN vec \cup {n + 1} ELSE vec
    /\ req' = [req EXCEPT ![q].pc = "stored"]
    /\ UNCHANGED <<slot, sig, wk, crashes, dropped>>

\* The entry is already there: nothing is stored, but the row it matched may
\* lack its vector.
SkipEntry(q, i) ==
    /\ req[q].pc = "embedded" /\ req[q].route = "batch"
    /\ row[i].st = "active" /\ row[i].ext
    /\ RegisterDim(q)
    /\ req' = [req EXCEPT ![q].pc = "stored", ![q].vector = i \in vec]
    /\ UNCHANGED <<n, row, sup, vec, slot, sig, wk, crashes, dropped>>

\* The entry is stored, with or without its vector, and then the INSERT of the
\* vector or of a later entry fails: the handler returns before the signal.
BatchFails(q) ==
    /\ "batch" \in Events
    /\ req[q].pc = "embedded" /\ req[q].route = "batch"
    /\ InsertRow(q, {})
    /\ RegisterDim(q)
    /\ \/ vec' = vec \cup {n + 1} /\ req[q].vector /\ dropped' = dropped
       \/ vec' = vec /\ dropped' = dropped \cup {n + 1}
    /\ req' = [req EXCEPT ![q] = NoRequest]
    /\ UNCHANGED <<slot, sig, wk, crashes>>

\* The answer is 400 DimensionMismatch and nothing is stored.
Refuse(q) ==
    /\ req[q].pc = "embedded"
    /\ ~DimensionMatches(q)
    /\ req' = [req EXCEPT ![q] = NoRequest]
    /\ UNCHANGED <<db, slot, sig, wk, crashes, dropped>>

Raise(q) ==
    /\ req[q].pc = "stored"
    /\ sig' = (sig \/ ~req[q].vector)
    /\ req' = [req EXCEPT ![q] = NoRequest]
    /\ UNCHANGED <<db, slot, wk, crashes, dropped>>

-----------------------------------------------------------------------------
(* archive_note, supersede_note, delete_note. *)

ArchiveNote(i) ==
    /\ row[i].st = "active"
    /\ row' = [row EXCEPT ![i].st = "archived"]
    /\ UNCHANGED <<n, sup, vec, dim, slot, sig, req, wk, crashes, dropped>>

\* The successor may be any row of the project, the old one included.
SupersedeNote(i, k) ==
    /\ "supersede" \in Events
    /\ row[i].st = "active"
    /\ row[k].st \in {"active", "archived"}
    /\ row' = [row EXCEPT ![i].st = "archived"]
    /\ sup' = sup \cup {<<i, k>>}
    /\ UNCHANGED <<n, vec, dim, slot, sig, req, wk, crashes, dropped>>

\* The foreign key superseded_by keeps a row another one names.
Referenced(i) == \E k \in Rows \ {i} : <<k, i>> \in sup

\* The vector goes with the row.
DeleteNote(i) ==
    /\ row[i].st \in {"active", "archived"}
    /\ ~Referenced(i)
    /\ row' = [row EXCEPT ![i].st = "deleted"]
    /\ sup' = {p \in sup : p[1] # i}
    /\ vec' = vec \ {i}
    /\ UNCHANGED <<n, dim, slot, sig, req, wk, crashes, dropped>>

\* The two DELETEs are no transaction: the first takes the vector, the foreign
\* key refuses the second, and the row stays.
DeleteFails(i) ==
    /\ row[i].st \in {"active", "archived"}
    /\ Referenced(i)
    /\ vec' = vec \ {i}
    /\ dropped' = dropped \cup {i}
    /\ UNCHANGED <<n, row, sup, dim, slot, sig, req, wk, crashes>>

-----------------------------------------------------------------------------
(* run_repair_worker and repair_missing_embeddings. *)

\* wait() consumes the one permit however many raises it stands for.
Wake ==
    /\ wk.pc = "wait"
    /\ sig
    /\ sig' = FALSE
    /\ wk' = [Waiting EXCEPT !.pc = "read"]
    /\ dropped' = {}
    /\ UNCHANGED <<db, slot, req, crashes>>

Missing == {i \in Rows : row[i].st = "active" /\ i \notin vec}

\* notes_missing_embeddings: the lowest PageSize of the rows after the cursor.
IsPage(P, cursor) ==
    LET S == {i \in Missing : i > cursor} IN
    /\ P \subseteq S
    /\ \A i \in P, k \in S : k <= i => k \in P
    /\ Cardinality(P) = IF Cardinality(S) < PageSize THEN Cardinality(S) ELSE PageSize

\* Mutant of ReadPage: the cursor moves past the row after the page as well.
ReadPageSkips ==
    /\ wk.pc = "read"
    /\ \E P \in SUBSET Rows :
        /\ IsPage(P, wk.cursor)
        /\ \/ P = {} /\ wk' = Waiting
           \/ \E last \in P :
                /\ \A i \in P : i <= last
                /\ wk' = [pc |-> "embed", cursor |-> last + 1, page |-> P, got |-> {}]
    /\ UNCHANGED <<db, slot, sig, req, crashes, dropped>>

\* The cursor moves past every row read, repaired or not; an empty page ends
\* the sweep.
ReadPage ==
    /\ wk.pc = "read"
    /\ \E P \in SUBSET Rows :
        /\ IsPage(P, wk.cursor)
        /\ \/ P = {} /\ wk' = Waiting
           \/ \E last \in P :
                /\ \A i \in P : i <= last
                /\ wk' = [pc |-> "embed", cursor |-> last, page |-> P, got |-> {}]
    /\ UNCHANGED <<db, slot, sig, req, crashes, dropped>>

\* Mutant of Embeddable: no fallback, one poison text fails its page.
EmbeddableWhole(P) == IF \E i \in P : row[i].poison THEN {} ELSE P

\* embed_page off the lock: a page the embedder refuses is retried row by row,
\* so a poison text costs only its own vector.
Embeddable(P) == {i \in P : ~row[i].poison}

\* Mutant of EmbedPage: no fallback, a page with a poison text waits for another sweep.
EmbedPageLater ==
    /\ wk.pc = "embed"
    /\ Available
    /\ \/ /\ \A i \in wk.page : ~row[i].poison
          /\ wk' = [wk EXCEPT !.pc = "write", !.got = wk.page]
          /\ UNCHANGED sig
       \/ /\ \E i \in wk.page : row[i].poison
          /\ wk' = Waiting
          /\ sig' = TRUE
    /\ UNCHANGED <<db, slot, req, crashes, dropped>>

EmbedPage ==
    /\ wk.pc = "embed"
    /\ Available
    /\ wk' = [wk EXCEPT !.pc = "write", !.got = Embeddable(wk.page)]
    /\ UNCHANGED <<db, slot, sig, req, crashes, dropped>>

\* StopNotReady: the ready transition will raise.
StopNotReady ==
    /\ wk.pc = "embed"
    /\ ~Available
    /\ wk' = Waiting
    /\ UNCHANGED <<db, slot, sig, req, crashes, dropped>>

\* StopSaturated: requests hold every admission permit, and no edge follows
\* their release, so the sweep asks for the next one itself.
StopSaturated ==
    /\ wk.pc = "embed"
    /\ Available
    /\ wk' = Waiting
    /\ sig' = TRUE
    /\ UNCHANGED <<db, slot, req, crashes, dropped>>

\* Mutant of Qualifies: the row is not looked at again.
QualifiesAlways(i) == i \notin vec

\* insert_embedding_if_missing: still active, still without a vector.
Qualifies(i) == row[i].st = "active" /\ i \notin vec

\* Mutant of WritePage: a sweep that left rows behind asks for another.
WritePageReraises ==
    /\ wk.pc = "write"
    /\ vec' = vec \cup {i \in wk.got : Qualifies(i)}
    /\ wk' = [wk EXCEPT !.pc = "read", !.page = {}, !.got = {}]
    /\ sig' = (sig \/ wk.got # wk.page)
    /\ UNCHANGED <<n, row, sup, dim, slot, req, crashes, dropped>>

\* The write-back of one page, under the lock.
WritePage ==
    /\ wk.pc = "write"
    /\ vec' = vec \cup {i \in wk.got : Qualifies(i)}
    /\ wk' = [wk EXCEPT !.pc = "read", !.page = {}, !.got = {}]
    /\ UNCHANGED <<n, row, sup, dim, slot, sig, req, crashes, dropped>>

\* The database fails a sweep while it reads a page or part-way through a
\* write-back: the worker only logs it, and asks for no other sweep.
SweepFails ==
    /\ "sweep" \in Events
    /\ wk.pc \in {"read", "write"}
    /\ \E D \in SUBSET {i \in wk.got : Qualifies(i)} :
        /\ vec' = vec \cup D
        /\ dropped' = dropped \cup (Missing \ D)
    /\ wk' = Waiting
    /\ UNCHANGED <<n, row, sup, dim, slot, sig, req, crashes>>

Worker ==
    \/ Wake
    \/ ReadPage
    \/ EmbedPage
    \/ StopNotReady
    \/ StopSaturated
    \/ WritePage
    \/ SweepFails

Next ==
    \/ SetReady \/ RaiseReady \/ SetUnavailable \/ Restart
    \/ \E q \in Requests :
        \/ \E route \in {"single", "batch"}, poison, pushed, spoiled \in BOOLEAN :
             Embed(q, route, poison, pushed, spoiled)
        \/ \E R \in SUBSET Rows : AddNote(q, R)
        \/ PushEntry(q)
        \/ \E i \in Rows : SkipEntry(q, i)
        \/ BatchFails(q)
        \/ Refuse(q)
        \/ Raise(q)
    \/ \E i \in Rows :
        \/ ArchiveNote(i)
        \/ \E k \in Rows : SupersedeNote(i, k)
        \/ DeleteNote(i)
        \/ DeleteFails(i)
    \/ Worker

Spec == Init /\ [][Next]_vars

\* The worker and the requests go on, loading the model comes to an end, and the
\* requests do not hold every permit each time a sweep comes to the same page.
RepairFairness ==
    /\ WF_vars(SetReady \/ SetUnavailable) /\ WF_vars(RaiseReady)
    /\ WF_vars(Wake) /\ WF_vars(ReadPage) /\ WF_vars(StopNotReady) /\ WF_vars(WritePage)
    /\ \A i \in Rows : SF_vars(EmbedPage /\ wk.cursor = i)
    /\ \A q \in Requests : WF_vars(Raise(q))

FairSpec == Spec /\ RepairFairness

-----------------------------------------------------------------------------
(* Properties. *)

\* A vector belongs to a row that exists: one embedded while its row was being
\* deleted is not stored (delete_note, insert_embedding_if_missing).
NoOrphanVector == \A i \in vec : row[i].st \in {"active", "archived"}

\* No wake-up is lost: somebody will look at every row that lacks a vector.
\* Either the signal is up, or a request is about to raise it, or the sweep under
\* way has the row before it, or the model has not loaded, or the embedder
\* refuses the text.  Only what a failed request or sweep dropped is left to the
\* next signal (RepairSignal, repair_missing_embeddings).
Owed ==
    \A i \in Missing \ dropped :
        \/ row[i].poison
        \/ sig
        \/ slot # "ready"
        \/ \E q \in Requests : req[q].pc = "stored" /\ ~req[q].vector
        \/ wk.pc # "wait" /\ (i > wk.cursor \/ i \in wk.page)

\* A row stored without a vector gets one, unless its text is refused, it stops
\* being active, the request or sweep that had it failed half-way (nothing comes
\* back to it), or the model never loads (repair.rs).
EventuallyEmbedded ==
    \A i \in Rows :
        i \in Missing /\ ~row[i].poison ~> i \notin Missing \/ i \in dropped \/ [](slot = "unavailable")

\* Once no more requests come the worker parks and stays parked: no sweep asks
\* for the next one because it left rows behind (run_repair_worker).
WorkerParks ==
    <>[](\A q \in Requests : req[q].pc = "idle") => <>[](wk.pc = "wait" /\ ~sig)
=============================================================================
