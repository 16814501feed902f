---------------------------- MODULE LocalMemory ----------------------------
(***************************************************************************)
(* The local memory store (.inkentry/memory.db) of one clone, and how the  *)
(* entries on the git notes reach it: every read merges the tracking ref   *)
(* and imports the working ref when the OIDs recorded in the store say     *)
(* that a ref moved (inkentry-cli cmd/memory/reconcile.rs, inkentry-core   *)
(* storage/git_notes/{refs,fold,mod}.rs and                                *)
(* storage/memory/{notes,edges,import,import_state}.rs), while local       *)
(* commands write to the store first and to the carrier afterwards         *)
(* (cmd/memory/{add,archive,supersede}.rs), and `memory reconcile` copies  *)
(* the entries of a local server.db.                                       *)
(*                                                                         *)
(* Abstractions.                                                           *)
(*  - A line on the carrier is what the fold and the import read of it: an *)
(*    entity, whether it says archived, the successor and the related      *)
(*    entity it names.  Equal lines count once.                            *)
(*  - A ref is the set of its lines, {} when it does not exist; its OID is *)
(*    that set.  A commit that changes no line may move the real OID: the  *)
(*    merge or import that follows then changes nothing.                   *)
(*  - Appends and merges are atomic here: NotesCarrier has their steps and *)
(*    the lock.  `git log` shows all of the working ref's lines but the    *)
(*    ones on commits that HEAD does not reach yet.                        *)
(*  - What a local command writes to the store is one step, also an entry  *)
(*    and its edge, which are two writes: the line follows both.           *)
(*  - The row of an entity is unique (the index on notes.entity_id), so    *)
(*    rows, links and edges are keyed by entity.  Tags, files and          *)
(*    embeddings are left out; `contradicts` is an edge like `relates_to`. *)
(*  - The project reads its memory.db: in cloud_first mode a read does not *)
(*    refresh, and on the git-notes backend it only merges.                *)
(***************************************************************************)
EXTENDS Naturals, FiniteSets

CONSTANTS
    Entities,       \* entity ids
    NoEntity,       \* "no entity"
    TeamLines,      \* the lines a fetch can bring
    Unmerged,       \* those on commits outside HEAD's history until it moves
    ServerNotes,    \* the rows of this project in the local server.db
    LocalEntities,  \* the entities added by local commands
    Exposures,      \* what may go wrong in a behaviour, one set for each kind
    MaxLocal        \* bound on the local commands

Events == {"contended", "list", "head", "others", "reconcile"}
MaybeEntity == Entities \cup {NoEntity}
Lines == [ent : Entities, arch : BOOLEAN, succ : MaybeEntity, rel : MaybeEntity]

ASSUME MemoryAssumption ==
    /\ IsFiniteSet(Entities)
    /\ NoEntity \notin Entities
    /\ TeamLines \subseteq Lines
    /\ Unmerged \subseteq TeamLines
    /\ ServerNotes \subseteq [ent : Entities, arch : BOOLEAN, succ : MaybeEntity]
    /\ \A n, k \in ServerNotes :  \* copies of an entry agree on its successor
         n.ent = k.ent => n.succ = k.succ \/ NoEntity \in {n.succ, k.succ}
    /\ LocalEntities \subseteq Entities
    /\ Exposures \subseteq SUBSET Events
    /\ MaxLocal \in Nat

VARIABLES
    exposed,   \* what may go wrong in this behaviour; never changes
    track,     \* refs/notes/origin/inkentry, which a fetch writes
    work,      \* refs/notes/inkentry
    merged,    \* HEAD reaches the commits of the Unmerged lines
    out,       \* lines of local commands whose append is still to come
    locals,    \* local commands so far
    db,        \* memory.db exists
    rows,      \* rows[e]: the status of entity e's row
    succ,      \* succ[e]: its superseded_by
    edges,     \* memory_edges
    marks,     \* notes_import_state
    rd,        \* the read under way
    rc         \* the `memory reconcile` under way

refs == <<track, work, merged>>
local == <<out, locals>>
store == <<db, rows, succ, edges>>
vars == <<exposed, refs, local, store, marks, rd, rc>>

Oids == SUBSET Lines
EdgeKinds == {"supersedes", "relates_to"}
Edges == Entities \X Entities \X EdgeKinds
NoMarks == [track |-> {}, work |-> {}]

Stages == {"idle", "marker", "merge", "list", "oid", "existing", "carried",
           "import", "mark", "done"}
Idle == [pc |-> "idle", cmd |-> "read", trk |-> {}, wrk |-> {}, mark |-> NoMarks,
         moved |-> FALSE, listed |-> {}, oid |-> {}, carried |-> {}, ok |-> TRUE]
NoReconcile == [pc |-> "idle", fresh |-> {}, links |-> {}, unresolved |-> {}]

TypeOK ==
    /\ exposed \in Exposures
    /\ track \subseteq TeamLines
    /\ work \subseteq Lines /\ out \subseteq Lines
    /\ merged \in BOOLEAN /\ db \in BOOLEAN
    /\ locals \in 0..MaxLocal
    /\ rows \in [Entities -> {"none", "active", "archived"}]
    /\ succ \in [Entities -> MaybeEntity]
    /\ \A x \in edges : /\ x \in Edges
                        /\ rows[x[1]] # "none" /\ rows[x[2]] # "none"  \* foreign keys
    /\ \A e \in Entities : succ[e] # NoEntity => rows[succ[e]] # "none"
    /\ marks.track \subseteq Lines /\ marks.work \subseteq Lines
    /\ ~db => marks = NoMarks /\ \A e \in Entities : rows[e] = "none"
    /\ rd.pc \in Stages
    /\ rc.pc \in {"idle", "import", "link", "done"}

Init ==
    /\ exposed \in Exposures
    /\ track = {} /\ work = {} /\ merged = ("head" \notin exposed)
    /\ out = {} /\ locals = 0
    /\ db = FALSE
    /\ rows = [e \in Entities |-> "none"]
    /\ succ = [e \in Entities |-> NoEntity]
    /\ edges = {}
    /\ marks = NoMarks
    /\ rd = Idle
    /\ rc = NoReconcile

-----------------------------------------------------------------------------
(***************************************************************************)
(* What the carrier says (noted_commits, fold_records)                     *)
(***************************************************************************)
Visible == {l \in work : merged \/ l \notin Unmerged}

Ents(L) == {l.ent : l \in L}

\* merge_into: an archive on any copy sticks.
Status(L, e) == IF \E l \in L : l.ent = e /\ l.arch THEN "archived" ELSE "active"

Superseded(L) == Ents({l \in L : l.succ # NoEntity})

\* carried_edges and carried_supersede_edges: edge lists union; of several
\* successors the most recent line's one is taken, and lines have no time here.
CarriedEdges(L) ==
    {{<<l.ent, l.rel, "relates_to">> : l \in {k \in L : k.rel # NoEntity}} \cup
     {<<f[e], e, "supersedes">> : e \in Superseded(L)} :
        f \in {g \in [Superseded(L) -> Entities] :
                 \A e \in Superseded(L) : \E l \in L : l.ent = e /\ l.succ = g[e]}}

Present == {e \in Entities : rows[e] # "none"}

-----------------------------------------------------------------------------
(***************************************************************************)
(* A read: refresh_read_path_from_git_notes                                *)
(***************************************************************************)
Go(r) == rd' = r

\* The OIDs of the two refs; with neither there is nothing to do.
Begin ==
    /\ rd.pc = "idle"
    /\ track # {} \/ work # {}
    /\ Go([Idle EXCEPT !.pc = "marker", !.trk = track, !.wrk = work])
    /\ UNCHANGED <<exposed, refs, local, store, marks, rc>>

\* init merges and imports without asking the markers.
BeginInit ==
    /\ rd.pc = "idle"
    /\ Go([Idle EXCEPT !.pc = "merge", !.cmd = "init", !.trk = track])
    /\ UNCHANGED <<exposed, refs, local, store, marks, rc>>

\* Mutant: compares the working OID read before the merge.
ComparedStale(r, w) ==
    [r EXCEPT !.pc = IF r.cmd = "init" \/ r.wrk # r.mark.work THEN "list" ELSE "mark",
              !.wrk = {}, !.mark = NoMarks]

\* The import is due when the working ref is not the one imported last.
Compared(r, w) ==
    [r EXCEPT !.pc = IF r.cmd = "init" \/ w # r.mark.work THEN "list" ELSE "mark",
              !.wrk = {}, !.mark = NoMarks]

\* The markers of the store; a store that is missing or cannot be read has none.
ReadMarker ==
    /\ rd.pc = "marker"
    /\ \E mk \in IF db THEN {marks, NoMarks} ELSE {NoMarks} :
         LET r == [rd EXCEPT !.mark = mk, !.moved = rd.trk # mk.track]
         IN  Go(IF r.moved THEN [r EXCEPT !.pc = "merge"] ELSE Compared(r, r.wrk))
    /\ UNCHANGED <<exposed, refs, local, store, marks, rc>>

\* merge_tracking_notes, and the working ref read again.
Merge ==
    /\ rd.pc = "merge"
    /\ work' = work \cup track
    /\ Go(Compared(rd, work'))
    /\ UNCHANGED <<exposed, track, merged, local, store, marks, rc>>

\* The notes lock was taken or `git notes merge` failed: the read goes on.
MergeSkipped ==
    /\ rd.pc = "merge"
    /\ "contended" \in exposed
    /\ Go(Compared(rd, work))
    /\ UNCHANGED <<exposed, refs, local, store, marks, rc>>

\* A publish, or a read of another process that dies, merges as well.
OtherMerge ==
    /\ "others" \in exposed
    /\ work' = work \cup track
    /\ UNCHANGED <<exposed, track, merged, local, store, marks, rd, rc>>

-----------------------------------------------------------------------------
(***************************************************************************)
(* The import: import_git_notes_into_memory                                *)
(***************************************************************************)
\* What follows the import of a read, and of init.
Imported(r, ok) ==
    [r EXCEPT !.pc = IF r.cmd = "read" THEN "mark" ELSE "done",
              !.listed = {}, !.oid = {}, !.carried = {}, !.ok = ok]

\* GitNotesBackend::list, every entity with its folded status.
List ==
    /\ rd.pc = "list"
    /\ Go([rd EXCEPT !.pc = "oid", !.listed = Visible])
    /\ UNCHANGED <<exposed, refs, local, store, marks, rc>>

\* noted_commits answers an empty list when `git notes list` or `git log` fails.
ListFails ==
    /\ rd.pc = "list"
    /\ "list" \in exposed
    /\ Go([rd EXCEPT !.pc = "oid", !.listed = {}])
    /\ UNCHANGED <<exposed, refs, local, store, marks, rc>>

SetImported(oid) == marks' = [marks EXCEPT !.work = oid]

\* The OID the import will record.  Nothing listed: the marker moves, if there
\* is a store and it can be written, and the import is over.
ReadOid ==
    LET r == rd IN
    /\ r.pc = "oid"
    /\ \/ /\ r.listed = {}
          /\ (db /\ SetImported(work)) \/ UNCHANGED marks
          /\ Go(Imported(r, TRUE))
       \/ /\ r.listed # {}
          /\ Go([r EXCEPT !.pc = "existing", !.oid = work])
          /\ UNCHANGED marks
    /\ UNCHANGED <<exposed, refs, local, store, rc>>

\* The store is opened (and made); the entities it holds are not imported.
ReadExisting ==
    /\ rd.pc = "existing"
    /\ db' = TRUE
    /\ Go([rd EXCEPT !.pc = "carried",
                           !.listed = {l \in @ : l.ent \notin Present}])
    /\ UNCHANGED <<exposed, refs, local, rows, succ, edges, marks, rc>>

\* With both edge lists read: nothing to do but to move the marker, or a transaction.
Decide(C) ==
    LET r == rd IN
    \/ /\ r.listed = {} /\ C = {}
       /\ SetImported(r.oid) \/ UNCHANGED marks
       /\ Go(Imported(r, TRUE))
    \/ /\ r.listed # {} \/ C # {}
       /\ Go([r EXCEPT !.pc = "import", !.carried = C])
       /\ UNCHANGED marks

ReadCarried ==
    /\ rd.pc = "carried"
    /\ \E C \in CarriedEdges(Visible) : Decide(C)
    /\ UNCHANGED <<exposed, refs, local, store, rc>>

ReadCarriedFails ==
    /\ rd.pc = "carried"
    /\ "list" \in exposed
    /\ Decide({})
    /\ UNCHANGED <<exposed, refs, local, store, rc>>

\* add_note_with_created_at: a row that appeared meanwhile keeps its status.
InsertMissing(status) ==
    rows' = [e \in Entities |->
               IF rows[e] = "none" /\ e \in DOMAIN status THEN status[e] ELSE rows[e]]

\* Mutant: an edge is written whether or not its ends are in the store.
ResolvedAny(C) == {x \in C : x[3] = "supersedes" => x[1] # x[2]}

\* import_carried_edges, import_supersede_edges: both ends in the store, and no
\* entry supersedes itself.
Resolved(C) ==
    {x \in C : /\ rows'[x[1]] # "none" /\ rows'[x[2]] # "none"
               /\ x[3] = "supersedes" => x[1] # x[2]}

\* Mutant: the rows are written over the ones the store has by now.
ImportReplaces ==
    /\ rd.pc = "import"
    /\ rows' = [e \in Entities |-> IF e \in Ents(rd.listed) THEN Status(rd.listed, e) ELSE rows[e]]
    /\ edges' = edges \cup Resolved(rd.carried)
    /\ SetImported(rd.oid)
    /\ Go(Imported(rd, TRUE))
    /\ UNCHANGED <<exposed, refs, local, db, succ, rc>>

\* The transaction: the rows, then the edges, then the marker.
Import ==
    LET r == rd IN
    /\ r.pc = "import"
    /\ InsertMissing([e \in Ents(r.listed) |-> Status(r.listed, e)])
    /\ edges' = edges \cup Resolved(r.carried)
    /\ SetImported(r.oid)
    /\ Go(Imported(r, TRUE))
    /\ UNCHANGED <<exposed, refs, local, db, succ, rc>>

\* Mutant: the marker is written outside the transaction.
ImportFailsMarked ==
    /\ rd.pc = "import"
    /\ SetImported(rd.oid)
    /\ Go(Imported(rd, FALSE))
    /\ UNCHANGED <<exposed, refs, local, store, rc>>

\* git or the store answers with an error, the database is busy or a statement
\* fails: rolled back, and the read goes on.
ImportFails ==
    /\ rd.pc \in {"list", "existing", "carried", "import"}
    /\ Go(Imported(rd, FALSE))
    /\ UNCHANGED <<exposed, refs, local, store, marks, rc>>

\* set_notes_merged_tracking_oid, with the OID read at the start, whatever
\* became of the merge.
Mark ==
    LET r == rd IN
    /\ r.pc = "mark"
    /\ \/ /\ r.moved
          /\ db' = TRUE
          /\ marks' = [marks EXCEPT !.track = r.trk]
       \/ UNCHANGED <<db, marks>>  \* not moved, or the store cannot be written
    /\ Go([r EXCEPT !.pc = "done"])
    /\ UNCHANGED <<exposed, refs, local, rows, succ, edges, rc>>

Return ==
    /\ rd.pc = "done"
    /\ Go(Idle)
    /\ UNCHANGED <<exposed, refs, local, store, marks, rc>>

\* The process dies; an open transaction is rolled back.
Crash ==
    /\ rd.pc \notin {"idle", "done"}
    /\ Go(Idle)
    /\ UNCHANGED <<exposed, refs, local, store, marks, rc>>

-----------------------------------------------------------------------------
(***************************************************************************)
(* git: the user's fetch and pull                                          *)
(***************************************************************************)
Fetch(l) ==
    /\ l \notin track
    /\ track' = track \cup {l}
    /\ UNCHANGED <<exposed, work, merged, local, store, marks, rd, rc>>

HeadMoves ==
    /\ ~merged
    /\ merged' = TRUE
    /\ UNCHANGED <<exposed, track, work, local, store, marks, rd, rc>>

-----------------------------------------------------------------------------
(***************************************************************************)
(* Local commands: the store first, then the carrier                       *)
(***************************************************************************)
Line(e, arch, s, rel) == [ent |-> e, arch |-> arch, succ |-> s, rel |-> rel]

\* A command has written the store and leaves these lines to append.
Carry(L) ==
    /\ locals < MaxLocal
    /\ locals' = locals + 1
    /\ out' = out \cup L
    /\ db' = TRUE
    /\ UNCHANGED <<exposed, refs, marks, rd, rc>>

\* memory add, with or without --relates-to; known content keeps its row.
LocalAdd(e, rel) ==
    /\ InsertMissing([x \in {e} |-> "active"])
    /\ edges' = edges \cup (IF rel = NoEntity THEN {} ELSE {<<e, rel, "relates_to">>})
    /\ Carry({Line(e, FALSE, NoEntity, rel)})
    /\ UNCHANGED succ

\* The UPDATE of a superseded row, and its edge.
Supersede(old, new) ==
    /\ succ' = [succ EXCEPT ![old] = new]
    /\ edges' = edges \cup {<<new, old, "supersedes">>}

\* memory add --supersedes (add_note_superseding): when the content is the old
\* entry's own nothing is archived, and the carrier is told all the same.
LocalAddSuperseding(e, old) ==
    /\ rows[old] = "active"
    /\ \/ e = old /\ UNCHANGED <<rows, succ, edges>>
       \/ /\ e # old
          /\ rows' = [rows EXCEPT ![e] = IF @ = "none" THEN "active" ELSE @,
                                  ![old] = "archived"]
          /\ Supersede(old, e)
    /\ Carry({Line(e, FALSE, NoEntity, NoEntity), Line(old, TRUE, e, NoEntity)})

\* memory supersede.
LocalSupersede(old, new) ==
    /\ old # new
    /\ rows[old] = "active" /\ new \in Present
    /\ rows' = [rows EXCEPT ![old] = "archived"]
    /\ Supersede(old, new)
    /\ Carry({Line(old, TRUE, new, NoEntity)})

\* memory archive.
LocalArchive(e) ==
    /\ rows[e] = "active"
    /\ rows' = [rows EXCEPT ![e] = "archived"]
    /\ Carry({Line(e, TRUE, NoEntity, NoEntity)})
    /\ UNCHANGED <<succ, edges>>

\* append_to_git_notes, append_state_update.
Append(l) ==
    /\ work' = work \cup {l}
    /\ out' = out \ {l}
    /\ UNCHANGED <<exposed, track, merged, locals, store, marks, rd, rc>>

\* The carry failed or the process died: a warning, and the store keeps it.
AppendFails(l) ==
    /\ out' = out \ {l}
    /\ UNCHANGED <<exposed, refs, locals, store, marks, rd, rc>>

-----------------------------------------------------------------------------
(***************************************************************************)
(* memory reconcile: reconcile_project                                     *)
(***************************************************************************)
\* collapse_candidates: one entry per entity, archived if any row of it is.
Candidates == Ents(ServerNotes)

\* build_supersede_edges, without the pairs that collapsed into one entry.
ServerLinks ==
    {<<n.ent, n.succ>> : n \in {k \in ServerNotes : k.succ \in Candidates \ {k.ent}}}

\* The snapshot of the store, and what it lacks.  Embedding follows, so the
\* import comes later.
ReconcileStart ==
    /\ "reconcile" \in exposed
    /\ rc.pc = "idle"
    /\ Candidates # {}
    /\ db' = TRUE
    /\ rc' = LET fresh == Candidates \ Present
             IN  [NoReconcile EXCEPT !.pc = IF fresh = {} THEN "done" ELSE "import",
                                     !.fresh = fresh]
    /\ UNCHANGED <<exposed, refs, local, rows, succ, edges, marks, rd>>

\* Mutant: links only to entries that were there before the batch.
ReconcileImportOldOnly ==
    /\ rc.pc = "import"
    /\ InsertMissing([e \in rc.fresh |-> Status(ServerNotes, e)])
    /\ rc' = [rc EXCEPT !.pc = "link",
                !.links = {x \in ServerLinks : /\ x[1] \in rc.fresh /\ x[2] \in Present
                                               /\ Status(ServerNotes, x[1]) = "archived"}]
    /\ UNCHANGED <<exposed, refs, local, db, succ, edges, marks, rd>>

\* import_batch: one transaction.
ReconcileImport ==
    /\ rc.pc = "import"
    /\ InsertMissing([e \in rc.fresh |-> Status(ServerNotes, e)])
    /\ rc' = [rc EXCEPT !.pc = "link",
                !.links = {x \in ServerLinks : /\ x[1] \in rc.fresh
                                               /\ Status(ServerNotes, x[1]) = "archived"}]
    /\ UNCHANGED <<exposed, refs, local, db, succ, edges, marks, rd>>

\* set_superseded_by, one imported row after the other; a failure is counted.
ReconcileLink ==
    /\ rc.pc = "link"
    /\ \E x \in rc.links :
         \/ /\ succ' = [succ EXCEPT ![x[1]] = x[2]]
            /\ rc' = [rc EXCEPT !.links = @ \ {x}]
         \/ /\ UNCHANGED succ
            /\ rc' = [rc EXCEPT !.links = @ \ {x}, !.unresolved = @ \cup {x}]
    /\ UNCHANGED <<exposed, refs, local, db, rows, edges, marks, rd>>

ReconcileDone ==
    /\ rc.pc = "link" /\ rc.links = {}
    /\ rc' = [rc EXCEPT !.pc = "done"]
    /\ UNCHANGED <<exposed, refs, local, store, marks, rd>>

\* The command returns, or fails or dies on the way.
ReconcileEnds ==
    /\ rc.pc # "idle"
    /\ rc' = NoReconcile
    /\ UNCHANGED <<exposed, refs, local, store, marks, rd>>

-----------------------------------------------------------------------------
ReadStep ==
    \/ ReadMarker \/ Merge \/ List \/ ReadOid \/ ReadExisting
    \/ ReadCarried \/ Import \/ Mark \/ Return

ReadFault ==
    \/ MergeSkipped \/ ListFails \/ ReadCarriedFails \/ ImportFails
    \/ Crash

LocalCommand ==
    \/ \E e \in LocalEntities :
         \/ \E rel \in (Present \ {e}) \cup {NoEntity} : LocalAdd(e, rel)
         \/ \E old \in Entities : LocalAddSuperseding(e, old)
    \/ \E e \in Entities :
         \/ LocalArchive(e)
         \/ \E new \in Entities : LocalSupersede(e, new)

Reconcile ==
    \/ ReconcileStart \/ ReconcileImport \/ ReconcileLink \/ ReconcileDone
    \/ ReconcileEnds

Next ==
    \/ Begin \/ BeginInit \/ ReadStep \/ ReadFault \/ OtherMerge
    \/ \E l \in TeamLines : Fetch(l)
    \/ HeadMoves
    \/ LocalCommand
    \/ \E l \in out : Append(l) \/ AppendFails(l)
    \/ Reconcile

Spec == Init /\ [][Next]_vars

-----------------------------------------------------------------------------
(***************************************************************************)
(* Properties                                                              *)
(***************************************************************************)
\* The entities of these lines have rows, and every relation or supersede
\* between two of them has its edge; a line on the ref may by now name another
\* successor, or one that makes no edge: the entry itself (LocalAddSuperseding), or
\* an entity that none of these lines is about.
Holds(L) ==
    /\ Ents(L) \subseteq Present
    /\ \A l \in L :
         /\ l.rel \in Ents(L) => <<l.ent, l.rel, "relates_to">> \in edges
         /\ l.succ \in Ents(L) \ {l.ent} =>
              \E k \in L \cup work :
                 /\ k.ent = l.ent /\ k.succ # NoEntity
                 /\ \/ k.succ \notin Ents(L) \ {l.ent}
                    \/ <<k.succ, l.ent, "supersedes">> \in edges

\* The marker and the store never disagree: what is on the working ref whose
\* OID the store records as imported is in the store, through crashes, failed
\* imports, skipped merges, local writes and a reconcile, as long as git
\* answers, HEAD stays and nobody else merges (set_notes_imported_working_oid:
\* "a crash cannot leave the two disagreeing").
MarkerIsTrue ==
    exposed \cap {"list", "head", "others"} = {} => Holds(marks.work)

\* A read that could merge and import returns a store that holds what the last
\* fetch before it brought (refresh_read_path_from_git_notes).
FetchedIsRead ==
    rd.pc = "done" /\ rd.ok /\ exposed \subseteq {"reconcile"} => Holds(rd.trk)

\* No row is lost or un-archived, also when a still-active copy arrives by an
\* import that began before the entry was archived here (docs/memory.md:58).
ArchiveSticks ==
    [][\A e \in Entities : /\ rows[e] # "none" => rows'[e] # "none"
                           /\ rows[e] = "archived" => rows'[e] = "archived"]_vars

\* A reconcile that returns has brought every entry of the server.db, and every
\* archived entry it inserted is linked to a successor or reported as
\* unresolved, whatever local commands and reads did while it was embedding
\* (reconcile_project).
ReconcileCompletes ==
    rc.pc = "done" =>
        /\ Candidates \subseteq Present
        /\ \A x \in ServerLinks :
             x[1] \in rc.fresh /\ Status(ServerNotes, x[1]) = "archived" =>
                 succ[x[1]] # NoEntity \/ x \in rc.unresolved
=============================================================================
