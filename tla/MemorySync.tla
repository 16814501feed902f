----------------------------- MODULE MemorySync -----------------------------
(***************************************************************************)
(* Memory sync between the local stores of several machines and one        *)
(* project of a team server: `inkentry sync` (pull, push, confirmation     *)
(* pull), `inkentry plumbing push [--force]`, and the server's batch,      *)
(* since and delete routes                                                 *)
(* (inkentry-cli cmd/memory/sync, inkentry-core storage/memory/sync.rs     *)
(* and storage/remote/sync.rs, inkentry-server db.rs and handlers).        *)
(*                                                                         *)
(* Abstractions.                                                           *)
(*  - The content of an entry is its entity_id: a store holds at most one  *)
(*    row per entity (idx_notes_entity_id), so client c's row of entity e  *)
(*    is loc[c][e], and its uuid, pushed as external_id, is <<c, e>>.      *)
(*  - Server ids are minted from one growing clock (Uuid::now_v7 under the *)
(*    server's database lock): the numbers 1, 2, ... .  0 stands for NULL  *)
(*    and for the all-zero cursor.                                         *)
(*  - One HTTP request is one server step (each handler holds the database *)
(*    lock throughout); one SQL statement is one local step.               *)
(*  - Vectors, anchors and relates_to edges ride along and decide nothing  *)
(*    here; the since feed of this server never sends archived rows.       *)
(***************************************************************************)
EXTENDS Naturals, FiniteSets, FiniteSetsExt, Functions

CONSTANTS
    Clients,     \* machines, one local store and one sync session each
    Entities,    \* entity ids
    NoExt,       \* external_id of a row written by a direct POST /memory
    MaxId,       \* bound on the ids the server mints
    PageSize,    \* MEMORY_SINCE_PULL_LIMIT
    ChunkSize,   \* PUSH_BATCH_CHUNK_SIZE
    Commands,    \* subset of {"sync", "push", "force"}
    Events       \* subset of {"team", "archive", "tombstone", "remove", "reset",
                 \* "restore", "fault"}

ASSUME SyncAssumption ==
    /\ IsFiniteSet(Entities) /\ Entities # {}
    /\ IsFiniteSet(Clients)
    /\ NoExt \notin Clients \X Entities
    /\ MaxId \in Nat
    /\ PageSize \in Nat \ {0}
    /\ ChunkSize \in Nat \ {0}
    /\ Commands \subseteq {"sync", "push", "force"}

VARIABLES
    next,   \* how many ids the server has minted
    srv,    \* srv[i]: the server row of id i
    loc,    \* loc[c][e]: client c's row of entity e
    ses     \* ses[c]: the command client c is running

vars == <<next, srv, loc, ses>>

-----------------------------------------------------------------------------
Ids == 1..MaxId

\* "deleted": removed by DELETE /memory/{id}; "lost": gone with a lost database.
ServerRows == [st  : {"none", "active", "archived", "deleted", "lost"},
               ent : Entities,
               ext : (Clients \X Entities) \cup {NoExt}]

LocalRows == [st : {"none", "active", "archived"}, rid : 0..MaxId]

Sessions ==
    [pc        : {"idle", "pull", "apply", "rows", "push", "done"},
     cmd       : {"sync", "push", "force"},
     archived  : BOOLEAN,                       \* --include-archived
     base      : 0..MaxId,                      \* pre_round_cursor
     confirm   : BOOLEAN,                       \* the pull after the push
     cur       : 0..MaxId,                      \* cursor of the drain under way
     page      : SUBSET (Ids \X Entities),      \* entries not applied yet
     more      : BOOLEAN,                       \* the page was full
     total     : 0..MaxId,                      \* last server total; 0 when none was sent
     repull    : BOOLEAN,                       \* the drain from the start is under way
     offer     : SUBSET Entities,               \* live rows not sent yet
     acks      : SUBSET (Entities \X Ids),      \* results not stamped yet
     tombs     : SUBSET Ids,                    \* remote ids still to DELETE
     result    : {"ok", "interrupted", "refused"},
     due       : SUBSET Ids,       \* history: rows active when the command began
     disturbed : BOOLEAN]          \* history: an Add or a lost database meanwhile

Idle == [pc |-> "idle", cmd |-> "sync", archived |-> FALSE, base |-> 0,
         confirm |-> FALSE, cur |-> 0, page |-> {}, more |-> FALSE, total |-> 0,
         repull |-> FALSE, offer |-> {}, acks |-> {}, tombs |-> {},
         result |-> "ok", due |-> {}, disturbed |-> FALSE]

\* One type invariant for the module.
TypeOK ==
    /\ next \in 0..MaxId
    /\ srv \in [Ids -> ServerRows]
    /\ loc \in [Clients -> [Entities -> LocalRows]]
    /\ ses \in [Clients -> Sessions]

Init ==
    /\ next = 0
    /\ srv = [i \in Ids |-> [st |-> "none", ent |-> CHOOSE e \in Entities : TRUE,
                             ext |-> NoExt]]
    /\ loc = [c \in Clients |-> [e \in Entities |-> [st |-> "none", rid |-> 0]]]
    /\ ses = [c \in Clients |-> Idle]

-----------------------------------------------------------------------------
(* Reads of the two databases. *)

HasStatus(S) == {i \in Ids : srv[i].st \in S}

ActiveIds == HasStatus({"active"})

\* A project exists once something was written to it.
ProjectExists == HasStatus({"active", "archived", "deleted"}) # {}

\* notes_since_id: active rows behind the cursor, the lowest PageSize of them.
NotesSinceId(cursor) ==
    LET S == {i \in ActiveIds : i > cursor}
    IN  {i \in S : Cardinality({k \in S : k <= i}) <= PageSize}

Count(c) == Cardinality({e \in Entities : loc[c][e].st = "active"})

MaxRemoteId(c) == Max({loc[c][e].rid : e \in Entities} \cup {0})

\* Ids the server holds a row for; the row's ext and its id are unique among them.
Stored == HasStatus({"active", "archived"})

\* find_by_remote_ids: a row of this external_id that is still active.
FindByRemoteId(ext) == {i \in ActiveIds : srv[i].ext = ext}

-----------------------------------------------------------------------------
(* The local store. *)

Go(c, s) == ses' = [ses EXCEPT ![c] = s]

SetRow(c, e, row) == loc' = [loc EXCEPT ![c][e] = row]

Disturb(C) ==
    ses' = [c \in Clients |->
              IF c \in C /\ ses[c].pc # "idle"
              THEN [ses[c] EXCEPT !.disturbed = TRUE] ELSE ses[c]]

\* A new entry; adding the content of an archived row leaves it archived.
Add(c, e) ==
    /\ loc[c][e].st = "none"
    /\ SetRow(c, e, [st |-> "active", rid |-> 0])
    /\ Disturb({c})
    /\ UNCHANGED <<next, srv>>

Archive(c, e) ==
    /\ "archive" \in Events
    /\ loc[c][e].st = "active"
    /\ SetRow(c, e, [loc[c][e] EXCEPT !.st = "archived"])
    /\ UNCHANGED <<next, srv, ses>>

\* set_remote_id: UPDATE ... WHERE remote_id IS NULL.
SetRemoteId(row, id) == IF row.rid = 0 THEN [row EXCEPT !.rid = id] ELSE row

\* apply_remote_note: known by remote_id, or inserted, or adopted by the row
\* that already holds the same content.
ApplyRemoteNote(c, id, e) ==
    IF \E f \in Entities : loc[c][f].rid = id
    THEN UNCHANGED loc
    ELSE SetRow(c, e, IF loc[c][e].st = "none"
                      THEN [st |-> "active", rid |-> id]
                      ELSE SetRemoteId(loc[c][e], id))

-----------------------------------------------------------------------------
(* Commands: sync_round with its first-sync variant, push_local_oneway. *)

Begin(c, cmd, archived, s) ==
    /\ cmd \in Commands
    /\ archived => "tombstone" \in Events
    /\ ses[c].pc = "idle"
    /\ Go(c, [s EXCEPT !.cmd = cmd, !.archived = archived])
    /\ UNCHANGED <<next, srv, loc>>

\* sync_round: without a cursor the push goes first.
StartSync(c, archived) ==
    LET base == MaxRemoteId(c) IN
    Begin(c, "sync", archived,
          [Idle EXCEPT !.pc = IF base = 0 THEN "rows" ELSE "pull",
                       !.base = base, !.cur = base, !.due = ActiveIds])

StartPush(c, cmd, archived) ==
    /\ cmd # "sync"
    /\ Begin(c, cmd, archived, [Idle EXCEPT !.pc = "rows"])

-----------------------------------------------------------------------------
(* Pull: pull_and_apply_since, drain_pages_since. *)

\* A full page never proves it is the last.
Full(P) == Cardinality(P) = PageSize

\* GET /memory/since; a project the server does not know is an empty page
\* without a total.
PullPage(c) ==
    LET s == ses[c]
        P == IF ProjectExists THEN NotesSinceId(s.cur) ELSE {}
    IN
    /\ s.pc = "pull"
    /\ Go(c, [s EXCEPT !.pc = "apply",
                       !.page = {<<i, srv[i].ent>> : i \in P},
                       !.more = Full(P),
                       !.cur = IF Full(P) THEN Max(P) ELSE s.cur,
                       !.total = IF ProjectExists THEN Cardinality(ActiveIds) ELSE s.total])
    /\ UNCHANGED <<next, srv, loc>>

\* The entries of a page are applied in the order of their ids.
ApplyEntry(c) ==
    LET s == ses[c] IN
    /\ s.pc = "apply"
    /\ \E p \in s.page :
        /\ \A q \in s.page : p[1] <= q[1]
        /\ ApplyRemoteNote(c, p[1], p[2])
        /\ Go(c, [s EXCEPT !.page = @ \ {p}])
    /\ UNCHANGED <<next, srv>>

\* Mutant of Behind: the total the server sends is not compared.
BehindNever(c) == FALSE

\* The server holds more active notes than this store: re-pull from the start,
\* once.
Behind(c) == ~ses[c].repull /\ ses[c].total > Count(c)

\* The page is applied: the next page, the re-pull, or the end of this pull.
PageDone(c) ==
    LET s == ses[c] IN
    /\ s.pc = "apply"
    /\ s.page = {}
    /\ Go(c, IF s.more THEN [s EXCEPT !.pc = "pull"]
             ELSE IF Behind(c)
             THEN [s EXCEPT !.pc = "pull", !.cur = 0, !.repull = TRUE]
             ELSE [s EXCEPT !.pc = IF s.confirm THEN "done" ELSE "rows"])
    /\ UNCHANGED <<next, srv, loc>>

-----------------------------------------------------------------------------
(* Push: push_local_reporting and the server's push_memory_batch. *)

\* Mutant of Tombs: a row without a remote_id is tombstoned as well.
TombsUnstamped(c) == {loc[c][e].rid : e \in {f \in Entities : loc[c][f].st = "archived"}}

\* The ids an --include-archived push has to DELETE: archived rows that were
\* stamped.
Tombs(c) == {loc[c][e].rid : e \in {f \in Entities :
                loc[c][f].st = "archived" /\ loc[c][f].rid # 0}}

\* rows_for_sync: the snapshot the whole push works from.
TakeRows(c) ==
    LET s == ses[c] IN
    /\ s.pc = "rows"
    /\ Go(c, [s EXCEPT
         !.pc = "push",
         !.offer = {e \in Entities : /\ loc[c][e].st = "active"
                                     /\ s.cmd = "force" \/ loc[c][e].rid = 0},
         !.tombs = IF s.archived THEN Tombs(c) ELSE {}])
    /\ UNCHANGED <<next, srv, loc>>

\* Mutant of Supplied: a force push lets the server mint fresh ids.
SuppliesNone(c, e) == 0

\* The id a --force push sends along with a row, 0 when it sends none.
Supplied(c, e) == IF ses[c].cmd = "force" THEN loc[c][e].rid ELSE 0

\* An INSERT of this entry would break a UNIQUE index: its external_id, or the
\* supplied id, belongs to a stored row.
Collides(c, e, id) == \E i \in Stored : srv[i].ext = <<c, e>> \/ i = id

\* Mutant of Assignments: ids count up from 1 again with a new database.
AssignLowest(sup, D) ==
    LET used == HasStatus({"active", "archived", "deleted"})
        M == {e \in D : sup[e] = 0}
        low == {i \in Ids \ used : Cardinality({k \in Ids \ used : k <= i}) <= Cardinality(M)}
    IN {f \in [D -> Ids] :
        /\ IsInjective(f)
        /\ \A e \in D : IF e \in M THEN f[e] \in low ELSE f[e] = sup[e]}

\* The ids under which the entries of D are inserted: the supplied ones, and
\* fresh ones in any order.
Assignments(sup, D) ==
    LET M == {e \in D : sup[e] = 0} IN
    {f \in [D -> Ids] :
        /\ IsInjective(f)
        /\ \A e \in D : IF e \in M THEN f[e] \in (next + 1)..(next + Cardinality(M))
                                   ELSE f[e] = sup[e]}

\* The rows of D are stored under the ids f.
Insert(c, D, f) ==
    /\ next' = next + Cardinality({e \in D : f[e] > next})
    /\ srv' = [i \in Ids |->
                 IF \E e \in D : f[e] = i
                 THEN [st |-> "active", ent |-> CHOOSE e \in D : f[e] = i,
                       ext |-> <<c, CHOOSE e \in D : f[e] = i>>]
                 ELSE srv[i]]

\* The next request: ChunkSize of the rows not sent yet.
Chunks(c) ==
    {K \in SUBSET ses[c].offer :
        Cardinality(K) = Min({ChunkSize, Cardinality(ses[c].offer)})}

\* Mutant of Missing: nothing is looked up before the INSERTs.
MissingAll(c, K) == K

\* The entries of a request the server has no active row for.
Missing(c, K) == {e \in K : FindByRemoteId(<<c, e>>) = {}}

\* push_memory_batch: what the request K of client c, with the supplied ids sup,
\* may lead to: every missing entry is created under the ids of some f, or an
\* INSERT fails and the handler returns its error, the entries before it stored
\* and the ones after it never looked at.
Outcomes(c, K, sup) ==
    LET bad == {e \in Missing(c, K) : Collides(c, e, sup[e])}
        done == IF bad = {} THEN {Missing(c, K)} ELSE SUBSET (Missing(c, K) \ bad)
    IN  UNION {{[ok |-> bad = {}, ids |-> f] : f \in Assignments(sup, D)} : D \in done}

\* The results in the answer to an accepted request: created, or skipped.
Results(c, K, f) ==
    {<<e, f[e]>> : e \in DOMAIN f} \cup
    {r \in (K \ DOMAIN f) \X Ids : r[2] \in FindByRemoteId(<<c, r[1]>>)}

\* A request goes out once the answer to the one before is stamped.
Sending(s) == s.pc = "push" /\ s.acks = {} /\ s.offer # {}

\* What is left to do when a request failed: nothing more is sent.
Interrupt(s, result) ==
    [s EXCEPT !.offer = {}, !.tombs = {}, !.result = result]

\* The ids the command sends along with its rows.
SuppliedIds(c) == [e \in Entities |-> Supplied(c, e)]

\* A request reaches the server: it has the results (207), or it is refused
\* and the push stops.
PushAnswered(c) ==
    LET s == ses[c] IN
    /\ Sending(s)
    /\ \E K \in Chunks(c) : \E o \in Outcomes(c, K, SuppliedIds(c)) :
        /\ Insert(c, DOMAIN o.ids, o.ids)
        /\ Go(c, IF o.ok THEN [s EXCEPT !.offer = @ \ K, !.acks = Results(c, K, o.ids)]
                 ELSE Interrupt(s, "refused"))
    /\ UNCHANGED loc

\* The server did the same, and the answer was lost on the way back.
PushUnanswered(c) ==
    /\ "fault" \in Events
    /\ Sending(ses[c])
    /\ \E K \in Chunks(c) : \E o \in Outcomes(c, K, SuppliedIds(c)) :
        Insert(c, DOMAIN o.ids, o.ids)
    /\ Go(c, Interrupt(ses[c], "interrupted"))
    /\ UNCHANGED loc

\* The request never arrived, or was shed with 429 until the retries ran out.
PushUnsent(c) ==
    /\ "fault" \in Events
    /\ Sending(ses[c])
    /\ Go(c, Interrupt(ses[c], "interrupted"))
    /\ UNCHANGED <<next, srv, loc>>

\* Mutant of Stamp: results handed to the rows of the chunk by position.
StampByPosition(c) ==
    LET s == ses[c] IN
    /\ s.pc = "push"
    /\ \E a \in s.acks, b \in s.acks :
        /\ SetRow(c, a[1], SetRemoteId(loc[c][a[1]], b[2]))
        /\ Go(c, [s EXCEPT !.acks = @ \ {a}])
    /\ UNCHANGED <<next, srv>>

\* One result of the answer is stamped.
Stamp(c) ==
    LET s == ses[c] IN
    /\ s.pc = "push"
    /\ \E a \in s.acks :
        /\ SetRow(c, a[1], SetRemoteId(loc[c][a[1]], a[2]))
        /\ Go(c, [s EXCEPT !.acks = @ \ {a}])
    /\ UNCHANGED <<next, srv>>

\* DELETE /memory/{id}: the row is removed; an unknown id is a success.
Tombstone(c) ==
    LET s == ses[c] IN
    /\ s.pc = "push" /\ s.acks = {} /\ s.offer = {}
    /\ \E i \in s.tombs :
        /\ srv' = IF i \in Stored THEN [srv EXCEPT ![i].st = "deleted"] ELSE srv
        /\ Go(c, [s EXCEPT !.tombs = @ \ {i}])
    /\ UNCHANGED <<next, loc>>

\* The push is over.  A sync pulls again from the cursor it began with, also
\* after an interrupted push.
PushDone(c) ==
    LET s == ses[c] IN
    /\ s.pc = "push" /\ s.acks = {} /\ s.offer = {} /\ s.tombs = {}
    /\ Go(c, IF s.cmd # "sync" THEN [s EXCEPT !.pc = "done"]
             ELSE [s EXCEPT !.pc = "pull", !.confirm = TRUE, !.repull = FALSE,
                            !.cur = s.base, !.total = 0, !.more = FALSE])
    /\ UNCHANGED <<next, srv, loc>>

\* The command returns to its caller.
Return(c) ==
    /\ ses[c].pc = "done"
    /\ Go(c, Idle)
    /\ UNCHANGED <<next, srv, loc>>

\* A failed request or statement ends the command, and so does a crash.
Fail(c) ==
    /\ "fault" \in Events
    /\ ses[c].pc \notin {"idle", "done"}
    /\ Go(c, Idle)
    /\ UNCHANGED <<next, srv, loc>>

-----------------------------------------------------------------------------
(* The server's other callers, and its losses. *)

\* Bound: teammates and lost databases leave the clients an id for every row.
Room(n) == next + n + Cardinality(Clients \X Entities) <= MaxId

\* POST /memory by a teammate without a local store.
TeamAdd(e) ==
    /\ "team" \in Events
    /\ Room(1)
    /\ next' = next + 1
    /\ srv' = [srv EXCEPT ![next + 1] = [st |-> "active", ent |-> e, ext |-> NoExt]]
    /\ UNCHANGED <<loc, ses>>

\* Another machine's push --force puts a row the server lost back under its id.
TeamRestore(i) ==
    /\ "restore" \in Events
    /\ srv[i].st = "lost"
    /\ srv' = [srv EXCEPT ![i].st = "active", ![i].ext = NoExt]
    /\ UNCHANGED <<next, loc, ses>>

\* POST /memory/{id}/archive or /supersede.
ServerArchive(i) ==
    /\ "remove" \in Events
    /\ srv[i].st = "active"
    /\ srv' = [srv EXCEPT ![i].st = "archived"]
    /\ UNCHANGED <<next, loc, ses>>

\* The server comes back with an empty database.
ServerReset ==
    /\ "reset" \in Events
    /\ Stored # {}
    /\ Room(0)
    /\ srv' = [i \in Ids |-> IF srv[i].st = "none" THEN srv[i]
                             ELSE [srv[i] EXCEPT !.st = "lost"]]
    /\ Disturb(Clients)
    /\ UNCHANGED <<next, loc>>

Step(c) ==
    \/ PullPage(c)
    \/ ApplyEntry(c)
    \/ PageDone(c)
    \/ TakeRows(c)
    \/ PushAnswered(c)
    \/ Stamp(c)
    \/ Tombstone(c)
    \/ PushDone(c)
    \/ Return(c)

Fault(c) ==
    \/ PushUnanswered(c)
    \/ PushUnsent(c)
    \/ Fail(c)

Next ==
    \/ \E c \in Clients, e \in Entities : Add(c, e) \/ Archive(c, e)
    \/ \E c \in Clients, archived \in BOOLEAN :
        \/ StartSync(c, archived)
        \/ \E cmd \in Commands : StartPush(c, cmd, archived)
    \/ \E c \in Clients : Step(c) \/ Fault(c)
    \/ \E e \in Entities : TeamAdd(e)
    \/ \E i \in Ids : TeamRestore(i) \/ ServerArchive(i)
    \/ ServerReset

Spec == Init /\ [][Next]_vars
-----------------------------------------------------------------------------
(* Properties. *)

\* A remote_id a store has recorded, from an answer, from a page or across a
\* lost database, is the id of that same entry on the server: a stamp is never
\* on the wrong row (set_remote_id, apply_remote_note).
StampIsTrue ==
    \A c \in Clients, e \in Entities :
        loc[c][e].rid # 0 => /\ srv[loc[c][e].rid].st # "none"
                             /\ srv[loc[c][e].rid].ent = e

\* An id never comes to name another entry, not by a push under supplied ids,
\* nor after the server lost its database (add_note_with_sync_id).
IdsKeepEntity ==
    [][\A i \in Ids : srv[i].st # "none" => srv'[i].ent = srv[i].ent]_vars

\* A sync that returns Ok, with all its pushes answered and no entry added
\* locally meanwhile, leaves the store with every entry that was active on the
\* server when it began and still is: the cursor and the total signal between
\* them skip nothing (sync_round, pull_and_apply_since).
CaughtUp ==
    \A c \in Clients :
        LET s == ses[c] IN
        s.pc = "done" /\ s.result = "ok" /\ ~s.disturbed =>
            \A i \in s.due \cap ActiveIds : loc[c][srv[i].ent].st # "none"

\* A push --force that returns Ok leaves every active entry of the store on the
\* server under the remote_id the store has for it, whatever other machines
\* restored, added or archived meanwhile (push_local_reporting,
\* push_memory_batch).
RestoreComplete ==
    \A c \in Clients :
        LET s == ses[c] IN
        s.pc = "done" /\ s.cmd = "force" /\ s.result = "ok" /\ ~s.disturbed =>
            \A e \in Entities :
                loc[c][e].st = "active" => loc[c][e].rid \in Stored

\* No push without supplied ids is refused: what was already stored is skipped,
\* and what was archived is created afresh (find_by_remote_ids).
RepushIsAccepted ==
    \A c \in Clients : ses[c].cmd # "force" => ses[c].result # "refused"
=============================================================================
