------------------------------- MODULE Relay -------------------------------
(***************************************************************************)
(* The local relay composed with MemorySync: a daemon on the machine that  *)
(* pushes a store's outbox to the team server and catches up from it in    *)
(* the background, while CLI commands register, poll and acknowledge       *)
(* (inkentry-server relay/mod.rs and handlers/sync.rs, inkentry-cli        *)
(* cmd/memory/outbox.rs).  The stores and the server are MemorySync's, and *)
(* `inkentry sync` may run at the same time.                               *)
(*                                                                         *)
(* Abstractions.                                                           *)
(*  - One relay session: every store here belongs to one (server, project) *)
(*    pair declared by local configuration.                                *)
(*  - last_error, last_synced_at and the bearer are left out.              *)
(*  - A frame of the event stream is a wake-up.  Rows whose created_at is  *)
(*    in the second the stream has already passed, or beyond its 50 rows   *)
(*    of one second, get no frame: which ones is not determined.           *)
(***************************************************************************)
EXTENDS MemorySync

CONSTANTS
    NudgeCap,    \* MAX_NUDGE_ENTRIES
    MaxBuffer,   \* MAX_BUFFERED_ITEMS_PER_SESSION
    MaxTasks     \* bound on the push tasks in flight

ASSUME RelayAssumption ==
    /\ Clients # {}
    /\ NudgeCap \in Nat \ {0}
    /\ MaxBuffer \in Nat \ {0}
    /\ MaxTasks \in Nat \ {0}

VARIABLES
    rl,      \* the session and its pull loop
    tasks,   \* tasks[k]: the detached push task in slot k
    cli,     \* cli[c]: the CLI command using the relay for store c
    skipped  \* history: active entries a seed took the cursor past, unfetched

relayVars == <<rl, tasks, cli, skipped>>
allVars == <<vars, relayVars>>

-----------------------------------------------------------------------------
Slots == 1..MaxTasks

Relays ==
    [up      : BOOLEAN,                                \* the session is registered
     cur     : 0..MaxId,
     results : SUBSET (Clients \X Entities \X Ids),    \* push_results
     pulled  : SUBSET (Ids \X Entities),
     pc      : {"off", "fetch", "buffer", "connect", "read"},
     from    : 0..MaxId,                               \* cursor of the request under way
     page    : SUBSET (Ids \X Entities),
     conn    : BOOLEAN,                                \* the stream is open
     seen    : 0..MaxId]                               \* ids the stream has gone past

NoRelay == [up |-> FALSE, cur |-> 0, results |-> {}, pulled |-> {}, pc |-> "off",
            from |-> 0, page |-> {}, conn |-> FALSE, seen |-> 0]

Tasks == [st : {"free", "send", "answered"}, own : Clients,
          offer : SUBSET Entities, acks : SUBSET (Entities \X Ids)]

FreeTask == [st |-> "free", own |-> CHOOSE c \in Clients : TRUE, offer |-> {}, acks |-> {}]

RelayCommands ==
    [pc      : {"idle", "send", "poll", "apply"},
     offer   : SUBSET Entities,
     since   : 0..MaxId,
     results : SUBSET (Clients \X Entities \X Ids),  \* of the poll, not applied yet
     pulled  : SUBSET (Ids \X Entities),
     ackPush : SUBSET Entities,
     ackPull : SUBSET Ids]

NoCommand == [pc |-> "idle", offer |-> {}, since |-> 0,
              results |-> {}, pulled |-> {}, ackPush |-> {}, ackPull |-> {}]

RelayTypeOK ==
    /\ TypeOK
    /\ rl \in Relays
    /\ Cardinality(rl.results) <= MaxBuffer /\ Cardinality(rl.pulled) <= MaxBuffer
    /\ tasks \in [Slots -> Tasks]
    /\ cli \in [Clients -> RelayCommands]
    /\ skipped \subseteq Ids

RelayInit ==
    /\ Init
    /\ rl = NoRelay
    /\ tasks = [k \in Slots |-> FreeTask]
    /\ cli = [c \in Clients |-> NoCommand]
    /\ skipped = {}

-----------------------------------------------------------------------------
(* The CLI's side: push_and_start_pull_task. *)

Do(c, command) == cli' = [cli EXCEPT ![c] = command]

Unstamped(c) == {e \in Entities : loc[c][e].st = "active" /\ loc[c][e].rid = 0}

\* rows_for_sync, the first NudgeCap rows of the outbox, and max_remote_id.  A
\* row stamped between the two reads is offered once more, as is one stamped
\* right after them.
NudgeRows(c) ==
    /\ cli[c].pc = "idle"
    /\ \E K \in SUBSET Unstamped(c) :
        /\ Cardinality(K) = Min({NudgeCap, Cardinality(Unstamped(c))})
        /\ Do(c, [NoCommand EXCEPT !.pc = "send", !.offer = K, !.since = MaxRemoteId(c)])
    /\ UNCHANGED <<vars, rl, tasks, skipped>>

\* A command that wrote is over once its registration was sent, one that reads
\* goes on to poll.
Registered(c) == Do(c, NoCommand) \/ Do(c, [NoCommand EXCEPT !.pc = "poll"])

\* Mutant of SeedCursor: a stale registration sets the cursor back.
SeedAlways(cur, since) == since

\* seed_cursor: never back.
SeedCursor(cur, since) == Max({cur, since})

\* Active entries between two cursors that are neither buffered nor in a store.
Unfetched(lo, hi) ==
    {i \in ActiveIds : /\ lo < i /\ i <= hi
                       /\ <<i, srv[i].ent>> \notin rl.pulled
                       /\ \A c \in Clients : loc[c][srv[i].ent].st = "none"}

\* RelayRegistry::push: find or create the session, seed its cursor, start its
\* pull loop, and leave the entries to a task of their own.
Register(c) ==
    LET cur == SeedCursor(rl.cur, cli[c].since) IN
    /\ cli[c].pc = "send"
    /\ rl' = IF rl.up THEN [rl EXCEPT !.cur = cur]
             ELSE [NoRelay EXCEPT !.up = TRUE, !.cur = cur, !.pc = "fetch", !.from = cur]
    /\ skipped' = skipped \cup Unfetched(rl.cur, cur)
    /\ IF cli[c].offer = {} THEN UNCHANGED tasks
       ELSE \E k \in Slots :
            /\ tasks[k].st = "free"
            /\ tasks' = [tasks EXCEPT ![k] =
                           [st |-> "send", own |-> c, offer |-> cli[c].offer, acks |-> {}]]
    /\ Registered(c)
    /\ UNCHANGED vars

\* The request is dropped on the way; its failure is ignored.
RegisterLost(c) ==
    /\ "fault" \in Events
    /\ cli[c].pc = "send"
    /\ Registered(c)
    /\ UNCHANGED <<vars, rl, tasks, skipped>>

-----------------------------------------------------------------------------
(* RelaySession::push. *)

SetTask(k, t) == tasks' = [tasks EXCEPT ![k] = t]

\* The relay never sends ids along.
NoIds == [e \in Entities |-> 0]

\* POST /memory/batch reaches the server; an error answer ends the task.
TaskSent(k) ==
    LET t == tasks[k] IN
    /\ t.st = "send"
    /\ \E o \in Outcomes(t.own, t.offer, NoIds) :
        /\ Insert(t.own, DOMAIN o.ids, o.ids)
        /\ SetTask(k, IF o.ok THEN [t EXCEPT !.st = "answered", !.offer = {},
                                             !.acks = Results(t.own, t.offer, o.ids)]
                      ELSE FreeTask)
    /\ UNCHANGED <<loc, ses, rl, cli, skipped>>

\* Results replace what is buffered under the same external_id; new ones are
\* taken in up to the cap, the rest is dropped.
BufferedResults(R) ==
    LET key(r) == <<r[1], r[2]>>
        kept == {r \in rl.results : \A n \in R : key(n) # key(r)}
        again == {n \in R : \E r \in rl.results : key(n) = key(r)}
        room == MaxBuffer - Cardinality(kept \cup again)
    IN  {kept \cup again \cup N : N \in
            {S \in SUBSET (R \ again) :
                Cardinality(S) = Min({room, Cardinality(R \ again)})}}

\* The answer arrives and its results are buffered.
TaskAnswered(k) ==
    LET t == tasks[k] IN
    /\ t.st = "answered"
    /\ \E B \in BufferedResults({<<t.own, a[1], a[2]>> : a \in t.acks}) :
        rl' = [rl EXCEPT !.results = B]
    /\ SetTask(k, FreeTask)
    /\ UNCHANGED <<vars, cli, skipped>>

\* The request, or its answer, is lost.
TaskFails(k) ==
    /\ "fault" \in Events
    /\ tasks[k].st # "free"
    /\ SetTask(k, FreeTask)
    /\ UNCHANGED <<vars, rl, cli, skipped>>

-----------------------------------------------------------------------------
(* run_pull_loop, stream_once, catch_up; memory_stream on the server. *)

Loop(r) == rl' = r /\ UNCHANGED <<vars, tasks, cli, skipped>>

\* Where the loop goes on after a catch-up.
AfterCatchUp(r) == IF r.conn THEN "read" ELSE "connect"

\* GET /memory/since with the cursor read before the request.
CatchUpFetch ==
    /\ rl.pc = "fetch"
    /\ Loop([rl EXCEPT !.pc = "buffer", !.from = 0,
               !.page = {<<i, srv[i].ent>> : i \in
                           IF ProjectExists THEN NotesSinceId(rl.from) ELSE {}}])

CatchUpFails ==
    /\ "fault" \in Events
    /\ rl.pc = "fetch"
    /\ Loop([rl EXCEPT !.pc = AfterCatchUp(rl), !.from = 0])

\* Mutant of Buffered: no cap.
BufferedAll(page, pulled) == page

\* The entries of a page up to the first that finds no room.
Buffered(page, pulled) ==
    {p \in page : Cardinality(pulled \cup {q \in page : q[1] <= p[1]}) <= MaxBuffer}

CatchUpBuffer ==
    LET B == Buffered(rl.page, rl.pulled) IN
    /\ rl.pc = "buffer"
    /\ Loop([rl EXCEPT !.pc = AfterCatchUp(rl), !.page = {},
                       !.pulled = @ \cup B,
                       !.cur = Max({p[1] : p \in B} \cup {@})])

\* The stream is opened on a known project, and a catch-up follows.
Connect ==
    /\ rl.pc = "connect"
    /\ ProjectExists
    /\ Loop([rl EXCEPT !.pc = "fetch", !.from = rl.cur, !.conn = TRUE,
                       !.seen = next])

\* The server looks for rows newer than the last it sent, once a second, and
\* sends a frame for each it finds; each is answered by a catch-up.
ReadFrame ==
    /\ rl.pc = "read"
    /\ \E i \in ActiveIds :
        /\ i > rl.seen
        /\ Loop([rl EXCEPT !.pc = "fetch", !.from = rl.cur, !.seen = i])

\* The stream ends or breaks: reconnect after the backoff.
StreamEnds ==
    /\ "fault" \in Events
    /\ rl.pc = "read"
    /\ Loop([rl EXCEPT !.pc = "connect", !.conn = FALSE, !.seen = 0])

\* retire_if_idle: no CLI call for 30 minutes, far beyond any request timeout.
Retire ==
    /\ rl.up
    /\ rl.conn \/ rl.pc = "connect"
    /\ \A k \in Slots : tasks[k].st = "free"
    /\ Loop(NoRelay)

\* The daemon stops; what it kept is gone.
DaemonStops ==
    /\ "restart" \in Events
    /\ rl.up
    /\ rl' = NoRelay
    /\ tasks' = [k \in Slots |-> FreeTask]
    /\ UNCHANGED <<vars, cli, skipped>>

-----------------------------------------------------------------------------
(* poll_and_apply. *)

\* GET /local/relay/poll: a peek, empty when there is no session.
Poll(c) ==
    /\ cli[c].pc = "poll"
    /\ Do(c, [cli[c] EXCEPT !.pc = "apply", !.results = rl.results, !.pulled = rl.pulled])
    /\ UNCHANGED <<vars, rl, tasks, skipped>>

\* One push result: stamped and acknowledged when the row is in this store.
ApplyResult(c) ==
    /\ cli[c].pc = "apply"
    /\ \E r \in cli[c].results :
        LET own == r[1] = c /\ loc[c][r[2]].st # "none" IN
        /\ IF own THEN SetRow(c, r[2], SetRemoteId(loc[c][r[2]], r[3])) ELSE UNCHANGED loc
        /\ Do(c, [cli[c] EXCEPT !.results = @ \ {r},
                                !.ackPush = IF own THEN @ \cup {r[2]} ELSE @])
    /\ UNCHANGED <<next, srv, ses, rl, tasks, skipped>>

\* Once the results are through, the pulled entries, in any order.
ApplyPulled(c) ==
    /\ cli[c].pc = "apply"
    /\ cli[c].results = {}
    /\ \E p \in cli[c].pulled :
        /\ ApplyRemoteNote(c, p[1], p[2])
        /\ Do(c, [cli[c] EXCEPT !.pulled = @ \ {p}, !.ackPull = @ \cup {p[1]}])
    /\ UNCHANGED <<next, srv, ses, rl, tasks, skipped>>

\* An entry that cannot be written is not acknowledged.
ApplyFails(c) ==
    /\ "fault" \in Events
    /\ cli[c].pc = "apply"
    /\ \/ \E r \in cli[c].results : Do(c, [cli[c] EXCEPT !.results = @ \ {r}])
       \/ /\ cli[c].results = {}
          /\ \E p \in cli[c].pulled : Do(c, [cli[c] EXCEPT !.pulled = @ \ {p}])
    /\ UNCHANGED <<vars, rl, tasks, skipped>>

\* Mutant of Retired: an acknowledgement empties the buffers.
RetiredAll(r, c) == [r EXCEPT !.results = {}, !.pulled = {}]

\* Mutant of Retired: acknowledged entries stay.
RetiredNone(r, c) == r

\* RelaySession::ack retires what the command names.
Retired(r, c) ==
    [r EXCEPT !.results = {x \in @ : x[1] # c \/ x[2] \notin cli[c].ackPush},
              !.pulled = {p \in @ : p[1] \notin cli[c].ackPull}]

\* POST /local/relay/ack, and the command goes on with its own work.
Ack(c) ==
    /\ cli[c].pc = "apply"
    /\ cli[c].results = {} /\ cli[c].pulled = {}
    /\ rl' = Retired(rl, c)
    /\ Do(c, NoCommand)
    /\ UNCHANGED <<vars, tasks, skipped>>

\* The command is killed, or a request of its own fails: no ack is sent.
CommandEnds(c) ==
    /\ "fault" \in Events
    /\ cli[c].pc # "idle"
    /\ Do(c, NoCommand)
    /\ UNCHANGED <<vars, rl, tasks, skipped>>

-----------------------------------------------------------------------------
RelayStep(c) ==
    \/ Register(c)
    \/ Poll(c)
    \/ ApplyResult(c)
    \/ ApplyPulled(c)
    \/ Ack(c)

TaskStep(k) == TaskSent(k) \/ TaskAnswered(k)

LoopStep == CatchUpFetch \/ CatchUpBuffer \/ Connect \/ ReadFrame

RelayFault ==
    \/ CatchUpFails
    \/ StreamEnds
    \/ DaemonStops
    \/ \E k \in Slots : TaskFails(k)
    \/ \E c \in Clients : RegisterLost(c) \/ ApplyFails(c) \/ CommandEnds(c)

RelayNext ==
    \/ Next /\ UNCHANGED relayVars
    \/ \E c \in Clients : NudgeRows(c) \/ RelayStep(c)
    \/ \E k \in Slots : TaskStep(k)
    \/ LoopStep
    \/ Retire
    \/ RelayFault

RelaySpec == RelayInit /\ [][RelayNext]_allVars
-----------------------------------------------------------------------------
(* Properties. *)

\* Every active entry at or behind the session's cursor is buffered or in a
\* store, or a registration's seed jumped over it: neither the cap, nor an
\* acknowledgement that raced a catch-up, nor a lost answer makes the relay
\* forget an entry it has passed (catch_up, ack).
CursorCovers ==
    rl.up =>
        \A i \in ActiveIds :
            i <= rl.cur =>
                \/ <<i, srv[i].ent>> \in rl.pulled
                \/ i \in skipped
                \/ \E c \in Clients : loc[c][srv[i].ent].st # "none"

\* The cursor of a session never goes back, however late a registration that
\* read an old cursor arrives (seed_cursor).
CursorGrows == [][rl.up /\ rl'.up => rl'.cur >= rl.cur]_allVars
=============================================================================
