----------------------------- MODULE Relay_proofs -----------------------------
(***************************************************************************)
(* The relay for every number of stores, entries, tasks and commands, any  *)
(* buffer and nudge size, beside any sync: RelayTypeOK, CursorGrows and,   *)
(* as long as no other machine restores a lost database (README, section   *)
(* 9), CursorCovers.  The argument: the ids a server mints lie beyond the  *)
(* cursor; a page in hand holds every active entry up to its last but the  *)
(* ones the relay already knows; and what an acknowledgement names was     *)
(* written to the store of the command that sends it, where it stays.      *)
(***************************************************************************)
EXTENDS Relay, MemorySync_proofs

Store(c, e) == loc[c][e].st # "none"

\* A stamp is on a row, and what a sync offers or stamps is a row.
RowsOK ==
    \A c \in Clients :
        /\ \A e \in Entities : loc[c][e].rid # 0 => Store(c, e)
        /\ \A e \in ses[c].offer : Store(c, e)
        /\ \A a \in ses[c].acks : Store(c, a[1])

\* Pairs and triples that carry an id name its entry.
TruePairs(P) == \A p \in P : Names(p[1], p[2])
TrueResults(R) == \A r \in R : Names(r[3], r[2])

\* The session: its cursor is behind the newest id, and so is a request under way.
SessionOK(r) ==
    /\ r \in Relays
    /\ Cardinality(r.results) <= MaxBuffer /\ Cardinality(r.pulled) <= MaxBuffer
    /\ ~r.up => r.cur = 0 /\ r.pulled = {} /\ r.pc = "off"
    /\ r.cur <= next
    /\ r.pc = "fetch" => r.from <= r.cur
    /\ TruePairs(r.pulled) /\ TruePairs(r.page) /\ TrueResults(r.results)

TaskOK(t) == t \in Tasks /\ \A a \in t.acks : Names(a[2], a[1])

\* What a command has acknowledged its store has.
CommandOK(c, s) ==
    /\ s \in RelayCommands
    /\ s.since <= next
    /\ TruePairs(s.pulled) /\ TrueResults(s.results)
    /\ \A i \in s.ackPull : srv[i].st # "none" /\ Store(c, srv[i].ent)

\* The relay has the entry of row i, a store has it, or a seed jumped over it.
Known(pulled, over, i) ==
    \/ <<i, srv[i].ent>> \in pulled
    \/ i \in over
    \/ \E c \in Clients : Store(c, srv[i].ent)

\* Nothing at or behind the cursor is forgotten, and a page in hand leaves out nothing
\* the relay does not know.
Covers(r, over) ==
    /\ r.up => \A i \in ActiveIds : i <= r.cur => Known(r.pulled, over, i)
    /\ r.pc = "buffer" =>
          \A p \in r.page : \A i \in ActiveIds :
              i <= p[1] => <<i, srv[i].ent>> \in r.page \/ Known(r.pulled, over, i)

RInv ==
    /\ IInv /\ RowsOK
    /\ SessionOK(rl)
    /\ tasks \in [Slots -> Tasks] /\ \A k \in Slots : TaskOK(tasks[k])
    /\ cli \in [Clients -> RelayCommands] /\ \A c \in Clients : CommandOK(c, cli[c])
    /\ skipped \subseteq Ids
    /\ "restore" \notin Events => Covers(rl, skipped)

-----------------------------------------------------------------------------
(* What a step of the stores and the server may do to what the relay holds. *)

\* A store never loses an entry.
LocKept == \A c \in Clients, e \in Entities : Store(c, e) => Store(c, e)'

\* A row that becomes active has a fresh id, or a store has its entry.
ActiveFrom ==
    \A i \in Ids : srv'[i].st = "active" =>
        srv[i].st = "active" \/ i > next \/ \E c \in Clients : Store(c, srv'[i].ent)

CursorKept == rl.up /\ rl'.up => rl'.cur >= rl.cur

LEMMA RelayConstants ==
    /\ Clients # {} /\ NudgeCap \in Nat \ {0} /\ MaxBuffer \in Nat \ {0} /\ MaxTasks \in Nat \ {0}
BY RelayAssumption DEF RelayAssumption

LEMMA KnownKept ==
    ASSUME TypeOK, NamesKept, LocKept, NEW P, NEW Q, P \subseteq Q, skipped \subseteq skipped',
           NEW i \in Ids, srv[i].st # "none", Known(P, skipped, i)
    PROVE  Known(Q, skipped, i)'
<1>1. srv'[i].ent = srv[i].ent /\ srv[i].ent \in Entities
  BY DEF NamesKept, TypeOK, ServerRows
<1> QED BY <1>1 DEF Known, LocKept, Store

LEMMA SessionKept ==
    ASSUME NEW r, SessionOK(r), NamesKept, next \in Int, next' \in Int, next' >= next
    PROVE  SessionOK(r)'
<1>1. r \in Relays /\ r.cur \in Int
  BY Constants DEF SessionOK, Relays
<1>2. /\ \A p \in r.pulled \cup r.page : p[1] \in Ids
      /\ \A p \in r.results : p[3] \in Ids
  BY <1>1 DEF Relays
<1>3. TruePairs(r.pulled)' /\ TruePairs(r.page)' /\ TrueResults(r.results)'
  BY <1>2 DEF SessionOK, TruePairs, TrueResults, Names, NamesKept
<1> QED BY <1>1, <1>3 DEF SessionOK

LEMMA TaskKept ==
    ASSUME NEW t, TaskOK(t), NamesKept
    PROVE  TaskOK(t)'
<1>1. t \in Tasks /\ \A a \in t.acks : a[2] \in Ids
  BY DEF TaskOK, Tasks
<1> QED BY <1>1 DEF TaskOK, Names, NamesKept

LEMMA CommandKept ==
    ASSUME TypeOK, NEW c \in Clients, NEW s, CommandOK(c, s), NamesKept, LocKept,
           next' \in Int, next' >= next
    PROVE  CommandOK(c, s)'
<1>1. s \in RelayCommands /\ s.since \in Int /\ next \in Int
  BY Constants DEF CommandOK, RelayCommands, TypeOK
<1>2. /\ \A p \in s.pulled : p[1] \in Ids
      /\ \A p \in s.results : p[3] \in Ids
      /\ \A i \in s.ackPull : i \in Ids /\ srv[i].ent \in Entities
  BY <1>1 DEF RelayCommands, TypeOK, ServerRows
<1>3. TruePairs(s.pulled)' /\ TrueResults(s.results)'
  BY <1>2 DEF CommandOK, TruePairs, TrueResults, Names, NamesKept
<1>4. \A i \in s.ackPull : srv'[i].st # "none" /\ Store(c, srv[i].ent)' /\ srv'[i].ent = srv[i].ent
  BY <1>2 DEF CommandOK, NamesKept, LocKept
<1>5. \A i \in s.ackPull : srv'[i].st # "none" /\ loc'[c][srv'[i].ent].st # "none"
  BY <1>4 DEF Store
<1>6. s.since <= next'
  BY <1>1 DEF CommandOK
<1> QED BY <1>1, <1>3, <1>5, <1>6 DEF CommandOK, Store

LEMMA CoversKept ==
    ASSUME IInv, NEW r, SessionOK(r), Covers(r, skipped), NamesKept, LocKept, ActiveFrom,
           skipped \subseteq skipped'
    PROVE  Covers(r, skipped)'
<1>1. /\ r \in Relays /\ r.cur \in Int /\ next \in Int /\ TypeOK
      /\ \A p \in r.page : p[1] \in Ids /\ p[1] <= next
  BY Constants DEF SessionOK, Relays, IInv, TypeOK, TruePairs, Names, Minted
<1>2. \A i \in Ids : i \in Int
  BY Constants DEF Ids
<1>3. ASSUME NEW i \in Ids, srv'[i].st = "active", i <= next
      PROVE  \/ srv[i].st = "active" /\ srv'[i].ent = srv[i].ent
             \/ Known(r.pulled, skipped, i)'
  <2>1. CASE srv[i].st = "active"
    BY <2>1 DEF NamesKept
  <2>2. CASE srv[i].st # "active"
    <3>1. \E c \in Clients : Store(c, srv'[i].ent)
      BY <1>1, <1>2, <1>3, <2>2 DEF ActiveFrom
    <3>2. srv[i].st # "none"
      BY <1>3 DEF IInv, Minted
    <3>3. srv'[i].ent = srv[i].ent /\ srv[i].ent \in Entities
      BY <1>1, <3>2 DEF NamesKept, TypeOK, ServerRows
    <3> QED BY <3>1, <3>3 DEF Known, LocKept, Store
  <2> QED BY <2>1, <2>2
<1>4. ASSUME r.up, NEW i \in Ids, srv'[i].st = "active", i <= r.cur
      PROVE  Known(r.pulled, skipped, i)'
  <2>1. i <= next
    BY <1>1, <1>2, <1>4 DEF SessionOK
  <2>2. CASE srv[i].st = "active"
    <3>1. Known(r.pulled, skipped, i)
      BY <1>4, <2>2 DEF Covers, ActiveIds, HasStatus
    <3> QED BY <1>1, <2>2, <3>1, KnownKept
  <2> QED BY <1>3, <1>4, <2>1, <2>2
<1>5. ASSUME r.pc = "buffer", NEW p \in r.page, NEW i \in Ids, srv'[i].st = "active", i <= p[1]
      PROVE  <<i, srv'[i].ent>> \in r.page \/ Known(r.pulled, skipped, i)'
  <2>1. i <= next
    BY <1>1, <1>2, <1>5
  <2>2. CASE srv[i].st = "active" /\ srv'[i].ent = srv[i].ent
    <3>1. <<i, srv[i].ent>> \in r.page \/ Known(r.pulled, skipped, i)
      BY <1>5, <2>2 DEF Covers, ActiveIds, HasStatus
    <3>2. ASSUME Known(r.pulled, skipped, i) PROVE Known(r.pulled, skipped, i)'
      BY <1>1, <2>2, <3>2, KnownKept
    <3> QED BY <2>2, <3>1, <3>2
  <2> QED BY <1>3, <1>5, <2>1, <2>2
<1> QED BY <1>4, <1>5 DEF Covers, ActiveIds, HasStatus

-----------------------------------------------------------------------------
(* The steps of MemorySync. *)

\* What a step of MemorySync guarantees the relay.
SyncFrame == RowsOK' /\ LocKept /\ next' >= next /\ ("restore" \notin Events => ActiveFrom)

\* A step that leaves the stores and offers nothing but their rows.
LEMMA OfferFrame ==
    ASSUME IInv, RowsOK, UNCHANGED loc, next' >= next, "restore" \notin Events => ActiveFrom,
           NEW c \in Clients, NEW s, Go(c, s),
           \A e \in s.offer : e \in ses[c].offer \/ Store(c, e),
           \A a \in s.acks : a \in ses[c].acks \/ Store(c, a[1])
    PROVE  SyncFrame
<1>1. ses'[c] = s /\ \A d \in Clients \ {c} : ses'[d] = ses[d]
  BY DEF Go, IInv, TypeOK
<1>2. LocKept /\ \A d \in Clients : \A e : Store(d, e)' <=> Store(d, e)
  BY DEF LocKept, Store
<1>3. RowsOK'
  <2> SUFFICES ASSUME NEW d \in Clients
               PROVE  /\ \A e \in Entities : loc'[d][e].rid # 0 => Store(d, e)'
                      /\ \A e \in ses'[d].offer : Store(d, e)'
                      /\ \A a \in ses'[d].acks : Store(d, a[1])'
    BY DEF RowsOK
  <2>1. \A e \in Entities : loc'[d][e].rid # 0 => Store(d, e)'
    BY <1>2 DEF RowsOK
  <2>2. CASE d = c
    BY <1>1, <1>2, <2>1, <2>2 DEF RowsOK
  <2>3. CASE d # c
    BY <1>1, <1>2, <2>1, <2>3 DEF RowsOK
  <2> QED BY <2>2, <2>3
<1> QED BY <1>2, <1>3 DEF SyncFrame

\* A step that writes one row of a store and leaves it there.
LEMMA RowFrame ==
    ASSUME IInv, RowsOK, NEW c \in Clients, NEW e \in Entities, NEW row, SetRow(c, e, row),
           row.st # "none", UNCHANGED <<next, srv>>,
           \A d \in Clients : ses'[d].offer \subseteq ses[d].offer
                               /\ ses'[d].acks \subseteq ses[d].acks
    PROVE  SyncFrame
<1>1. \A d \in Clients, f \in Entities :
         loc'[d][f] = IF d = c /\ f = e THEN row ELSE loc[d][f]
  BY DEF IInv, TypeOK, SetRow
<1>2. LocKept
  BY <1>1 DEF LocKept, Store
<1>3. \A d \in Clients : /\ ses[d].offer \subseteq Entities
                         /\ \A a \in ses[d].acks : a[1] \in Entities
  BY DEF IInv, TypeOK, Sessions
<1>4. RowsOK'
  <2>1. \A d \in Clients, f \in Entities : loc'[d][f].rid # 0 => Store(d, f)'
    BY <1>1 DEF RowsOK, Store
  <2>2. \A d \in Clients : \A f \in ses'[d].offer : Store(d, f)'
    BY <1>2, <1>3 DEF RowsOK, LocKept
  <2>3. \A d \in Clients : \A a \in ses'[d].acks : Store(d, a[1])'
    BY <1>2, <1>3 DEF RowsOK, LocKept
  <2> QED BY <2>1, <2>2, <2>3 DEF RowsOK
<1>5. ActiveFrom /\ next' >= next
  BY Constants DEF ActiveFrom, IInv, TypeOK
<1> QED BY <1>2, <1>4, <1>5 DEF SyncFrame

\* A step of the server that no session takes part in.
LEMMA ServerFrame ==
    ASSUME IInv, RowsOK, UNCHANGED loc, next' >= next, "restore" \notin Events => ActiveFrom,
           \A d \in Clients : ses'[d].offer = ses[d].offer /\ ses'[d].acks = ses[d].acks
    PROVE  SyncFrame
BY DEF SyncFrame, RowsOK, LocKept, Store

LEMMA SameServer ==
    ASSUME IInv, UNCHANGED <<next, srv>>
    PROVE  next' >= next /\ ActiveFrom
BY Constants DEF IInv, TypeOK, ActiveFrom

\* A step that leaves the server alone, and what the session offers and stamps.
LEMMA SessionFrame ==
    ASSUME IInv, RowsOK, UNCHANGED <<next, srv, loc>>, NEW c \in Clients, NEW s, Go(c, s),
           s.offer \subseteq ses[c].offer, s.acks \subseteq ses[c].acks
    PROVE  SyncFrame
<1>1. next' >= next /\ ActiveFrom
  BY SameServer
<1>2. /\ \A e \in s.offer : e \in ses[c].offer \/ Store(c, e)
      /\ \A a \in s.acks : a \in ses[c].acks \/ Store(c, a[1])
  OBVIOUS
<1> QED BY <1>1, <1>2, OfferFrame

LEMMA BeginFrame ==
    ASSUME IInv, RowsOK, NEW c \in Clients, NEW archived,
           StartSync(c, archived) \/ \E cmd \in Commands : StartPush(c, cmd, archived)
    PROVE  SyncFrame
<1>1. CASE StartSync(c, archived)
  <2>1. PICK s : /\ s = [[Idle EXCEPT !.pc = IF MaxRemoteId(c) = 0 THEN "rows" ELSE "pull",
                                   !.base = MaxRemoteId(c), !.cur = MaxRemoteId(c),
                                   !.due = ActiveIds]
                         EXCEPT !.cmd = "sync", !.archived = archived]
    OBVIOUS
  <2>2. s.offer = {} /\ s.acks = {}
    BY <2>1 DEF Idle
  <2>3. Go(c, s) /\ UNCHANGED <<next, srv, loc>>
    BY <1>1, <2>1 DEF StartSync, Begin
  <2> QED BY <2>2, <2>3, SessionFrame
<1>2. ASSUME NEW cmd \in Commands, StartPush(c, cmd, archived) PROVE SyncFrame
  <2>1. PICK s : s = [[Idle EXCEPT !.pc = "rows"] EXCEPT !.cmd = cmd, !.archived = archived]
    OBVIOUS
  <2>2. s.offer = {} /\ s.acks = {}
    BY <2>1 DEF Idle
  <2>3. Go(c, s) /\ UNCHANGED <<next, srv, loc>>
    BY <1>2, <2>1 DEF StartPush, Begin
  <2> QED BY <2>2, <2>3, SessionFrame
<1> QED BY <1>1, <1>2

LEMMA ReadFrames ==
    ASSUME IInv, RowsOK, NEW c \in Clients,
           \/ PullPage(c) \/ PageDone(c) \/ PushDone(c) \/ Return(c) \/ PushUnsent(c) \/ Fail(c)
    PROVE  SyncFrame
<1>1. ses[c] \in Sessions
  BY DEF IInv, TypeOK
<1>2. Idle.offer = {} /\ Idle.acks = {}
  BY DEF Idle
<1>3. UNCHANGED <<next, srv, loc>>
  BY DEF PullPage, PageDone, PushDone, Return, PushUnsent, Fail
<1>4. CASE PullPage(c)
  <2>1. PICK P, b, n, m : Go(c, [ses[c] EXCEPT !.pc = "apply", !.page = P, !.more = b,
                                             !.cur = n, !.total = m])
    BY <1>4 DEF PullPage
  <2>2. PICK s : s = [ses[c] EXCEPT !.pc = "apply", !.page = P, !.more = b, !.cur = n, !.total = m]
    OBVIOUS
  <2>3. s.offer = ses[c].offer /\ s.acks = ses[c].acks
    BY <1>1, <2>2 DEF Sessions
  <2> QED BY <1>3, <2>1, <2>2, <2>3, SessionFrame
<1>5. CASE PageDone(c)
  <2>1. PICK s \in {[ses[c] EXCEPT !.pc = "pull"],
                    [ses[c] EXCEPT !.pc = "pull", !.cur = 0, !.repull = TRUE],
                    [ses[c] EXCEPT !.pc = IF ses[c].confirm THEN "done" ELSE "rows"]} : Go(c, s)
    BY <1>5 DEF PageDone
  <2>2. s.offer = ses[c].offer /\ s.acks = ses[c].acks
    BY <1>1, <2>1 DEF Sessions
  <2> QED BY <1>3, <2>1, <2>2, SessionFrame
<1>6. CASE PushDone(c)
  <2>1. PICK s \in {[ses[c] EXCEPT !.pc = "done"],
                    [ses[c] EXCEPT !.pc = "pull", !.confirm = TRUE, !.repull = FALSE,
                                   !.cur = ses[c].base, !.total = 0, !.more = FALSE]} : Go(c, s)
    BY <1>6 DEF PushDone
  <2>2. s.offer = ses[c].offer /\ s.acks = ses[c].acks
    BY <1>1, <2>1 DEF Sessions
  <2> QED BY <1>3, <2>1, <2>2, SessionFrame
<1>7. CASE Return(c) \/ Fail(c)
  <2>1. Go(c, Idle)
    BY <1>7 DEF Return, Fail
  <2> QED BY <1>2, <1>3, <2>1, SessionFrame
<1>8. CASE PushUnsent(c)
  <2>1. /\ Go(c, Interrupt(ses[c], "interrupted"))
        /\ Interrupt(ses[c], "interrupted").offer = {}
        /\ Interrupt(ses[c], "interrupted").acks = ses[c].acks
    BY <1>1, <1>8, InterruptType DEF PushUnsent
  <2> QED BY <1>3, <2>1, SessionFrame
<1> QED BY <1>4, <1>5, <1>6, <1>7, <1>8

LEMMA TakeRowsFrame ==
    ASSUME IInv, RowsOK, NEW c \in Clients, TakeRows(c)
    PROVE  SyncFrame
<1>1. ses[c] \in Sessions
  BY DEF IInv, TypeOK
<1> DEFINE K == {e \in Entities : /\ loc[c][e].st = "active"
                                  /\ ses[c].cmd = "force" \/ loc[c][e].rid = 0}
           T == IF ses[c].archived THEN Tombs(c) ELSE {}
<1>2. /\ Go(c, [ses[c] EXCEPT !.pc = "push", !.offer = K, !.tombs = T])
      /\ \A e \in K : loc[c][e].st = "active"
  BY DEF TakeRows
<1> HIDE DEF K, T
<1>3. PICK s : s = [ses[c] EXCEPT !.pc = "push", !.offer = K, !.tombs = T]
  OBVIOUS
<1>4. s.offer = K /\ s.acks = ses[c].acks
  BY <1>1, <1>3 DEF Sessions
<1>5. UNCHANGED <<next, srv, loc>>
  BY DEF TakeRows
<1>6. /\ \A e \in s.offer : e \in ses[c].offer \/ Store(c, e)
      /\ \A a \in s.acks : a \in ses[c].acks \/ Store(c, a[1])
  BY <1>2, <1>4 DEF Store
<1>7. next' >= next /\ ActiveFrom
  BY <1>5, SameServer
<1>8. Go(c, s)
  BY <1>2, <1>3
<1> QED BY <1>5, <1>6, <1>7, <1>8, OfferFrame

LEMMA LocalFrames ==
    ASSUME IInv, RowsOK, NEW c \in Clients
    PROVE  /\ ApplyEntry(c) \/ Stamp(c) => SyncFrame
           /\ \A e \in Entities : Add(c, e) \/ Archive(c, e) => SyncFrame
<1>1. ses[c] \in Sessions
  BY DEF IInv, TypeOK
<1>2. \A e \in Entities : loc[c][e] \in LocalRows
  BY DEF IInv, TypeOK
<1>3. ASSUME NEW e \in Entities, Add(c, e) PROVE SyncFrame
  <2>1. PICK row : row = [st |-> "active", rid |-> 0]
    OBVIOUS
  <2>2. row.st # "none" /\ SetRow(c, e, row) /\ UNCHANGED <<next, srv>> /\ Disturb({c})
    BY <1>3, <2>1 DEF Add
  <2>3. \A d \in Clients : ses'[d].offer \subseteq ses[d].offer /\ ses'[d].acks \subseteq ses[d].acks
    BY <2>2, DisturbKeeps DEF IInv
  <2> QED BY <2>2, <2>3, RowFrame
<1>4. ASSUME NEW e \in Entities, Archive(c, e) PROVE SyncFrame
  <2>1. PICK row : row = [loc[c][e] EXCEPT !.st = "archived"]
    OBVIOUS
  <2>2. row.st = "archived"
    BY <1>2, <2>1 DEF LocalRows
  <2>3. row.st # "none" /\ SetRow(c, e, row) /\ UNCHANGED <<next, srv, ses>>
    BY <1>4, <2>1, <2>2 DEF Archive
  <2> QED BY <2>3, RowFrame
<1>5. ASSUME Stamp(c) PROVE SyncFrame
  <2>1. PICK a \in ses[c].acks : /\ SetRow(c, a[1], SetRemoteId(loc[c][a[1]], a[2]))
                                 /\ Go(c, [ses[c] EXCEPT !.acks = @ \ {a}])
    BY <1>5 DEF Stamp
  <2>2. a[1] \in Entities /\ Store(c, a[1])
    BY <1>1, <2>1 DEF Sessions, RowsOK
  <2>3. PICK row : row = SetRemoteId(loc[c][a[1]], a[2])
    OBVIOUS
  <2>4. row.st # "none"
    BY <1>2, <2>2, <2>3 DEF SetRemoteId, LocalRows, Store
  <2>5. PICK s : s = [ses[c] EXCEPT !.acks = @ \ {a}]
    OBVIOUS
  <2>6. s.offer = ses[c].offer /\ s.acks \subseteq ses[c].acks /\ Go(c, s)
    BY <1>1, <2>1, <2>5 DEF Sessions
  <2>7. ses'[c] = s /\ \A d \in Clients \ {c} : ses'[d] = ses[d]
    BY <2>6 DEF Go, IInv, TypeOK
  <2>8. \A d \in Clients : ses'[d].offer \subseteq ses[d].offer /\ ses'[d].acks \subseteq ses[d].acks
    BY <2>6, <2>7
  <2>9. SetRow(c, a[1], row) /\ UNCHANGED <<next, srv>>
    BY <1>5, <2>1, <2>3 DEF Stamp
  <2> QED BY <2>2, <2>4, <2>8, <2>9, RowFrame
<1>6. ASSUME ApplyEntry(c) PROVE SyncFrame
  <2>1. PICK p \in ses[c].page : /\ ApplyRemoteNote(c, p[1], p[2])
                                 /\ Go(c, [ses[c] EXCEPT !.page = @ \ {p}])
    BY <1>6 DEF ApplyEntry
  <2>2. p[1] \in Ids /\ p[2] \in Entities
    BY <1>1, <2>1 DEF Sessions
  <2>3. PICK s : s = [ses[c] EXCEPT !.page = @ \ {p}]
    OBVIOUS
  <2>4. s.offer = ses[c].offer /\ s.acks = ses[c].acks /\ Go(c, s)
    BY <1>1, <2>1, <2>3 DEF Sessions
  <2>5. UNCHANGED <<next, srv>>
    BY <1>6 DEF ApplyEntry
  <2>6. CASE UNCHANGED loc
    <3>1. s.offer \subseteq ses[c].offer /\ s.acks \subseteq ses[c].acks
      BY <2>4
    <3> QED BY <2>4, <2>5, <2>6, <3>1, SessionFrame
  <2>7. CASE ~UNCHANGED loc
    <3>1. PICK row : /\ row = IF loc[c][p[2]].st = "none" THEN [st |-> "active", rid |-> p[1]]
                              ELSE SetRemoteId(loc[c][p[2]], p[1])
                     /\ SetRow(c, p[2], row)
      BY <2>1, <2>7 DEF ApplyRemoteNote
    <3>2. row.st # "none"
      BY <1>2, <2>2, <3>1 DEF SetRemoteId, LocalRows
    <3>3. ses'[c] = s /\ \A d \in Clients \ {c} : ses'[d] = ses[d]
      BY <2>4 DEF Go, IInv, TypeOK
    <3>4. \A d \in Clients : ses'[d].offer \subseteq ses[d].offer /\ ses'[d].acks \subseteq ses[d].acks
      BY <2>4, <3>3
    <3> QED BY <2>2, <2>5, <3>1, <3>2, <3>4, RowFrame
  <2> QED BY <2>6, <2>7
<1> QED BY <1>3, <1>4, <1>5, <1>6

\* A request creates rows under fresh ids, and under the stamps it sends along.
LEMMA InsertFrame ==
    ASSUME IInv, NEW c \in Clients, NEW sup, TrueIds(sup), NEW D \in SUBSET Entities,
           NEW f \in Assignments(sup, D), Insert(c, D, f),
           \A e \in D : ~Collides(c, e, sup[e]),
           \A e \in D : sup[e] # 0 => Store(c, e)
    PROVE  next' >= next /\ ActiveFrom
<1>1. \A e \in D : IF sup[e] = 0 THEN f[e] > next
                   ELSE /\ f[e] = sup[e]
                        /\ f[e] <= next /\ Names(f[e], e)
  BY AssignmentFacts
<1>2. NextAfter(D, f) >= next
  BY AssignmentFacts
<1>3. /\ \A e \in D : /\ f[e] \in Ids /\ f[e] \notin Stored
                      /\ srv'[f[e]] = [st |-> "active", ent |-> e, ext |-> <<c, e>>]
      /\ \A i \in Ids : (\A e \in D : f[e] # i) => srv'[i] = srv[i]
  BY InsertFacts
<1>4. next' >= next
  BY <1>2 DEF Insert, NextAfter
<1>5. ASSUME NEW i \in Ids, srv'[i].st = "active"
      PROVE  srv[i].st = "active" \/ i > next \/ \E d \in Clients : Store(d, srv'[i].ent)
  <2>1. CASE \A e \in D : f[e] # i
    BY <1>3, <1>5, <2>1
  <2>2. ASSUME NEW e \in D, f[e] = i
        PROVE  i > next \/ Store(c, srv'[i].ent)
    <3>1. srv'[i] = [st |-> "active", ent |-> e, ext |-> <<c, e>>]
      BY <1>3, <2>2
    <3>2. srv'[i].ent = e
      BY <3>1
    <3>3. sup[e] # 0 => Store(c, srv'[i].ent)
      BY <3>2
    <3> QED BY <1>1, <2>2, <3>3
  <2> QED BY <2>1, <2>2
<1> QED BY <1>4, <1>5 DEF ActiveFrom

LEMMA SuppliedStored ==
    ASSUME RowsOK, NEW c \in Clients, NEW e \in Entities, SuppliedIds(c)[e] # 0
    PROVE  Store(c, e)
<1>1. loc[c][e].rid # 0
  BY DEF SuppliedIds, Supplied
<1> QED BY <1>1 DEF RowsOK

LEMMA PushFrames ==
    ASSUME IInv, RowsOK, NEW c \in Clients, PushAnswered(c) \/ PushUnanswered(c)
    PROVE  SyncFrame
<1> DEFINE sup == SuppliedIds(c)
<1>1. ses[c] \in Sessions /\ ses[c].offer \in SUBSET Entities
  BY DEF IInv, TypeOK, Sessions
<1>2. PICK K \in Chunks(c) : \E o \in Outcomes(c, K, sup) :
         /\ Insert(c, DOMAIN o.ids, o.ids)
         /\ \/ o.ok /\ Go(c, [ses[c] EXCEPT !.offer = @ \ K, !.acks = Results(c, K, o.ids)])
            \/ \E r \in {"refused", "interrupted"} : Go(c, Interrupt(ses[c], r))
  BY DEF PushAnswered, PushUnanswered
<1>3. PICK o \in Outcomes(c, K, sup) :
         /\ Insert(c, DOMAIN o.ids, o.ids)
         /\ \/ o.ok /\ Go(c, [ses[c] EXCEPT !.offer = @ \ K, !.acks = Results(c, K, o.ids)])
            \/ \E r \in {"refused", "interrupted"} : Go(c, Interrupt(ses[c], r))
  BY <1>2
<1> DEFINE D == DOMAIN o.ids
<1>4. K \subseteq ses[c].offer /\ K \in SUBSET Entities
  BY <1>1 DEF Chunks
<1>5. /\ D \subseteq Missing(c, K) /\ D \in SUBSET Entities
      /\ \A e \in D : ~Collides(c, e, sup[e])
      /\ o.ids \in Assignments(sup, D)
      /\ Insert(c, D, o.ids)
  BY <1>3, <1>4, OutcomeFacts DEF Missing
<1>6. TrueIds(sup) /\ \A e \in D : sup[e] # 0 => Store(c, e)
  BY <1>5, SuppliedFacts, SuppliedStored
<1>7. UNCHANGED loc
  BY DEF PushAnswered, PushUnanswered
<1> HIDE DEF D, sup
<1>8. next' >= next /\ ActiveFrom
  BY <1>5, <1>6, InsertFrame
<1>9. CASE \E r \in {"refused", "interrupted"} : Go(c, Interrupt(ses[c], r))
  <2>1. PICK r \in {"refused", "interrupted"} : Go(c, Interrupt(ses[c], r))
    BY <1>9
  <2>2. Interrupt(ses[c], r).offer = {} /\ Interrupt(ses[c], r).acks = ses[c].acks
    BY <1>1, InterruptType
  <2>3. PICK s : s = Interrupt(ses[c], r)
    OBVIOUS
  <2>4. /\ \A e \in s.offer : e \in ses[c].offer \/ Store(c, e)
        /\ \A a \in s.acks : a \in ses[c].acks \/ Store(c, a[1])
    BY <2>2, <2>3
  <2>5. Go(c, s)
    BY <2>1, <2>3
  <2> QED BY <1>7, <1>8, <2>4, <2>5, OfferFrame
<1>10. CASE Go(c, [ses[c] EXCEPT !.offer = @ \ K, !.acks = Results(c, K, o.ids)])
  <2>1. \A a \in Results(c, K, o.ids) : a[1] \in K
    <3>1. /\ Results(c, K, o.ids) \in SUBSET (Entities \X Ids)
          /\ \A a \in Results(c, K, o.ids) :
                /\ a[1] \in K /\ Names(a[2], a[1])'
                /\ srv'[a[2]].st = "active"
      BY <1>4, <1>5, <1>6, ResultFacts
    <3> QED BY <3>1
  <2>2. PICK s : s = [ses[c] EXCEPT !.offer = @ \ K, !.acks = Results(c, K, o.ids)]
    OBVIOUS
  <2>3. s.offer = ses[c].offer \ K /\ s.acks = Results(c, K, o.ids)
    BY <1>1, <2>2 DEF Sessions
  <2>4. /\ \A e \in s.offer : e \in ses[c].offer \/ Store(c, e)
        /\ \A a \in s.acks : a \in ses[c].acks \/ Store(c, a[1])
    BY <1>4, <2>1, <2>3 DEF RowsOK
  <2>5. Go(c, s)
    BY <1>10, <2>2
  <2> QED BY <1>7, <1>8, <2>4, <2>5, OfferFrame
<1> QED BY <1>3, <1>9, <1>10

\* A change of rows that are already there.
LEMMA StatusFrame ==
    ASSUME IInv, UNCHANGED next,
           \A i \in Ids : srv'[i].st = "active" => srv[i].st = "active"
    PROVE  next' >= next /\ ActiveFrom
BY Constants DEF IInv, TypeOK, ActiveFrom

LEMMA TombstoneFrame ==
    ASSUME IInv, RowsOK, NEW c \in Clients, Tombstone(c)
    PROVE  SyncFrame
<1>1. PICK i \in ses[c].tombs :
         /\ srv' = IF i \in Stored THEN [srv EXCEPT ![i].st = "deleted"] ELSE srv
         /\ Go(c, [ses[c] EXCEPT !.tombs = @ \ {i}])
  BY DEF Tombstone
<1>2. ses[c] \in Sessions /\ i \in Ids /\ srv \in [Ids -> ServerRows]
  BY DEF IInv, TypeOK, Sessions
<1>3. PICK s : s = [ses[c] EXCEPT !.tombs = @ \ {i}]
  OBVIOUS
<1>4. s.offer = ses[c].offer /\ s.acks = ses[c].acks /\ Go(c, s)
  BY <1>1, <1>2, <1>3 DEF Sessions
<1>5. UNCHANGED <<next, loc>>
  BY DEF Tombstone
<1>6. \A j \in Ids : srv'[j].st = "active" => srv[j].st = "active"
  BY <1>1, <1>2 DEF ServerRows
<1>7. next' >= next /\ ActiveFrom
  BY <1>5, <1>6, StatusFrame
<1>8. /\ \A e \in s.offer : e \in ses[c].offer \/ Store(c, e)
      /\ \A a \in s.acks : a \in ses[c].acks \/ Store(c, a[1])
  BY <1>4
<1> QED BY <1>4, <1>5, <1>7, <1>8, OfferFrame

LEMMA OtherFrames ==
    ASSUME IInv, RowsOK,
           \/ \E e \in Entities : TeamAdd(e)
           \/ \E i \in Ids : TeamRestore(i) \/ ServerArchive(i)
           \/ ServerReset
    PROVE  SyncFrame
<1>0. srv \in [Ids -> ServerRows] /\ next \in Nat
  BY Constants DEF IInv, TypeOK
<1>1. ASSUME NEW e \in Entities, TeamAdd(e) PROVE SyncFrame
  <2>1. /\ next' = next + 1 /\ UNCHANGED <<loc, ses>>
        /\ \A i \in Ids : i # next + 1 => srv'[i] = srv[i]
    BY <1>0, <1>1 DEF TeamAdd
  <2>2. next' >= next /\ ActiveFrom
    BY <1>0, <2>1 DEF ActiveFrom
  <2> QED BY <2>1, <2>2, ServerFrame
<1>2. ASSUME NEW i \in Ids, TeamRestore(i) PROVE SyncFrame
  <2>1. "restore" \in Events /\ UNCHANGED <<next, loc, ses>>
    BY <1>2 DEF TeamRestore
  <2> QED BY <1>0, <2>1, ServerFrame
<1>3. ASSUME NEW i \in Ids, ServerArchive(i) PROVE SyncFrame
  <2>1. /\ UNCHANGED <<next, loc, ses>>
        /\ \A j \in Ids : srv'[j].st = "active" => srv[j].st = "active"
    BY <1>0, <1>3 DEF ServerArchive, ServerRows
  <2> QED BY <2>1, StatusFrame, ServerFrame
<1>4. CASE ServerReset
  <2>1. /\ UNCHANGED <<next, loc>> /\ Disturb(Clients)
        /\ \A j \in Ids : srv'[j].st = "active" => srv[j].st = "active"
    BY <1>0, <1>4 DEF ServerReset, ServerRows
  <2>2. \A d \in Clients : ses'[d].offer = ses[d].offer /\ ses'[d].acks = ses[d].acks
    BY <2>1, DisturbKeeps DEF IInv
  <2> QED BY <2>1, <2>2, StatusFrame, ServerFrame
<1> QED BY <1>1, <1>2, <1>3, <1>4

\* No step of a store or of the server takes from the relay what it relies on.
LEMMA NextFrame == ASSUME IInv, RowsOK, Next PROVE SyncFrame
<1>1. ASSUME NEW c \in Clients, Step(c) PROVE SyncFrame
  <2>1. CASE PullPage(c) \/ PageDone(c) \/ PushDone(c) \/ Return(c)
    BY <2>1, ReadFrames
  <2>2. CASE ApplyEntry(c) \/ Stamp(c)
    BY <2>2, LocalFrames
  <2>3. CASE TakeRows(c)
    BY <2>3, TakeRowsFrame
  <2>4. CASE PushAnswered(c)
    BY <2>4, PushFrames
  <2>5. CASE Tombstone(c)
    BY <2>5, TombstoneFrame
  <2> QED BY <1>1, <2>1, <2>2, <2>3, <2>4, <2>5 DEF Step
<1>2. ASSUME NEW c \in Clients, Fault(c) PROVE SyncFrame
  <2>1. CASE PushUnanswered(c)
    BY <2>1, PushFrames
  <2>2. CASE PushUnsent(c) \/ Fail(c)
    BY <2>2, ReadFrames
  <2> QED BY <1>2, <2>1, <2>2 DEF Fault
<1>3. ASSUME NEW c \in Clients, NEW e \in Entities, Add(c, e) \/ Archive(c, e) PROVE SyncFrame
  BY <1>3, LocalFrames
<1>4. ASSUME NEW c \in Clients, NEW archived \in BOOLEAN,
             StartSync(c, archived) \/ \E cmd \in Commands : StartPush(c, cmd, archived)
      PROVE  SyncFrame
  BY <1>4, BeginFrame
<1> QED BY <1>1, <1>2, <1>3, <1>4, OtherFrames DEF Next

-----------------------------------------------------------------------------
(* The steps of the relay: frames. *)

\* What the stores and the server guarantee over a step.
Guarantee ==
    /\ IInv' /\ RowsOK' /\ NamesKept /\ LocKept
    /\ next \in Int /\ next' \in Int /\ next' >= next
    /\ "restore" \notin Events => ActiveFrom

LEMMA QuietGuarantee == ASSUME RInv, UNCHANGED vars PROVE Guarantee
<1>1. IInv' /\ NamesKept
  BY NextIInv DEF RInv
<1>2. RowsOK' /\ LocKept
  BY DEF vars, RInv, RowsOK, LocKept, Store
<1>3. ActiveFrom /\ next \in Int
  BY Constants DEF vars, RInv, IInv, TypeOK, ActiveFrom
<1> QED BY <1>1, <1>2, <1>3 DEF vars, Guarantee

LEMMA TasksKept ==
    ASSUME RInv, Guarantee, tasks' \in [Slots -> Tasks], \A k \in Slots : TaskOK(tasks'[k])
    PROVE  (\A k \in Slots : TaskOK(tasks[k]))'
<1> SUFFICES ASSUME NEW k \in Slots PROVE TaskOK(tasks[k])'
  OBVIOUS
<1>1. PICK t : t = tasks'[k]
  OBVIOUS
<1>2. TaskOK(t)'
  BY <1>1, TaskKept DEF Guarantee
<1> QED BY <1>1, <1>2 DEF TaskOK

LEMMA CommandsKept ==
    ASSUME RInv, Guarantee, \A c \in Clients : CommandOK(c, cli'[c])
    PROVE  (\A c \in Clients : CommandOK(c, cli[c]))'
<1> SUFFICES ASSUME NEW c \in Clients PROVE CommandOK(c, cli[c])'
  OBVIOUS
<1>1. PICK s : s = cli'[c]
  OBVIOUS
<1>2. CommandOK(c, s)'
  BY <1>1, CommandKept DEF Guarantee, RInv, IInv
<1> QED BY <1>1, <1>2 DEF CommandOK, Store

LEMMA RelayFrame ==
    ASSUME RInv, Guarantee, NEW r, rl' = r, SessionOK(r),
           "restore" \notin Events => Covers(r, skipped), UNCHANGED skipped,
           tasks' \in [Slots -> Tasks], (\A k \in Slots : TaskOK(tasks[k]))',
           cli' \in [Clients -> RelayCommands], (\A c \in Clients : CommandOK(c, cli[c]))'
    PROVE  RInv'
<1>1. SessionOK(r)'
  BY SessionKept DEF Guarantee
<1>2. ASSUME "restore" \notin Events PROVE Covers(r, skipped)'
  BY <1>2, CoversKept DEF Guarantee, RInv
<1>3. SessionOK(rl)'
  BY <1>1 DEF SessionOK
<1>4. "restore" \notin Events => Covers(rl, skipped)'
  BY <1>2 DEF Covers
<1> QED BY <1>3, <1>4 DEF RInv, Guarantee

\* A step of the pull loop.
LEMMA LoopFrame ==
    ASSUME RInv, NEW r, Loop(r), SessionOK(r), "restore" \notin Events => Covers(r, skipped)
    PROVE  RInv'
<1>1. Guarantee /\ rl' = r /\ UNCHANGED <<tasks, cli, skipped>>
  BY QuietGuarantee DEF Loop
<1>2. tasks' \in [Slots -> Tasks] /\ \A k \in Slots : TaskOK(tasks'[k])
  BY <1>1 DEF RInv
<1>3. cli' \in [Clients -> RelayCommands] /\ \A c \in Clients : CommandOK(c, cli'[c])
  BY <1>1 DEF RInv
<1>4. (\A k \in Slots : TaskOK(tasks[k]))' /\ (\A c \in Clients : CommandOK(c, cli[c]))'
  BY <1>1, <1>2, <1>3, TasksKept, CommandsKept
<1> QED BY <1>1, <1>2, <1>3, <1>4, RelayFrame

LEMMA DoFacts ==
    ASSUME RInv, NEW c \in Clients, NEW s, CommandOK(c, s), Do(c, s)
    PROVE  cli' \in [Clients -> RelayCommands] /\ \A d \in Clients : CommandOK(d, cli'[d])
<1>1. s \in RelayCommands /\ cli \in [Clients -> RelayCommands]
  BY DEF CommandOK, RInv
<1>2. /\ cli' \in [Clients -> RelayCommands]
      /\ \A d \in Clients : cli'[d] = IF d = c THEN s ELSE cli[d]
  BY <1>1 DEF Do
<1> QED BY <1>2 DEF RInv

\* A step of one command, beside a session and tasks that stay.
LEMMA CommandFrame ==
    ASSUME RInv, Guarantee, NEW c \in Clients, NEW s, CommandOK(c, s), Do(c, s),
           UNCHANGED <<rl, tasks, skipped>>
    PROVE  RInv'
<1>1. cli' \in [Clients -> RelayCommands] /\ \A d \in Clients : CommandOK(d, cli'[d])
  BY DoFacts
<1>2. tasks' \in [Slots -> Tasks] /\ \A k \in Slots : TaskOK(tasks'[k])
  BY DEF RInv
<1>3. SessionOK(rl) /\ ("restore" \notin Events => Covers(rl, skipped))
  BY DEF RInv
<1>4. (\A k \in Slots : TaskOK(tasks[k]))' /\ (\A d \in Clients : CommandOK(d, cli[d]))'
  BY <1>1, <1>2, TasksKept, CommandsKept
<1>5. PICK r : r = rl
  OBVIOUS
<1> QED BY <1>1, <1>2, <1>3, <1>4, <1>5, RelayFrame

LEMMA SyncStepOK == ASSUME RInv, Next, UNCHANGED relayVars PROVE RInv'
<1>1. IInv' /\ NamesKept
  BY NextIInv DEF RInv
<1>2. SyncFrame
  BY NextFrame DEF RInv
<1>3. next \in Int /\ next' \in Int
  BY <1>1, Constants DEF RInv, IInv, TypeOK
<1>4. Guarantee
  BY <1>1, <1>2, <1>3 DEF SyncFrame, Guarantee
<1>5. tasks' \in [Slots -> Tasks] /\ \A k \in Slots : TaskOK(tasks'[k])
  BY DEF RInv, relayVars
<1>6. cli' \in [Clients -> RelayCommands] /\ \A c \in Clients : CommandOK(c, cli'[c])
  BY DEF RInv, relayVars
<1>7. SessionOK(rl) /\ ("restore" \notin Events => Covers(rl, skipped))
  BY DEF RInv
<1>8. (\A k \in Slots : TaskOK(tasks[k]))' /\ (\A c \in Clients : CommandOK(c, cli[c]))'
  BY <1>4, <1>5, <1>6, TasksKept, CommandsKept
<1>9. PICK r : r = rl
  OBVIOUS
<1> QED BY <1>4, <1>5, <1>6, <1>7, <1>8, <1>9, RelayFrame DEF relayVars

-----------------------------------------------------------------------------
(* The steps of a command. *)

LEMMA NoCommandType == NoCommand \in RelayCommands
<1>1. 0 \in 0..MaxId
  BY ZeroIsId0
<1> QED BY <1>1, Zenon DEF NoCommand, RelayCommands

LEMMA NoCommandOK ==
    ASSUME RInv, NEW c \in Clients
    PROVE  CommandOK(c, NoCommand) /\ CommandOK(c, [NoCommand EXCEPT !.pc = "poll"])
<1>1. next \in Int /\ next >= 0
  BY Constants DEF RInv, IInv, TypeOK
<1>2. CommandOK(c, NoCommand)
  <2>1. NoCommand.since = 0 /\ NoCommand.pulled = {} /\ NoCommand.results = {}
        /\ NoCommand.ackPull = {}
    BY DEF NoCommand
  <2> QED BY <1>1, <2>1, NoCommandType DEF CommandOK, TruePairs, TrueResults
<1>3. CommandOK(c, [NoCommand EXCEPT !.pc = "poll"])
  <2>1. PICK s : s = [NoCommand EXCEPT !.pc = "poll"]
    OBVIOUS
  <2>2. s \in RelayCommands
    BY <2>1, NoCommandType, Zenon DEF RelayCommands
  <2>3. s.since = 0 /\ s.pulled = {} /\ s.results = {} /\ s.ackPull = {}
    BY <2>1 DEF NoCommand
  <2>4. CommandOK(c, s)
    BY <1>1, <2>2, <2>3 DEF CommandOK, TruePairs, TrueResults
  <2> QED BY <2>1, <2>4
<1> QED BY <1>2, <1>3

\* max_remote_id is an id the server has minted.
LEMMA SinceIsMinted ==
    ASSUME IInv, NEW c \in Clients
    PROVE  MaxRemoteId(c) \in 0..MaxId /\ MaxRemoteId(c) <= next
<1> DEFINE S == {loc[c][e].rid : e \in Entities} \cup {0}
<1>1. \A e \in Entities : loc[c][e].rid \in 0..MaxId
  BY DEF IInv, TypeOK, LocalRows
<1>2. S \in SUBSET (0..MaxId) /\ S # {}
  BY <1>1, ZeroIsId0
<1>3. Max(S) \in S
  BY <1>2, MaxOfIds
<1>4. ASSUME NEW e \in Entities PROVE loc[c][e].rid <= next
  <2>1. CASE loc[c][e].rid = 0
    BY <2>1, Constants DEF IInv, TypeOK
  <2>2. CASE loc[c][e].rid # 0
    <3>1. loc[c][e].rid \in Ids /\ srv[loc[c][e].rid].st # "none"
      BY <1>1, <2>2, Constants DEF IInv, StampIsTrue, Ids
    <3> QED BY <3>1 DEF IInv, Minted
  <2> QED BY <2>1, <2>2
<1>5. 0 <= next
  BY Constants DEF IInv, TypeOK
<1>6. Max(S) <= next /\ Max(S) \in 0..MaxId
  <2>1. \A x \in S : x <= next
    BY <1>4, <1>5
  <2> HIDE DEF S
  <2> QED BY <1>2, <1>3, <2>1
<1> QED BY <1>6 DEF MaxRemoteId

LEMMA NudgeRowsOK ==
    ASSUME RInv, NEW c \in Clients, NudgeRows(c)
    PROVE  RInv'
<1>1. PICK K \in SUBSET Unstamped(c) :
         Do(c, [NoCommand EXCEPT !.pc = "send", !.offer = K, !.since = MaxRemoteId(c)])
  BY DEF NudgeRows
<1>2. K \in SUBSET Entities
  BY DEF Unstamped
<1>3. PICK n : n = MaxRemoteId(c)
  OBVIOUS
<1>4. n \in 0..MaxId /\ n <= next
  BY <1>3, SinceIsMinted DEF RInv
<1>5. PICK s : s = [NoCommand EXCEPT !.pc = "send", !.offer = K, !.since = n]
  OBVIOUS
<1>6. s \in RelayCommands
  BY <1>2, <1>4, <1>5, NoCommandType, Zenon DEF RelayCommands
<1>7. s.since = n /\ s.pulled = {} /\ s.results = {} /\ s.ackPull = {}
  BY <1>5 DEF NoCommand
<1>8. CommandOK(c, s)
  BY <1>4, <1>6, <1>7 DEF CommandOK, TruePairs, TrueResults
<1>9. UNCHANGED <<rl, tasks, skipped>> /\ UNCHANGED vars /\ Do(c, s)
  BY <1>1, <1>3, <1>5 DEF NudgeRows
<1> QED BY <1>8, <1>9, QuietGuarantee, CommandFrame

LEMMA EndsOK ==
    ASSUME RInv, NEW c \in Clients, RegisterLost(c) \/ CommandEnds(c)
    PROVE  RInv'
<1>1. UNCHANGED vars /\ UNCHANGED <<rl, tasks, skipped>>
  BY DEF RegisterLost, CommandEnds
<1>2. Do(c, NoCommand) \/ Do(c, [NoCommand EXCEPT !.pc = "poll"])
  BY DEF RegisterLost, CommandEnds, Registered
<1>3. PICK s \in {NoCommand, [NoCommand EXCEPT !.pc = "poll"]} : Do(c, s)
  BY <1>2
<1>4. CommandOK(c, s)
  BY NoCommandOK
<1> QED BY <1>1, <1>3, <1>4, QuietGuarantee, CommandFrame

LEMMA PollOK ==
    ASSUME RInv, NEW c \in Clients, Poll(c)
    PROVE  RInv'
<1>1. PICK s : s = [cli[c] EXCEPT !.pc = "apply", !.results = rl.results, !.pulled = rl.pulled]
  OBVIOUS
<1>2. /\ cli[c] \in RelayCommands /\ CommandOK(c, cli[c])
      /\ rl \in Relays /\ rl.results \in SUBSET (Clients \X Entities \X Ids)
      /\ rl.pulled \in SUBSET (Ids \X Entities)
      /\ TruePairs(rl.pulled) /\ TrueResults(rl.results)
  BY DEF RInv, SessionOK, Relays
<1>3. s \in RelayCommands
  BY <1>1, <1>2, Zenon DEF RelayCommands
<1>4. /\ s.since = cli[c].since /\ s.pulled = rl.pulled /\ s.results = rl.results
      /\ s.ackPull = cli[c].ackPull
  BY <1>1, <1>2 DEF RelayCommands
<1>5. CommandOK(c, s)
  BY <1>2, <1>3, <1>4 DEF CommandOK
<1>6. UNCHANGED <<rl, tasks, skipped>> /\ UNCHANGED vars /\ Do(c, s)
  BY <1>1 DEF Poll
<1> QED BY <1>5, <1>6, QuietGuarantee, CommandFrame

LEMMA ApplyFailsOK ==
    ASSUME RInv, NEW c \in Clients, ApplyFails(c)
    PROVE  RInv'
<1>1. /\ cli[c] \in RelayCommands /\ CommandOK(c, cli[c])
      /\ cli[c].results \in SUBSET (Clients \X Entities \X Ids)
      /\ cli[c].pulled \in SUBSET (Ids \X Entities)
  BY DEF RInv, RelayCommands
<1>2. UNCHANGED vars /\ UNCHANGED <<rl, tasks, skipped>>
  BY DEF ApplyFails
<1>3. ASSUME NEW r \in cli[c].results, Do(c, [cli[c] EXCEPT !.results = @ \ {r}])
      PROVE  RInv'
  <2>1. PICK s : s = [cli[c] EXCEPT !.results = @ \ {r}]
    OBVIOUS
  <2>2. cli[c].results \ {r} \in SUBSET (Clients \X Entities \X Ids)
    BY <1>1
  <2>3. s \in RelayCommands
    BY <1>1, <2>1, <2>2, Zenon DEF RelayCommands
  <2>4. /\ s.since = cli[c].since /\ s.pulled = cli[c].pulled
        /\ s.results \subseteq cli[c].results /\ s.ackPull = cli[c].ackPull
    BY <1>1, <2>1 DEF RelayCommands
  <2>5. CommandOK(c, s)
    BY <1>1, <2>3, <2>4 DEF CommandOK, TrueResults
  <2> QED BY <1>2, <1>3, <2>1, <2>5, QuietGuarantee, CommandFrame
<1>4. ASSUME NEW p \in cli[c].pulled, Do(c, [cli[c] EXCEPT !.pulled = @ \ {p}])
      PROVE  RInv'
  <2>1. PICK s : s = [cli[c] EXCEPT !.pulled = @ \ {p}]
    OBVIOUS
  <2>2. cli[c].pulled \ {p} \in SUBSET (Ids \X Entities)
    BY <1>1
  <2>3. s \in RelayCommands
    BY <1>1, <2>1, <2>2, Zenon DEF RelayCommands
  <2>4. /\ s.since = cli[c].since /\ s.pulled \subseteq cli[c].pulled
        /\ s.results = cli[c].results /\ s.ackPull = cli[c].ackPull
    BY <1>1, <2>1 DEF RelayCommands
  <2>5. CommandOK(c, s)
    BY <1>1, <2>3, <2>4 DEF CommandOK, TruePairs
  <2> QED BY <1>2, <1>4, <2>1, <2>5, QuietGuarantee, CommandFrame
<1> QED BY <1>3, <1>4 DEF ApplyFails

\* A step of one row of a store, by a command that uses the relay.
LEMMA RowGuarantee ==
    ASSUME RInv, NEW c \in Clients, NEW e \in Entities, NEW row \in LocalRows,
           SetRow(c, e, row), row.st # "none", row.rid # 0 => Names(row.rid, e),
           UNCHANGED <<next, srv, ses>>
    PROVE  Guarantee
<1>1. /\ ses' \in [Clients -> Sessions]
      /\ \A d \in Clients : /\ ses'[d].page \subseteq ses[d].page
                            /\ ses'[d].acks \subseteq ses[d].acks
                            /\ ses'[d].offer \subseteq ses[d].offer
  BY DEF RInv, IInv, TypeOK
<1>2. IInv' /\ NamesKept
  BY <1>1, LocalStep DEF RInv
<1>3. SyncFrame
  BY <1>1, RowFrame DEF RInv
<1>4. next \in Int /\ next' \in Int
  BY <1>2, Constants DEF RInv, IInv, TypeOK
<1> QED BY <1>2, <1>3, <1>4 DEF SyncFrame, Guarantee

LEMMA ApplyResultOK ==
    ASSUME RInv, NEW c \in Clients, ApplyResult(c)
    PROVE  RInv'
<1>1. PICK r \in cli[c].results :
         LET own == r[1] = c /\ loc[c][r[2]].st # "none" IN
         /\ IF own THEN SetRow(c, r[2], SetRemoteId(loc[c][r[2]], r[3])) ELSE UNCHANGED loc
         /\ Do(c, [cli[c] EXCEPT !.results = @ \ {r},
                                 !.ackPush = IF own THEN @ \cup {r[2]} ELSE @])
  BY DEF ApplyResult
<1> DEFINE own == r[1] = c /\ loc[c][r[2]].st # "none"
           A == IF own THEN cli[c].ackPush \cup {r[2]} ELSE cli[c].ackPush
<1>2. /\ cli[c] \in RelayCommands /\ CommandOK(c, cli[c])
      /\ cli[c].results \in SUBSET (Clients \X Entities \X Ids)
      /\ cli[c].ackPush \in SUBSET Entities
  BY DEF RInv, RelayCommands
<1>3. r[2] \in Entities /\ r[3] \in Ids /\ Names(r[3], r[2])
  BY <1>2 DEF CommandOK, TrueResults
<1>4. PICK s : s = [cli[c] EXCEPT !.results = @ \ {r}, !.ackPush = A]
  OBVIOUS
<1>5. Do(c, s) /\ UNCHANGED <<next, srv, ses, rl, tasks, skipped>>
  BY <1>1, <1>2, <1>4 DEF ApplyResult
<1>6. A \in SUBSET Entities /\ cli[c].results \ {r} \in SUBSET (Clients \X Entities \X Ids)
  BY <1>2, <1>3
<1> HIDE DEF A
<1>7. s \in RelayCommands
  BY <1>2, <1>4, <1>6, Zenon DEF RelayCommands
<1>8. /\ s.since = cli[c].since /\ s.pulled = cli[c].pulled
      /\ s.results \subseteq cli[c].results /\ s.ackPull = cli[c].ackPull
  BY <1>2, <1>4 DEF RelayCommands
<1>9. CommandOK(c, s)
  BY <1>2, <1>7, <1>8 DEF CommandOK, TrueResults
<1>10. Guarantee
  <2>1. CASE ~own
    <3>1. UNCHANGED vars
      BY <1>1, <1>5, <2>1 DEF vars
    <3> QED BY <3>1, QuietGuarantee
  <2>2. CASE own
    <3>1. PICK row : row = SetRemoteId(loc[c][r[2]], r[3])
      OBVIOUS
    <3>2. loc[c][r[2]] \in LocalRows /\ r[3] \in 0..MaxId
      BY <1>3, Constants DEF RInv, IInv, TypeOK, Ids
    <3>3. row \in LocalRows /\ row.st # "none"
      BY <2>2, <3>1, <3>2 DEF SetRemoteId, LocalRows
    <3>4. loc[c][r[2]].rid # 0 => Names(loc[c][r[2]].rid, r[2])
      BY <1>3 DEF RInv, IInv, StampIsTrue, Names
    <3>5. row.rid # 0 => Names(row.rid, r[2])
      BY <1>3, <3>1, <3>2, <3>4 DEF SetRemoteId, LocalRows
    <3>6. SetRow(c, r[2], row)
      BY <1>1, <2>2, <3>1
    <3> QED BY <1>3, <1>5, <3>3, <3>5, <3>6, RowGuarantee
  <2> QED BY <2>1, <2>2
<1> QED BY <1>5, <1>9, <1>10, CommandFrame

\* An entry that was applied is in the store, also when a row has its id already.
LEMMA ApplyRemoteNoteFacts ==
    ASSUME RInv, NEW c \in Clients, NEW id \in Ids, NEW e \in Entities, Names(id, e),
           ApplyRemoteNote(c, id, e), UNCHANGED <<next, srv, ses>>
    PROVE  Guarantee /\ loc'[c][e].st # "none"
<1>1. CASE \E f \in Entities : loc[c][f].rid = id
  <2>1. PICK f \in Entities : loc[c][f].rid = id
    BY <1>1
  <2>2. id # 0
    BY Constants DEF Ids
  <2>3. f = e
    BY <2>1, <2>2 DEF RInv, IInv, StampIsTrue, Names
  <2>4. loc[c][e].st # "none"
    BY <2>1, <2>2, <2>3 DEF RInv, RowsOK, Store
  <2>5. UNCHANGED vars /\ UNCHANGED loc
    BY <1>1 DEF ApplyRemoteNote, vars
  <2> QED BY <2>4, <2>5, QuietGuarantee
<1>2. CASE ~\E f \in Entities : loc[c][f].rid = id
  <2>1. PICK row : row = IF loc[c][e].st = "none" THEN [st |-> "active", rid |-> id]
                         ELSE SetRemoteId(loc[c][e], id)
    OBVIOUS
  <2>2. SetRow(c, e, row)
    BY <1>2, <2>1 DEF ApplyRemoteNote
  <2>3. loc[c][e] \in LocalRows /\ id \in 0..MaxId
    BY Constants DEF RInv, IInv, TypeOK, Ids
  <2>4. row \in LocalRows /\ row.st # "none"
    BY <2>1, <2>3 DEF SetRemoteId, LocalRows
  <2>5. loc[c][e].rid # 0 => Names(loc[c][e].rid, e)
    BY DEF RInv, IInv, StampIsTrue, Names
  <2>6. row.rid # 0 => Names(row.rid, e)
    BY <2>1, <2>3, <2>5 DEF SetRemoteId, LocalRows
  <2>7. loc'[c][e] = row
    BY <2>2 DEF SetRow, RInv, IInv, TypeOK
  <2> QED BY <2>2, <2>4, <2>6, <2>7, RowGuarantee
<1> QED BY <1>1, <1>2

LEMMA ApplyPulledOK ==
    ASSUME RInv, NEW c \in Clients, ApplyPulled(c)
    PROVE  RInv'
<1>1. PICK p \in cli[c].pulled :
         /\ ApplyRemoteNote(c, p[1], p[2])
         /\ Do(c, [cli[c] EXCEPT !.pulled = @ \ {p}, !.ackPull = @ \cup {p[1]}])
  BY DEF ApplyPulled
<1>2. /\ cli[c] \in RelayCommands /\ CommandOK(c, cli[c])
      /\ cli[c].pulled \in SUBSET (Ids \X Entities) /\ cli[c].ackPull \in SUBSET Ids
      /\ cli \in [Clients -> RelayCommands]
  BY DEF RInv, RelayCommands
<1>3. p[1] \in Ids /\ p[2] \in Entities /\ Names(p[1], p[2])
  BY <1>2 DEF CommandOK, TruePairs
<1>4. PICK s : s = [cli[c] EXCEPT !.pulled = @ \ {p}, !.ackPull = @ \cup {p[1]}]
  OBVIOUS
<1>5. Do(c, s) /\ UNCHANGED <<next, srv, ses, rl, tasks, skipped>>
  BY <1>1, <1>4 DEF ApplyPulled
<1>6. Guarantee /\ loc'[c][p[2]].st # "none"
  BY <1>1, <1>3, <1>5, ApplyRemoteNoteFacts
<1>7. s \in RelayCommands
  <2>1. cli[c].pulled \ {p} \in SUBSET (Ids \X Entities) /\ cli[c].ackPull \cup {p[1]} \in SUBSET Ids
    BY <1>2, <1>3
  <2> QED BY <1>2, <1>4, <2>1, Zenon DEF RelayCommands
<1>8. /\ s.since = cli[c].since /\ s.pulled \subseteq cli[c].pulled
      /\ s.results = cli[c].results /\ s.ackPull = cli[c].ackPull \cup {p[1]}
  BY <1>2, <1>4 DEF RelayCommands
<1>9. CommandOK(c, cli[c])'
  <2>1. PICK t : t = cli[c]
    OBVIOUS
  <2>2. CommandOK(c, t)
    BY <1>2, <2>1
  <2>3. CommandOK(c, t)'
    BY <1>6, <2>2, CommandKept DEF Guarantee, RInv, IInv
  <2>4. /\ t.since <= next'
        /\ \A q \in t.pulled : Names(q[1], q[2])'
        /\ \A q \in t.results : Names(q[3], q[2])'
        /\ \A i \in t.ackPull : srv'[i].st # "none" /\ loc'[c][srv'[i].ent].st # "none"
    BY <2>3 DEF CommandOK, TruePairs, TrueResults, Store
  <2>5. /\ s.since <= next'
        /\ \A q \in s.pulled : Names(q[1], q[2])'
        /\ \A q \in s.results : Names(q[3], q[2])'
    BY <1>8, <2>1, <2>4
  <2>6. \A i \in s.ackPull : srv'[i].st # "none" /\ loc'[c][srv'[i].ent].st # "none"
    <3>1. srv'[p[1]].st # "none" /\ srv'[p[1]].ent = p[2]
      BY <1>3, <1>5 DEF Names
    <3> QED BY <1>6, <1>8, <2>1, <2>4, <3>1
  <2>7. CommandOK(c, s)'
    BY <1>7, <2>5, <2>6 DEF CommandOK, TruePairs, TrueResults, Store
  <2>8. cli'[c] = s
    BY <1>2, <1>5 DEF Do
  <2> QED BY <2>7, <2>8 DEF CommandOK, TruePairs, TrueResults, Names, Store
<1>10. /\ cli' \in [Clients -> RelayCommands]
       /\ \A d \in Clients : d # c => cli'[d] = cli[d]
  BY <1>2, <1>5, <1>7 DEF Do
<1>11. (\A d \in Clients : CommandOK(d, cli[d]))'
  <2> SUFFICES ASSUME NEW d \in Clients PROVE CommandOK(d, cli[d])'
    OBVIOUS
  <2>1. CASE d = c
    BY <1>9, <2>1
  <2>2. CASE d # c
    <3>1. PICK t : t = cli[d]
      OBVIOUS
    <3>2. CommandOK(d, t)
      BY <3>1 DEF RInv
    <3>3. CommandOK(d, t)'
      BY <1>6, <3>2, CommandKept DEF Guarantee, RInv, IInv
    <3>4. cli'[d] = t
      BY <1>10, <2>2, <3>1
    <3> QED BY <3>3, <3>4 DEF CommandOK, Store
  <2> QED BY <2>1, <2>2
<1>12. tasks' \in [Slots -> Tasks] /\ \A k \in Slots : TaskOK(tasks'[k])
  BY <1>5 DEF RInv
<1>13. (\A k \in Slots : TaskOK(tasks[k]))'
  BY <1>6, <1>12, TasksKept
<1>14. SessionOK(rl) /\ ("restore" \notin Events => Covers(rl, skipped))
  BY DEF RInv
<1>15. PICK r : r = rl
  OBVIOUS
<1> QED BY <1>5, <1>6, <1>10, <1>11, <1>12, <1>13, <1>14, <1>15, RelayFrame

-----------------------------------------------------------------------------
(* The pull loop. *)

LEMMA NoRelayType == NoRelay \in Relays
<1>1. 0 \in 0..MaxId
  BY ZeroIsId0
<1> QED BY <1>1, Zenon DEF NoRelay, Relays

LEMMA NoRelayOK ==
    ASSUME RInv
    PROVE  SessionOK(NoRelay) /\ Covers(NoRelay, skipped)
<1>1. next \in Int /\ next >= 0 /\ MaxBuffer \in Nat
  BY Constants, RelayConstants DEF RInv, IInv, TypeOK
<1>2. /\ NoRelay.up = FALSE /\ NoRelay.cur = 0 /\ NoRelay.results = {} /\ NoRelay.pulled = {}
      /\ NoRelay.pc = "off" /\ NoRelay.page = {}
  BY DEF NoRelay
<1>3. Cardinality({}) = 0
  BY FS_EmptySet
<1>4. SessionOK(NoRelay)
  BY <1>1, <1>2, <1>3, NoRelayType DEF SessionOK, TruePairs, TrueResults
<1> QED BY <1>2, <1>4 DEF Covers

\* The session's fields, and that a loop that runs belongs to a session.
LEMMA SessionFacts ==
    ASSUME RInv
    PROVE  /\ rl \in Relays /\ SessionOK(rl)
           /\ rl.cur \in 0..MaxId /\ rl.from \in 0..MaxId
           /\ rl.pulled \in SUBSET (Ids \X Entities) /\ rl.page \in SUBSET (Ids \X Entities)
           /\ rl.results \in SUBSET (Clients \X Entities \X Ids)
           /\ rl.pc # "off" => rl.up
           /\ "restore" \notin Events => Covers(rl, skipped)
<1>1. rl \in Relays /\ SessionOK(rl) /\ ("restore" \notin Events => Covers(rl, skipped))
  BY DEF RInv, SessionOK
<1>2. rl.up \/ rl.pc = "off"
  BY <1>1 DEF SessionOK, NoRelay
<1> QED BY <1>1, <1>2 DEF Relays

\* A step of the loop that buffers nothing and has no page in hand.
LEMMA MoveOK ==
    ASSUME RInv, NEW r \in Relays, Loop(r), r.up = rl.up, rl.up, r.cur = rl.cur,
           r.results = rl.results, r.pulled = rl.pulled, r.page = rl.page,
           r.pc # "buffer", r.pc = "fetch" => r.from = rl.cur
    PROVE  RInv'
<1>1. r.cur \in Int
  BY Constants DEF Relays
<1>2. SessionOK(r)
  BY <1>1, SessionFacts DEF SessionOK
<1>3. "restore" \notin Events => Covers(r, skipped)
  BY SessionFacts DEF Covers
<1> QED BY <1>2, <1>3, LoopFrame

LEMMA RetireOK ==
    ASSUME RInv, Retire
    PROVE  RInv'
<1>1. Loop(NoRelay)
  BY DEF Retire
<1> QED BY <1>1, NoRelayOK, LoopFrame

\* notes_since_id leaves out no entry between its cursor and its last one.
LEMMA SinceIsPrefix ==
    ASSUME NEW cursor \in Int, NEW k \in NotesSinceId(cursor),
           NEW i \in ActiveIds, i > cursor, i <= k
    PROVE  i \in NotesSinceId(cursor)
<1> DEFINE S == {j \in ActiveIds : j > cursor}
           Below(j) == {m \in S : m <= j}
<1>1. S \in SUBSET Ids /\ i \in S /\ k \in S /\ Cardinality(Below(k)) <= PageSize
  BY DEF NotesSinceId, ActiveIds, HasStatus
<1>2. \A j \in Ids : j \in Int
  BY Constants DEF Ids
<1>3. Below(i) \in SUBSET Below(k)
  BY <1>1, <1>2
<1>4. Below(k) \in SUBSET Ids /\ Below(i) \in SUBSET Ids
  BY <1>1
<1>5. NotesSinceId(cursor) = {j \in S : Cardinality(Below(j)) <= PageSize}
  BY DEF NotesSinceId
<1> HIDE DEF Below, S
<1>6. IsFiniteSet(Below(k)) /\ Cardinality(Below(k)) \in 0..MaxId /\ Cardinality(Below(i)) \in 0..MaxId
  BY <1>4, IdSets
<1>7. Cardinality(Below(i)) <= Cardinality(Below(k))
  BY <1>3, <1>6, FS_Subset
<1>8. Cardinality(Below(i)) <= PageSize
  BY <1>1, <1>6, <1>7, Constants
<1> QED BY <1>1, <1>5, <1>8

LEMMA CatchUpFetchOK ==
    ASSUME RInv, CatchUpFetch
    PROVE  RInv'
<1> DEFINE P == IF ProjectExists THEN NotesSinceId(rl.from) ELSE {}
           page == {<<i, srv[i].ent>> : i \in P}
<1>1. rl.pc = "fetch" /\ Loop([rl EXCEPT !.pc = "buffer", !.from = 0, !.page = page])
  BY DEF CatchUpFetch
<1>2. rl \in Relays /\ rl.up /\ rl.from \in 0..MaxId
  BY <1>1, SessionFacts
<1>3. P \subseteq ActiveIds /\ ActiveIds \subseteq Ids
  BY DEF NotesSinceId, ActiveIds, HasStatus
<1>4. page \in SUBSET (Ids \X Entities) /\ TruePairs(page)
  BY <1>3 DEF RInv, IInv, TypeOK, ServerRows, ActiveIds, HasStatus, TruePairs, Names
<1>5. ASSUME NEW p \in page, NEW i \in ActiveIds, i > rl.from, i <= p[1]
      PROVE  <<i, srv[i].ent>> \in page
  <2>1. PICK k \in P : p = <<k, srv[k].ent>>
    OBVIOUS
  <2>2. k \in NotesSinceId(rl.from) /\ P = NotesSinceId(rl.from)
    BY <2>1
  <2>3. i <= k /\ rl.from \in Int
    BY <1>2, <1>5, <2>1, Constants
  <2>4. i \in P
    BY <1>5, <2>2, <2>3, SinceIsPrefix
  <2> QED BY <2>4
<1> HIDE DEF page, P
<1>6. PICK r : r = [rl EXCEPT !.pc = "buffer", !.from = 0, !.page = page]
  OBVIOUS
<1>7. r \in Relays
  BY <1>2, <1>4, <1>6, ZeroIsId0, Zenon DEF Relays
<1>8. /\ r.up = rl.up /\ r.cur = rl.cur /\ r.results = rl.results /\ r.pulled = rl.pulled
      /\ r.page = page /\ r.pc = "buffer"
  BY <1>2, <1>6 DEF Relays
<1>9. SessionOK(r)
  BY <1>2, <1>4, <1>7, <1>8, SessionFacts DEF SessionOK
<1>10. ASSUME "restore" \notin Events PROVE Covers(r, skipped)
  <2>1. Covers(rl, skipped) /\ rl.from <= rl.cur /\ rl.cur \in Int /\ rl.from \in Int
    BY <1>1, <1>2, <1>10, SessionFacts, Constants DEF SessionOK
  <2>2. \A i \in ActiveIds : i \in Int
    BY <1>3, Constants DEF Ids
  <2>3. ASSUME NEW p \in page, NEW i \in ActiveIds, i <= p[1]
        PROVE  <<i, srv[i].ent>> \in page \/ Known(rl.pulled, skipped, i)
    <3>1. CASE i > rl.from
      BY <1>5, <2>3, <3>1
    <3>2. CASE i <= rl.from
      <4>1. i <= rl.cur
        BY <2>1, <2>2, <3>2
      <4> QED BY <1>2, <2>1, <4>1 DEF Covers
    <3> QED BY <2>1, <2>2, <3>1, <3>2
  <2> QED BY <1>2, <1>8, <2>1, <2>3 DEF Covers
<1>11. Loop(r)
  BY <1>1, <1>6
<1> QED BY <1>9, <1>10, <1>11, LoopFrame

LEMMA LoopMovesOK ==
    ASSUME RInv, CatchUpFails \/ Connect \/ ReadFrame \/ StreamEnds
    PROVE  RInv'
<1>1. rl \in Relays /\ rl.cur \in 0..MaxId /\ next \in 0..MaxId /\ Ids \subseteq 0..MaxId
  BY SessionFacts, Constants DEF RInv, IInv, TypeOK, Ids
<1>2. CASE CatchUpFails
  <2>1. PICK r : r = [rl EXCEPT !.pc = AfterCatchUp(rl), !.from = 0]
    OBVIOUS
  <2>2. AfterCatchUp(rl) \in {"read", "connect"}
    BY DEF AfterCatchUp
  <2>3. AfterCatchUp(rl) \in {"off", "fetch", "buffer", "connect", "read"}
    BY <2>2
  <2>4. r \in Relays
    BY <1>1, <2>1, <2>3, ZeroIsId0, Zenon DEF Relays
  <2>5. /\ r.up = rl.up /\ r.cur = rl.cur /\ r.results = rl.results /\ r.pulled = rl.pulled
        /\ r.page = rl.page /\ r.pc \in {"read", "connect"}
    BY <1>1, <2>1, <2>2 DEF Relays
  <2>6. Loop(r) /\ rl.pc = "fetch"
    BY <1>2, <2>1 DEF CatchUpFails
  <2>7. rl.up /\ r.pc # "buffer" /\ r.pc # "fetch"
    BY <2>5, <2>6, SessionFacts
  <2> QED BY <2>4, <2>5, <2>6, <2>7, MoveOK
<1>3. CASE Connect
  <2>1. PICK r : r = [rl EXCEPT !.pc = "fetch", !.from = rl.cur, !.conn = TRUE, !.seen = next]
    OBVIOUS
  <2>2. r \in Relays
    BY <1>1, <2>1, Zenon DEF Relays
  <2>3. /\ r.up = rl.up /\ r.cur = rl.cur /\ r.results = rl.results /\ r.pulled = rl.pulled
        /\ r.page = rl.page /\ r.pc = "fetch" /\ r.from = rl.cur
    BY <1>1, <2>1 DEF Relays
  <2>4. Loop(r) /\ rl.pc = "connect"
    BY <1>3, <2>1 DEF Connect
  <2>5. rl.up
    BY <2>4, SessionFacts
  <2> QED BY <2>2, <2>3, <2>4, <2>5, MoveOK
<1>4. CASE ReadFrame
  <2>1. PICK i \in ActiveIds :
           Loop([rl EXCEPT !.pc = "fetch", !.from = rl.cur, !.seen = i])
    BY <1>4 DEF ReadFrame
  <2>2. i \in 0..MaxId
    BY <1>1 DEF ActiveIds, HasStatus
  <2>3. PICK r : r = [rl EXCEPT !.pc = "fetch", !.from = rl.cur, !.seen = i]
    OBVIOUS
  <2>4. r \in Relays
    BY <1>1, <2>2, <2>3, Zenon DEF Relays
  <2>5. /\ r.up = rl.up /\ r.cur = rl.cur /\ r.results = rl.results /\ r.pulled = rl.pulled
        /\ r.page = rl.page /\ r.pc = "fetch" /\ r.from = rl.cur
    BY <1>1, <2>3 DEF Relays
  <2>6. Loop(r) /\ rl.pc = "read"
    BY <1>4, <2>1, <2>3 DEF ReadFrame
  <2>7. rl.up
    BY <2>6, SessionFacts
  <2> QED BY <2>4, <2>5, <2>6, <2>7, MoveOK
<1>5. CASE StreamEnds
  <2>1. PICK r : r = [rl EXCEPT !.pc = "connect", !.conn = FALSE, !.seen = 0]
    OBVIOUS
  <2>2. r \in Relays
    BY <1>1, <2>1, ZeroIsId0, Zenon DEF Relays
  <2>3. /\ r.up = rl.up /\ r.cur = rl.cur /\ r.results = rl.results /\ r.pulled = rl.pulled
        /\ r.page = rl.page /\ r.pc = "connect"
    BY <1>1, <2>1 DEF Relays
  <2>4. Loop(r) /\ rl.pc = "read"
    BY <1>5, <2>1 DEF StreamEnds
  <2>5. rl.up /\ r.pc # "buffer" /\ r.pc # "fetch"
    BY <2>3, <2>4, SessionFacts
  <2> QED BY <2>2, <2>3, <2>4, <2>5, MoveOK
<1> QED BY <1>2, <1>3, <1>4, <1>5

LEMMA PairsFinite == ASSUME NEW P \in SUBSET (Ids \X Entities) PROVE IsFiniteSet(P)
<1>1. IsFiniteSet(Ids) /\ IsFiniteSet(Entities)
  BY IdSets, Constants
<1>2. IsFiniteSet(Ids \X Entities)
  BY <1>1, FS_Product
<1> QED BY <1>2, FS_Subset

\* What is buffered is the page up to some entry, and leaves room for all of it.
LEMMA BufferedFacts ==
    ASSUME NEW page \in SUBSET (Ids \X Entities), NEW pulled \in SUBSET (Ids \X Entities),
           Cardinality(pulled) <= MaxBuffer
    PROVE  LET B == Buffered(page, pulled) IN
           /\ B \subseteq page
           /\ \A p \in B, q \in page : q[1] <= p[1] => q \in B
           /\ Cardinality(pulled \cup B) <= MaxBuffer
<1> DEFINE B == Buffered(page, pulled)
           With(p) == pulled \cup {q \in page : q[1] <= p[1]}
<1>1. \A p \in page : p[1] \in Ids /\ p[1] \in Int /\ p[1] \in 0..MaxId
  BY Constants DEF Ids
<1>2. B = {p \in page : Cardinality(With(p)) <= MaxBuffer}
  BY DEF Buffered
<1>3. \A p \in page : With(p) \in SUBSET (Ids \X Entities)
  OBVIOUS
<1>4. \A p, q \in page : q[1] <= p[1] => With(q) \in SUBSET With(p)
  BY <1>1
<1> HIDE DEF With, B
<1>5. \A p \in page : IsFiniteSet(With(p)) /\ Cardinality(With(p)) \in Nat
  BY <1>3, PairsFinite, FS_CardinalityType
<1>6. ASSUME NEW p \in B, NEW q \in page, q[1] <= p[1] PROVE q \in B
  <2>1. p \in page /\ Cardinality(With(p)) <= MaxBuffer
    BY <1>2
  <2>2. With(q) \in SUBSET With(p)
    BY <1>4, <1>6, <2>1
  <2>3. Cardinality(With(q)) <= Cardinality(With(p))
    BY <1>5, <2>1, <2>2, FS_Subset
  <2>4. Cardinality(With(q)) <= MaxBuffer
    BY <1>5, <2>1, <2>3, RelayConstants
  <2> QED BY <1>2, <2>4
<1>7. Cardinality(pulled \cup B) <= MaxBuffer
  <2>1. CASE B = {}
    <3>1. pulled \cup B = pulled
      BY <2>1
    <3> QED BY <3>1
  <2>2. CASE B # {}
    <3> DEFINE T == {p[1] : p \in B}
    <3>1. T \in SUBSET (0..MaxId) /\ T # {}
      BY <1>1, <1>2, <2>2
    <3>2. Max(T) \in T /\ \A x \in T : x <= Max(T)
      BY <3>1, MaxOfIds
    <3>3. PICK p \in B : p[1] = Max(T)
      BY <3>2
    <3>4. \A q \in B : q[1] <= p[1]
      BY <3>2, <3>3
    <3>5. p \in page /\ Cardinality(With(p)) <= MaxBuffer /\ B \subseteq page
      BY <1>2
    <3>6. pulled \cup B \in SUBSET With(p)
      BY <3>4, <3>5 DEF With
    <3>7. Cardinality(pulled \cup B) <= Cardinality(With(p)) /\ IsFiniteSet(pulled \cup B)
      BY <1>5, <3>5, <3>6, FS_Subset
    <3>8. Cardinality(pulled \cup B) \in Nat /\ Cardinality(With(p)) \in Nat
      BY <1>5, <3>5, <3>7, FS_CardinalityType
    <3> QED BY <3>5, <3>7, <3>8, RelayConstants
  <2> QED BY <2>1, <2>2
<1> QED BY <1>2, <1>6, <1>7 DEF B

LEMMA CatchUpBufferOK ==
    ASSUME RInv, CatchUpBuffer
    PROVE  RInv' /\ CursorKept
<1> DEFINE B == Buffered(rl.page, rl.pulled)
           M == {p[1] : p \in B} \cup {rl.cur}
           cur == Max(M)
           pulled == rl.pulled \cup B
<1>1. /\ rl.pc = "buffer"
      /\ Loop([rl EXCEPT !.pc = AfterCatchUp(rl), !.page = {}, !.pulled = pulled, !.cur = cur])
  <2>1. rl \in Relays
    BY SessionFacts
  <2> QED BY <2>1 DEF CatchUpBuffer, Relays
<1>2. /\ rl \in Relays /\ rl.up /\ rl.cur \in 0..MaxId
      /\ rl.page \in SUBSET (Ids \X Entities) /\ rl.pulled \in SUBSET (Ids \X Entities)
      /\ TruePairs(rl.page) /\ TruePairs(rl.pulled) /\ rl.cur <= next
      /\ Cardinality(rl.pulled) <= MaxBuffer
  BY <1>1, SessionFacts DEF SessionOK
<1>3. /\ B \subseteq rl.page
      /\ \A p \in B, q \in rl.page : q[1] <= p[1] => q \in B
      /\ Cardinality(pulled) <= MaxBuffer
  BY <1>2, BufferedFacts
<1>4. \A p \in rl.page : p[1] \in Ids /\ p[1] \in 0..MaxId /\ p[1] \in Int /\ p[1] <= next
  BY <1>2, Constants DEF Ids, TruePairs, Names, RInv, IInv, Minted
<1>5. M \in SUBSET (0..MaxId) /\ M # {} /\ \A m \in M : m <= next
  BY <1>2, <1>3, <1>4
<1>6. pulled \in SUBSET (Ids \X Entities) /\ TruePairs(pulled)
  BY <1>2, <1>3 DEF TruePairs
<1>7. /\ cur \in M /\ \A x \in M : x <= cur
  BY <1>5, MaxOfIds
<1>8. cur \in 0..MaxId /\ cur <= next /\ rl.cur <= cur
  BY <1>5, <1>7
<1>9. cur = rl.cur \/ \E p \in B : cur = p[1]
  BY <1>7
<1> HIDE DEF cur, pulled, B, M
<1>10. PICK r : r = [rl EXCEPT !.pc = AfterCatchUp(rl), !.page = {}, !.pulled = pulled, !.cur = cur]
  OBVIOUS
<1>11. AfterCatchUp(rl) \in {"read", "connect"}
  BY DEF AfterCatchUp
<1>12. AfterCatchUp(rl) \in {"off", "fetch", "buffer", "connect", "read"}
  BY <1>11
<1>13. r \in Relays
  <2>1. {} \in SUBSET (Ids \X Entities)
    OBVIOUS
  <2> QED BY <1>2, <1>6, <1>8, <1>10, <1>12, <2>1, Zenon DEF Relays
<1>14. /\ r.up = rl.up /\ r.cur = cur /\ r.results = rl.results /\ r.pulled = pulled
       /\ r.page = {} /\ r.pc \in {"read", "connect"}
  BY <1>2, <1>10, <1>11 DEF Relays
<1>15. Loop(r)
  BY <1>1, <1>10
<1>16. SessionOK(r)
  BY <1>2, <1>3, <1>6, <1>8, <1>13, <1>14, SessionFacts DEF SessionOK, TruePairs
<1>17. ASSUME "restore" \notin Events PROVE Covers(r, skipped)
  <2>1. Covers(rl, skipped)
    BY <1>17, SessionFacts
  <2>2. ASSUME NEW i \in ActiveIds, i <= cur PROVE Known(pulled, skipped, i)
    <3>1. i \in Int /\ i \in Ids
      BY Constants DEF ActiveIds, HasStatus, Ids
    <3>2. ASSUME Known(rl.pulled, skipped, i) PROVE Known(pulled, skipped, i)
      BY <3>2 DEF Known, pulled
    <3>3. CASE cur = rl.cur
      BY <1>2, <2>1, <2>2, <3>2, <3>3 DEF Covers
    <3>4. ASSUME NEW p \in B, cur = p[1] PROVE Known(pulled, skipped, i)
      <4>1. p \in rl.page /\ i <= p[1]
        BY <1>3, <2>2, <3>4
      <4>2. <<i, srv[i].ent>> \in rl.page \/ Known(rl.pulled, skipped, i)
        BY <1>1, <2>1, <4>1 DEF Covers
      <4>3. ASSUME <<i, srv[i].ent>> \in rl.page PROVE <<i, srv[i].ent>> \in pulled
        BY <1>3, <4>1, <4>3 DEF pulled
      <4> QED BY <3>2, <4>2, <4>3 DEF Known
    <3> QED BY <1>9, <3>3, <3>4
  <2> QED BY <1>14, <2>2 DEF Covers
<1>18. CursorKept
  BY <1>8, <1>14, <1>15 DEF CursorKept, Loop
<1> QED BY <1>15, <1>16, <1>17, <1>18, LoopFrame

-----------------------------------------------------------------------------
(* Registrations, push tasks and acknowledgements. *)

\* A step of the relay that leaves the stores and the server alone.
LEMMA StillFrame ==
    ASSUME RInv, UNCHANGED vars, NEW r, rl' = r, SessionOK(r),
           NEW over \in SUBSET Ids, skipped' = over, "restore" \notin Events => Covers(r, over),
           tasks' \in [Slots -> Tasks], \A k \in Slots : TaskOK(tasks'[k]),
           cli' \in [Clients -> RelayCommands], \A c \in Clients : CommandOK(c, cli'[c])
    PROVE  RInv'
<1>1. Guarantee
  BY QuietGuarantee
<1>2. SessionOK(r)'
  BY <1>1, SessionKept DEF Guarantee
<1>3. SessionOK(rl)'
  BY <1>2 DEF SessionOK
<1>4. ASSUME "restore" \notin Events PROVE Covers(rl, skipped)'
  <2>1. Covers(r, over)
    BY <1>4
  <2>2. srv' = srv /\ loc' = loc
    BY DEF vars
  <2> QED BY <2>1, <2>2 DEF Covers, Known, Store, ActiveIds, HasStatus
<1>5. (\A k \in Slots : TaskOK(tasks[k]))' /\ (\A c \in Clients : CommandOK(c, cli[c]))'
  BY <1>1, TasksKept, CommandsKept
<1> QED BY <1>1, <1>3, <1>4, <1>5 DEF RInv, Guarantee

LEMMA FreeTaskOK == FreeTask \in Tasks /\ TaskOK(FreeTask)
<1>1. (CHOOSE c \in Clients : TRUE) \in Clients
  BY RelayConstants
<1>2. FreeTask \in Tasks /\ FreeTask.acks = {}
  BY <1>1 DEF FreeTask, Tasks
<1> QED BY <1>2 DEF TaskOK

LEMMA SetTaskFacts ==
    ASSUME RInv, NEW k, NEW t, TaskOK(t), tasks' = [tasks EXCEPT ![k] = t]
    PROVE  tasks' \in [Slots -> Tasks] /\ \A j \in Slots : TaskOK(tasks'[j])
<1>1. t \in Tasks /\ tasks \in [Slots -> Tasks]
  BY DEF TaskOK, RInv
<1>2. /\ tasks' \in [Slots -> Tasks]
      /\ \A j \in Slots : tasks'[j] = t \/ tasks'[j] = tasks[j]
  BY <1>1
<1>3. ASSUME NEW j \in Slots PROVE TaskOK(tasks'[j])
  <2>1. CASE tasks'[j] = t
    BY <2>1
  <2>2. CASE tasks'[j] = tasks[j]
    BY <2>2 DEF RInv
  <2> QED BY <1>2, <2>1, <2>2
<1> QED BY <1>2, <1>3

\* seed_cursor: what the seed jumps over is known, in a store, or noted as skipped.
LEMMA RegisterOK ==
    ASSUME RInv, NEW c \in Clients, Register(c)
    PROVE  RInv' /\ CursorKept
<1> DEFINE since == cli[c].since
           cur == SeedCursor(rl.cur, since)
           M == {rl.cur, since}
           over == skipped \cup Unfetched(rl.cur, cur)
           up == [rl EXCEPT !.cur = cur]
           new == [NoRelay EXCEPT !.up = TRUE, !.cur = cur, !.pc = "fetch", !.from = cur]
           r == IF rl.up THEN up ELSE new
<1>1. /\ cli[c] \in RelayCommands /\ CommandOK(c, cli[c])
      /\ since \in 0..MaxId /\ since <= next /\ cli[c].offer \in SUBSET Entities
  BY DEF RInv, CommandOK, RelayCommands
<1>2. rl \in Relays /\ rl.cur \in 0..MaxId /\ rl.cur <= next
  BY SessionFacts DEF SessionOK
<1>3. cur \in 0..MaxId /\ cur <= next /\ rl.cur <= cur
  <2>1. M \in SUBSET (0..MaxId) /\ M # {}
    BY <1>1, <1>2
  <2>2. Max(M) \in M /\ \A x \in M : x <= Max(M)
    BY <2>1, MaxOfIds
  <2>3. cur = Max(M)
    BY DEF SeedCursor
  <2> QED BY <1>1, <1>2, <2>1, <2>2, <2>3
<1>4. over \in SUBSET Ids
  BY DEF Unfetched, ActiveIds, HasStatus, RInv
<1>5. rl' = r /\ skipped' = over /\ UNCHANGED vars
  BY DEF Register
<1> HIDE DEF cur, since
<1>6. new \in Relays
  <2>1. "fetch" \in {"off", "fetch", "buffer", "connect", "read"}
    OBVIOUS
  <2> QED BY <1>3, <2>1, NoRelayType, Zenon DEF Relays
<1>7. /\ new.up = TRUE /\ new.cur = cur /\ new.results = {} /\ new.pulled = {} /\ new.page = {}
      /\ new.pc = "fetch" /\ new.from = cur
  BY DEF NoRelay
<1>8. up \in Relays
  BY <1>2, <1>3, Zenon DEF Relays
<1>9. /\ up.up = rl.up /\ up.cur = cur /\ up.results = rl.results /\ up.pulled = rl.pulled
      /\ up.page = rl.page /\ up.pc = rl.pc /\ up.from = rl.from
  BY <1>2 DEF Relays
<1>10. SessionOK(new)
  <2>1. Cardinality({}) = 0
    BY FS_EmptySet
  <2> QED BY <1>3, <1>6, <1>7, <2>1, RelayConstants DEF SessionOK, TruePairs, TrueResults
<1>11. ASSUME rl.up PROVE SessionOK(up)
  <2>1. rl.from \in Int /\ rl.cur \in Int /\ cur \in Int
    BY <1>2, <1>3, SessionFacts, Constants
  <2>2. up.pc = "fetch" => up.from <= up.cur
    BY <1>3, <1>9, <2>1, SessionFacts DEF SessionOK
  <2> QED BY <1>3, <1>8, <1>9, <1>11, <2>2, SessionFacts DEF SessionOK
<1>12. ASSUME NEW i \in ActiveIds, i > rl.cur, i <= cur PROVE Known(rl.pulled, over, i)
  BY <1>12 DEF Known, Unfetched, Store
<1>13. \A i \in ActiveIds : i \in Int /\ i > 0
  BY Constants DEF ActiveIds, HasStatus, Ids
<1>14. \A i : Known(rl.pulled, skipped, i) => Known(rl.pulled, over, i)
  BY DEF Known
<1> HIDE DEF new, up, over
<1>15. ASSUME "restore" \notin Events, rl.up PROVE Covers(up, over)
  <2>1. Covers(rl, skipped)
    BY <1>15, SessionFacts
  <2>2. \A i \in ActiveIds : i <= cur => Known(rl.pulled, over, i)
    <3> SUFFICES ASSUME NEW i \in ActiveIds, i <= cur PROVE Known(rl.pulled, over, i)
      OBVIOUS
    <3>1. CASE i <= rl.cur
      BY <1>14, <1>15, <2>1, <3>1 DEF Covers
    <3>2. CASE i > rl.cur
      BY <1>12, <3>2
    <3> QED BY <1>2, <1>13, <3>1, <3>2, Constants
  <2>3. rl.pc = "buffer" =>
          \A p \in rl.page : \A i \in ActiveIds :
              i <= p[1] => <<i, srv[i].ent>> \in rl.page \/ Known(rl.pulled, over, i)
    BY <1>14, <2>1 DEF Covers
  <2> QED BY <1>9, <2>2, <2>3 DEF Covers
<1>16. ASSUME "restore" \notin Events, ~rl.up PROVE Covers(new, over)
  <2>1. rl.cur = 0 /\ rl.pulled = {}
    BY <1>16, SessionFacts DEF SessionOK, NoRelay
  <2>2. \A i \in ActiveIds : i <= cur => Known(new.pulled, over, i)
    BY <1>7, <1>12, <1>13, <2>1
  <2> QED BY <1>7, <2>2 DEF Covers
<1>17. SessionOK(r) /\ ("restore" \notin Events => Covers(r, over))
  <2>1. CASE rl.up
    BY <1>11, <1>15, <2>1
  <2>2. CASE ~rl.up
    BY <1>10, <1>16, <2>2
  <2> QED BY <2>1, <2>2
<1>18. tasks' \in [Slots -> Tasks] /\ \A k \in Slots : TaskOK(tasks'[k])
  <2>1. CASE UNCHANGED tasks
    BY <2>1 DEF RInv
  <2>2. CASE ~UNCHANGED tasks
    <3>1. PICK t : t = [st |-> "send", own |-> c, offer |-> cli[c].offer, acks |-> {}]
      OBVIOUS
    <3>2. PICK k \in Slots : tasks' = [tasks EXCEPT ![k] = t]
      BY <2>2, <3>1 DEF Register
    <3>3. t \in Tasks /\ t.acks = {}
      BY <1>1, <3>1 DEF Tasks
    <3>4. TaskOK(t)
      BY <3>3 DEF TaskOK
    <3> QED BY <3>2, <3>4, SetTaskFacts
  <2> QED BY <2>1, <2>2
<1>19. cli' \in [Clients -> RelayCommands] /\ \A d \in Clients : CommandOK(d, cli'[d])
  <2>1. PICK s \in {NoCommand, [NoCommand EXCEPT !.pc = "poll"]} : Do(c, s)
    BY DEF Register, Registered
  <2>2. CommandOK(c, s)
    BY NoCommandOK
  <2> QED BY <2>1, <2>2, DoFacts
<1>20. RInv'
  BY <1>4, <1>5, <1>17, <1>18, <1>19, StillFrame
<1>21. CursorKept
  BY <1>3, <1>5, <1>9 DEF CursorKept
<1> QED BY <1>20, <1>21

LEMMA TriplesFinite ==
    ASSUME NEW R \in SUBSET (Clients \X Entities \X Ids) PROVE IsFiniteSet(R)
<1> DEFINE S == (Clients \X Entities) \X Ids
           T == Clients \X Entities \X Ids
           f == [x \in S |-> <<x[1][1], x[1][2], x[2]>>]
<1>1. IsFiniteSet(Clients) /\ IsFiniteSet(Entities) /\ IsFiniteSet(Ids)
  BY IdSets, Constants
<1>2. IsFiniteSet(S)
  <2>1. IsFiniteSet(Clients \X Entities)
    BY <1>1, FS_Product
  <2> QED BY <1>1, <2>1, FS_Product
<1>3. f \in [S -> T]
  OBVIOUS
<1>4. \A t \in T : \E x \in S : f[x] = t
  <2> SUFFICES ASSUME NEW t \in T PROVE \E x \in S : f[x] = t
    OBVIOUS
  <2>1. t = <<t[1], t[2], t[3]>> /\ t[1] \in Clients /\ t[2] \in Entities /\ t[3] \in Ids
    OBVIOUS
  <2>2. <<<<t[1], t[2]>>, t[3]>> \in S
    BY <2>1
  <2>3. f[<<<<t[1], t[2]>>, t[3]>>] = t
    BY <2>1, <2>2
  <2> QED BY <2>2, <2>3
<1>5. f \in Surjection(S, T)
  BY <1>3, <1>4 DEF Surjection
<1>6. IsFiniteSet(T)
  BY <1>2, <1>5, FS_Surjection
<1> QED BY <1>6, FS_Subset

LEMMA MinOfTwo == ASSUME NEW a \in Int, NEW b \in Int PROVE Min({a, b}) \in {a, b} /\ Min({a, b}) <= a
<1>1. \E x \in {a, b} : \A y \in {a, b} : x <= y
  <2>1. CASE a <= b
    BY <2>1
  <2>2. CASE b <= a
    BY <2>2
  <2> QED BY <2>1, <2>2
<1>2. Min({a, b}) \in {a, b} /\ \A y \in {a, b} : Min({a, b}) <= y
  BY <1>1 DEF Min
<1> QED BY <1>2

\* Results are taken in up to the cap only.
LEMMA ResultsFit ==
    ASSUME rl.results \in SUBSET (Clients \X Entities \X Ids),
           NEW R \in SUBSET (Clients \X Entities \X Ids), NEW B \in BufferedResults(R)
    PROVE  B \subseteq rl.results \cup R /\ Cardinality(B) <= MaxBuffer
<1> DEFINE key(x) == <<x[1], x[2]>>
           kept == {x \in rl.results : \A n \in R : key(n) # key(x)}
           again == {n \in R : \E x \in rl.results : key(n) = key(x)}
           K == kept \cup again
           room == MaxBuffer - Cardinality(K)
           fresh == R \ again
<1>1. PICK N \in SUBSET fresh : /\ Cardinality(N) = Min({room, Cardinality(fresh)})
                                /\ B = K \cup N
  BY DEF BufferedResults
<1>2. /\ K \in SUBSET (Clients \X Entities \X Ids) /\ fresh \in SUBSET (Clients \X Entities \X Ids)
      /\ K \subseteq rl.results \cup R /\ fresh \subseteq R
  OBVIOUS
<1> HIDE DEF K, fresh
<1>3. /\ IsFiniteSet(K) /\ IsFiniteSet(fresh) /\ IsFiniteSet(N)
      /\ Cardinality(K) \in Nat /\ Cardinality(fresh) \in Nat /\ Cardinality(N) \in Nat
  <2>1. IsFiniteSet(K) /\ IsFiniteSet(fresh)
    BY <1>2, TriplesFinite
  <2>2. IsFiniteSet(N)
    BY <2>1, FS_Subset
  <2> QED BY <2>1, <2>2, FS_CardinalityType
<1>4. Cardinality(N) <= room
  <2>1. room \in Int
    BY <1>3, RelayConstants
  <2> HIDE DEF room
  <2> QED BY <1>1, <1>3, <2>1, MinOfTwo
<1>5. Cardinality(B) = Cardinality(K) + Cardinality(N) - Cardinality(K \cap N)
  BY <1>1, <1>3, FS_Union
<1>6. Cardinality(K \cap N) \in Nat
  <2>1. IsFiniteSet(K \cap N)
    BY <1>3, FS_Subset
  <2> QED BY <2>1, FS_CardinalityType
<1>7. Cardinality(B) <= MaxBuffer
  BY <1>3, <1>4, <1>5, <1>6, RelayConstants
<1> QED BY <1>1, <1>2, <1>7

LEMMA TaskAnsweredOK ==
    ASSUME RInv, NEW k \in Slots, TaskAnswered(k)
    PROVE  RInv' /\ CursorKept
<1> DEFINE R == {<<tasks[k].own, a[1], a[2]>> : a \in tasks[k].acks}
<1>1. PICK B \in BufferedResults(R) : rl' = [rl EXCEPT !.results = B]
  BY DEF TaskAnswered
<1>2. /\ tasks[k].own \in Clients /\ tasks[k].acks \in SUBSET (Entities \X Ids)
      /\ \A a \in tasks[k].acks : Names(a[2], a[1])
  BY DEF RInv, TaskOK, Tasks
<1>3. R \in SUBSET (Clients \X Entities \X Ids) /\ TrueResults(R)
  BY <1>2 DEF TrueResults
<1> HIDE DEF R
<1>4. rl \in Relays /\ rl.results \in SUBSET (Clients \X Entities \X Ids) /\ TrueResults(rl.results)
  BY SessionFacts DEF SessionOK
<1>5. B \subseteq rl.results \cup R /\ Cardinality(B) <= MaxBuffer
  BY <1>3, <1>4, ResultsFit
<1>6. B \in SUBSET (Clients \X Entities \X Ids) /\ TrueResults(B)
  BY <1>3, <1>4, <1>5 DEF TrueResults
<1>7. PICK r : r = [rl EXCEPT !.results = B]
  OBVIOUS
<1>8. r \in Relays
  BY <1>4, <1>6, <1>7, Zenon DEF Relays
<1>9. /\ r.up = rl.up /\ r.cur = rl.cur /\ r.results = B /\ r.pulled = rl.pulled
      /\ r.page = rl.page /\ r.pc = rl.pc /\ r.from = rl.from
  BY <1>4, <1>7 DEF Relays
<1>10. rl'.cur = rl.cur
  BY <1>1, <1>7, <1>9
<1>11. SessionOK(r)
  BY <1>5, <1>6, <1>8, <1>9, SessionFacts DEF SessionOK
<1>12. "restore" \notin Events => Covers(r, skipped)
  BY <1>9, SessionFacts DEF Covers
<1>13. tasks' \in [Slots -> Tasks] /\ \A j \in Slots : TaskOK(tasks'[j])
  BY FreeTaskOK, SetTaskFacts DEF TaskAnswered, SetTask
<1>14. cli' \in [Clients -> RelayCommands] /\ \A c \in Clients : CommandOK(c, cli'[c])
  BY DEF TaskAnswered, RInv
<1>15. UNCHANGED vars /\ UNCHANGED skipped /\ skipped \in SUBSET Ids
  BY DEF TaskAnswered, RInv
<1>16. PICK over \in SUBSET Ids : over = skipped
  BY <1>15
<1>17. RInv'
  BY <1>1, <1>7, <1>11, <1>12, <1>13, <1>14, <1>15, <1>16, StillFrame
<1>18. rl.cur \in Int
  BY SessionFacts, Constants
<1> QED BY <1>10, <1>17, <1>18 DEF CursorKept

LEMMA TasksEndOK ==
    ASSUME RInv, DaemonStops \/ \E k \in Slots : TaskFails(k)
    PROVE  RInv' /\ CursorKept
<1>1. UNCHANGED vars /\ UNCHANGED <<cli, skipped>> /\ skipped \in SUBSET Ids
  BY DEF DaemonStops, TaskFails, RInv
<1>2. cli' \in [Clients -> RelayCommands] /\ \A c \in Clients : CommandOK(c, cli'[c])
  BY <1>1 DEF RInv
<1>3. PICK over \in SUBSET Ids : over = skipped
  BY <1>1
<1>4. CASE DaemonStops
  <2>1. rl' = NoRelay /\ tasks' = [k \in Slots |-> FreeTask]
    BY <1>4 DEF DaemonStops
  <2>2. tasks' \in [Slots -> Tasks] /\ \A k \in Slots : TaskOK(tasks'[k])
    BY <2>1, FreeTaskOK
  <2>3. CursorKept
    BY <2>1 DEF CursorKept, NoRelay
  <2> QED BY <1>1, <1>2, <1>3, <2>1, <2>2, <2>3, NoRelayOK, StillFrame
<1>5. ASSUME NEW k \in Slots, TaskFails(k) PROVE RInv' /\ CursorKept
  <2>1. UNCHANGED rl /\ tasks' = [tasks EXCEPT ![k] = FreeTask]
    BY <1>5 DEF TaskFails, SetTask
  <2>2. tasks' \in [Slots -> Tasks] /\ \A j \in Slots : TaskOK(tasks'[j])
    BY <2>1, FreeTaskOK, SetTaskFacts
  <2>3. SessionOK(rl) /\ ("restore" \notin Events => Covers(rl, skipped))
    BY DEF RInv
  <2>4. PICK r : r = rl
    OBVIOUS
  <2>5. RInv'
    BY <1>1, <1>2, <1>3, <2>1, <2>2, <2>3, <2>4, StillFrame
  <2>6. rl.cur \in Int
    BY SessionFacts, Constants
  <2> QED BY <2>1, <2>5, <2>6 DEF CursorKept
<1> QED BY <1>4, <1>5

\* What an acknowledgement retires from the buffer is in a store.
LEMMA AckOK ==
    ASSUME RInv, NEW c \in Clients, Ack(c)
    PROVE  RInv' /\ CursorKept
<1> DEFINE X == {x \in rl.results : x[1] # c \/ x[2] \notin cli[c].ackPush}
           P == {p \in rl.pulled : p[1] \notin cli[c].ackPull}
<1>1. /\ rl \in Relays /\ rl.cur \in Int
      /\ rl.results \in SUBSET (Clients \X Entities \X Ids)
      /\ rl.pulled \in SUBSET (Ids \X Entities)
      /\ Cardinality(rl.results) <= MaxBuffer /\ Cardinality(rl.pulled) <= MaxBuffer
  BY SessionFacts, Constants DEF SessionOK
<1>2. PICK r : r = [rl EXCEPT !.results = X, !.pulled = P]
  OBVIOUS
<1>3. rl' = r
  BY <1>1, <1>2 DEF Ack, Retired, Relays
<1>4. X \subseteq rl.results /\ P \subseteq rl.pulled
  OBVIOUS
<1>5. ASSUME NEW p \in rl.pulled PROVE p \in P \/ \E d \in Clients : Store(d, srv[p[1]].ent)
  BY DEF RInv, CommandOK
<1> HIDE DEF X, P
<1>6. X \in SUBSET (Clients \X Entities \X Ids) /\ P \in SUBSET (Ids \X Entities)
  BY <1>1, <1>4
<1>7. Cardinality(X) <= MaxBuffer /\ Cardinality(P) <= MaxBuffer
  <2>1. IsFiniteSet(rl.results) /\ IsFiniteSet(rl.pulled)
    BY <1>1, TriplesFinite, PairsFinite
  <2>2. /\ Cardinality(X) <= Cardinality(rl.results) /\ IsFiniteSet(X)
        /\ Cardinality(P) <= Cardinality(rl.pulled) /\ IsFiniteSet(P)
    BY <1>4, <2>1, FS_Subset
  <2>3. /\ Cardinality(X) \in Nat /\ Cardinality(rl.results) \in Nat
        /\ Cardinality(P) \in Nat /\ Cardinality(rl.pulled) \in Nat
    BY <2>1, <2>2, FS_CardinalityType
  <2> QED BY <1>1, <2>2, <2>3, RelayConstants
<1>8. r \in Relays
  BY <1>1, <1>2, <1>6, Zenon DEF Relays
<1>9. /\ r.up = rl.up /\ r.cur = rl.cur /\ r.results = X /\ r.pulled = P
      /\ r.page = rl.page /\ r.pc = rl.pc /\ r.from = rl.from
  BY <1>1, <1>2 DEF Relays
<1>10. SessionOK(r)
  BY <1>4, <1>7, <1>8, <1>9, SessionFacts DEF SessionOK, TruePairs, TrueResults
<1>11. ASSUME NEW i, Known(rl.pulled, skipped, i) PROVE Known(P, skipped, i)
  <2>1. CASE <<i, srv[i].ent>> \in rl.pulled
    <3>1. PICK p \in rl.pulled : p = <<i, srv[i].ent>>
      BY <2>1
    <3>2. p \in P \/ \E d \in Clients : Store(d, srv[p[1]].ent)
      BY <1>5
    <3> QED BY <3>1, <3>2 DEF Known
  <2> QED BY <1>11, <2>1 DEF Known
<1>12. "restore" \notin Events => Covers(r, skipped)
  BY <1>9, <1>11, SessionFacts DEF Covers
<1>13. UNCHANGED vars /\ UNCHANGED <<tasks, skipped>> /\ skipped \in SUBSET Ids /\ Do(c, NoCommand)
  BY DEF Ack, RInv
<1>14. tasks' \in [Slots -> Tasks] /\ \A k \in Slots : TaskOK(tasks'[k])
  BY <1>13 DEF RInv
<1>15. cli' \in [Clients -> RelayCommands] /\ \A d \in Clients : CommandOK(d, cli'[d])
  BY <1>13, NoCommandOK, DoFacts
<1>16. PICK over \in SUBSET Ids : over = skipped
  BY <1>13
<1>17. RInv'
  BY <1>3, <1>10, <1>12, <1>13, <1>14, <1>15, <1>16, StillFrame
<1> QED BY <1>1, <1>3, <1>9, <1>17 DEF CursorKept

\* A batch of the relay, which sends no ids along.
LEMMA TaskSentOK ==
    ASSUME RInv, NEW k \in Slots, TaskSent(k)
    PROVE  RInv'
<1>1. PICK t : t = tasks[k]
  OBVIOUS
<1>2. t \in Tasks /\ t.own \in Clients /\ t.offer \in SUBSET Entities
  BY <1>1 DEF RInv, Tasks
<1>3. PICK c \in Clients, K \in SUBSET Entities : c = t.own /\ K = t.offer
  BY <1>2
<1>4. PICK o \in Outcomes(c, K, NoIds) :
         /\ Insert(c, DOMAIN o.ids, o.ids)
         /\ SetTask(k, IF o.ok THEN [t EXCEPT !.st = "answered", !.offer = {},
                                              !.acks = Results(c, K, o.ids)]
                       ELSE FreeTask)
  BY <1>3, <1>1 DEF TaskSent
<1>5. UNCHANGED <<loc, ses, rl, cli, skipped>>
  BY DEF TaskSent
<1>6. TrueIds(NoIds) /\ \A e \in Entities : NoIds[e] = 0
  BY ZeroIsId0 DEF NoIds, TrueIds
<1> DEFINE D == DOMAIN o.ids
<1>7. /\ D \subseteq Missing(c, K) /\ D \in SUBSET Entities
      /\ \A e \in D : ~Collides(c, e, NoIds[e])
      /\ o.ids \in Assignments(NoIds, D)
      /\ Insert(c, D, o.ids)
  BY <1>4, OutcomeFacts DEF Missing
<1>8. IInv /\ RowsOK
  BY DEF RInv
<1>9. \A e \in D : NoIds[e] # 0 => Store(c, e)
  BY <1>6, <1>7
<1> HIDE DEF D
<1>10. next' >= next /\ ActiveFrom
  BY <1>6, <1>7, <1>8, <1>9, InsertFrame
<1>11. /\ next' \in 0..MaxId /\ srv' \in [Ids -> ServerRows]
       /\ Minted' /\ ExtIsTrue' /\ NamesKept
  BY <1>6, <1>7, <1>8, InsertFacts
<1>12. /\ Results(c, K, o.ids) \in SUBSET (Entities \X Ids)
       /\ \A a \in Results(c, K, o.ids) : Names(a[2], a[1])'
  <2>1. /\ Results(c, K, o.ids) \in SUBSET (Entities \X Ids)
        /\ \A a \in Results(c, K, o.ids) :
              /\ a[1] \in K /\ Names(a[2], a[1])'
              /\ srv'[a[2]].st = "active"
    BY <1>6, <1>7, <1>8, ResultFacts
  <2> QED BY <2>1
<1>13. IInv'
  BY <1>5, <1>8, <1>11, ServerStep DEF IInv, TypeOK
<1>14. SyncFrame
  BY <1>5, <1>8, <1>10, ServerFrame
<1>15. Guarantee
  BY <1>8, <1>11, <1>13, <1>14, Constants DEF Guarantee, SyncFrame, IInv, TypeOK
<1>16. PICK u : /\ u = IF o.ok THEN [t EXCEPT !.st = "answered", !.offer = {},
                                              !.acks = Results(c, K, o.ids)]
                       ELSE FreeTask
  OBVIOUS
<1>17. TaskOK(u)'
  <2>1. CASE o.ok
    <3>1. u = [t EXCEPT !.st = "answered", !.offer = {}, !.acks = Results(c, K, o.ids)]
      BY <1>16, <2>1
    <3>2. u \in Tasks /\ u.acks = Results(c, K, o.ids)
      BY <1>2, <1>12, <3>1 DEF Tasks
    <3> QED BY <1>12, <3>2 DEF TaskOK
  <2>2. CASE ~o.ok
    <3>1. u \in Tasks /\ u.acks = {}
      BY <1>16, <2>2, FreeTaskOK DEF FreeTask
    <3> QED BY <3>1 DEF TaskOK
  <2> QED BY <2>1, <2>2
<1>18. tasks' = [tasks EXCEPT ![k] = u] /\ u \in Tasks /\ tasks \in [Slots -> Tasks]
  BY <1>4, <1>16, <1>17 DEF SetTask, TaskOK, RInv
<1>19. tasks' \in [Slots -> Tasks] /\ \A j \in Slots : tasks'[j] = IF j = k THEN u ELSE tasks[j]
  BY <1>18
<1>20. (\A j \in Slots : TaskOK(tasks[j]))'
  <2> SUFFICES ASSUME NEW j \in Slots PROVE TaskOK(tasks[j])'
    OBVIOUS
  <2>1. CASE j = k
    <3>1. tasks'[j] = u
      BY <1>19, <2>1
    <3> QED BY <1>17, <3>1 DEF TaskOK
  <2>2. CASE j # k
    <3>1. PICK v : v = tasks[j]
      OBVIOUS
    <3>2. TaskOK(v)
      BY <3>1 DEF RInv
    <3>3. TaskOK(v)'
      BY <1>11, <3>2, TaskKept
    <3>4. tasks'[j] = v
      BY <1>19, <2>2, <3>1
    <3> QED BY <3>3, <3>4 DEF TaskOK
  <2> QED BY <2>1, <2>2
<1>21. cli' \in [Clients -> RelayCommands] /\ \A d \in Clients : CommandOK(d, cli'[d])
  BY <1>5 DEF RInv
<1>22. (\A d \in Clients : CommandOK(d, cli[d]))'
  BY <1>15, <1>21, CommandsKept
<1>23. SessionOK(rl) /\ ("restore" \notin Events => Covers(rl, skipped))
  BY DEF RInv
<1>24. PICK r : r = rl
  OBVIOUS
<1> QED BY <1>5, <1>15, <1>19, <1>20, <1>21, <1>22, <1>23, <1>24, RelayFrame

-----------------------------------------------------------------------------
LEMMA RInvInit == RelayInit => RInv
<1> SUFFICES ASSUME RelayInit PROVE RInv
  OBVIOUS
<1>1. IInv
  BY InitIInv DEF RelayInit
<1>2. RowsOK
  BY DEF RelayInit, Init, RowsOK, Idle
<1>3. rl = NoRelay /\ skipped = {} /\ next = 0
  BY DEF RelayInit, Init
<1>4. SessionOK(rl)
  <2>1. Cardinality({}) = 0 /\ MaxBuffer \in Nat
    BY FS_EmptySet, RelayConstants
  <2>2. /\ NoRelay.up = FALSE /\ NoRelay.cur = 0 /\ NoRelay.results = {} /\ NoRelay.pulled = {}
        /\ NoRelay.pc = "off" /\ NoRelay.page = {}
    BY DEF NoRelay
  <2> QED BY <1>3, <2>1, <2>2, NoRelayType DEF SessionOK, TruePairs, TrueResults
<1>5. Covers(rl, skipped)
  BY <1>3 DEF Covers, NoRelay
<1>6. tasks \in [Slots -> Tasks] /\ \A k \in Slots : TaskOK(tasks[k])
  BY FreeTaskOK DEF RelayInit
<1>7. cli \in [Clients -> RelayCommands] /\ \A c \in Clients : CommandOK(c, cli[c])
  <2>1. /\ NoCommand.since = 0 /\ NoCommand.pulled = {} /\ NoCommand.results = {}
        /\ NoCommand.ackPull = {}
    BY DEF NoCommand
  <2> QED BY <1>3, <2>1, NoCommandType DEF RelayInit, CommandOK, TruePairs, TrueResults
<1> QED BY <1>1, <1>2, <1>3, <1>4, <1>5, <1>6, <1>7 DEF RInv

LEMMA SameCursor == ASSUME RInv, rl'.cur = rl.cur \/ ~rl'.up PROVE CursorKept
<1>1. rl.cur \in Int
  BY SessionFacts, Constants
<1> QED BY <1>1 DEF CursorKept

LEMMA LoopCursor ==
    ASSUME RInv, CatchUpFetch \/ CatchUpFails \/ Connect \/ ReadFrame \/ StreamEnds \/ Retire
    PROVE  CursorKept
<1>1. rl \in Relays
  BY SessionFacts
<1>2. CASE CatchUpFetch
  <2>1. PICK page : rl' = [rl EXCEPT !.pc = "buffer", !.from = 0, !.page = page]
    BY <1>2 DEF CatchUpFetch, Loop
  <2> QED BY <1>1, <2>1, SameCursor DEF Relays
<1>3. CASE CatchUpFails
  BY <1>1, <1>3, SameCursor DEF CatchUpFails, Loop, Relays
<1>4. CASE Connect
  BY <1>1, <1>4, SameCursor DEF Connect, Loop, Relays
<1>5. CASE ReadFrame
  BY <1>1, <1>5, SameCursor DEF ReadFrame, Loop, Relays
<1>6. CASE StreamEnds
  BY <1>1, <1>6, SameCursor DEF StreamEnds, Loop, Relays
<1>7. CASE Retire
  BY <1>7, SameCursor DEF Retire, Loop, NoRelay
<1> QED BY <1>2, <1>3, <1>4, <1>5, <1>6, <1>7

LEMMA RInvNext == RInv /\ [RelayNext]_allVars => RInv' /\ CursorKept
<1> SUFFICES ASSUME RInv, [RelayNext]_allVars PROVE RInv' /\ CursorKept
  OBVIOUS
<1>1. ASSUME NEW c \in Clients,
             \/ NudgeRows(c) \/ Poll(c) \/ ApplyResult(c) \/ ApplyPulled(c)
             \/ RegisterLost(c) \/ ApplyFails(c) \/ CommandEnds(c)
      PROVE  RInv' /\ CursorKept
  <2>1. UNCHANGED rl
    BY <1>1 DEF NudgeRows, Poll, ApplyResult, ApplyPulled, RegisterLost, ApplyFails, CommandEnds
  <2>2. CursorKept
    BY <2>1, SameCursor
  <2>3. RInv'
    BY <1>1, NudgeRowsOK, PollOK, ApplyResultOK, ApplyPulledOK, EndsOK, ApplyFailsOK
  <2> QED BY <2>2, <2>3
<1>2. ASSUME NEW c \in Clients, Register(c) \/ Ack(c) PROVE RInv' /\ CursorKept
  BY <1>2, RegisterOK, AckOK
<1>3. ASSUME NEW k \in Slots, TaskStep(k) PROVE RInv' /\ CursorKept
  <2>1. CASE TaskSent(k)
    <3>1. UNCHANGED rl
      BY <2>1 DEF TaskSent
    <3> QED BY <2>1, <3>1, TaskSentOK, SameCursor
  <2>2. CASE TaskAnswered(k)
    BY <2>2, TaskAnsweredOK
  <2> QED BY <1>3, <2>1, <2>2 DEF TaskStep
<1>4. CASE CatchUpBuffer
  BY <1>4, CatchUpBufferOK
<1>5. CASE CatchUpFetch \/ CatchUpFails \/ Connect \/ ReadFrame \/ StreamEnds \/ Retire
  BY <1>5, LoopCursor, CatchUpFetchOK, LoopMovesOK, RetireOK
<1>6. CASE DaemonStops \/ \E k \in Slots : TaskFails(k)
  BY <1>6, TasksEndOK
<1>7. CASE Next /\ UNCHANGED relayVars
  <2>1. UNCHANGED rl
    BY <1>7 DEF relayVars
  <2> QED BY <1>7, <2>1, SyncStepOK, SameCursor
<1>8. CASE UNCHANGED allVars
  <2>1. UNCHANGED vars /\ UNCHANGED rl /\ UNCHANGED <<tasks, cli, skipped>>
    BY <1>8 DEF allVars, relayVars
  <2>2. PICK r : r = rl
    OBVIOUS
  <2>3. Loop(r) /\ SessionOK(r) /\ ("restore" \notin Events => Covers(r, skipped))
    BY <2>1, <2>2 DEF Loop, RInv
  <2> QED BY <2>1, <2>3, LoopFrame, SameCursor
<1>9. CASE RelayNext
  <2>1. CASE \E c \in Clients : NudgeRows(c) \/ RelayStep(c)
    BY <1>1, <1>2, <2>1 DEF RelayStep
  <2>2. CASE LoopStep
    BY <1>4, <1>5, <2>2 DEF LoopStep
  <2>3. CASE RelayFault
    BY <1>1, <1>5, <1>6, <2>3 DEF RelayFault
  <2> QED BY <1>3, <1>5, <1>7, <1>9, <2>1, <2>2, <2>3 DEF RelayNext
<1> QED BY <1>8, <1>9

\* The invariant of the relay beside any sync, whatever answers, registrations,
\* acknowledgements and daemons are lost.
THEOREM RelayInvariance == RelaySpec => []RInv
<1>1. RInv /\ [RelayNext]_allVars => RInv'
  BY RInvNext
<1> QED BY RInvInit, <1>1, PTL DEF RelaySpec

\* Every variable keeps its type; in particular the two buffers never hold more than
\* MAX_BUFFERED_ITEMS_PER_SESSION, however results and pages come in.
THEOREM RelayTypeCorrect == RelaySpec => []RelayTypeOK
<1>1. RInv => RelayTypeOK
  BY DEF RInv, IInv, SessionOK, RelayTypeOK
<1> QED BY RelayInvariance, <1>1, PTL

\* Unless another machine puts lost rows back under their old ids, no entry at or
\* behind the cursor is forgotten (catch_up, ack, seed_cursor).
THEOREM CursorCoversAll ==
    ASSUME "restore" \notin Events
    PROVE  RelaySpec => []CursorCovers
<1>1. RInv => CursorCovers
  <2> SUFFICES ASSUME RInv PROVE CursorCovers
    OBVIOUS
  <2>1. Covers(rl, skipped)
    BY DEF RInv
  <2> QED BY <2>1 DEF Covers, CursorCovers, Known, Store
<1> QED BY RelayInvariance, <1>1, PTL

\* A session's cursor never goes back (seed_cursor, catch_up).
THEOREM CursorNeverBack == RelaySpec => CursorGrows
<1>1. RInv /\ [RelayNext]_allVars => [rl.up /\ rl'.up => rl'.cur >= rl.cur]_allVars
  BY RInvNext DEF CursorKept
<1> QED BY RelayInvariance, <1>1, PTL DEF RelaySpec, CursorGrows

\* With the relay beside it a sync still stamps rows with their own ids only.
THEOREM RelayStampsAreTrue == RelaySpec => []StampIsTrue
<1>1. RInv => StampIsTrue
  BY DEF RInv, IInv
<1> QED BY RelayInvariance, <1>1, PTL
=============================================================================
