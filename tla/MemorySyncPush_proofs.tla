------------------------ MODULE MemorySyncPush_proofs ------------------------
(***************************************************************************)
(* What a command is promised, for every number of machines and entries:   *)
(* RepushIsAccepted while nobody archives on the server, RestoreComplete   *)
(* while nobody deletes there, and CaughtUp while nobody archives there,   *)
(* only one machine tombstones and the database is not lost (each is false *)
(* otherwise: README, section 9).                                          *)
(***************************************************************************)
EXTENDS MemorySync_proofs

\* The server still stores a row that client c pushed for entry e.
Held(c, e) == \E i \in Stored : srv[i].ext = <<c, e>>

\* What a command holds at each stage; a row that is offered without a supplied id
\* has none.
StageOK(c, s) ==
    /\ s.pc # "apply" => s.page = {}
    /\ s.pc # "push" => s.acks = {} /\ s.offer = {} /\ s.tombs = {}
    /\ s.cmd # "sync" => s.pc \notin {"pull", "apply"}
    /\ \A a \in s.acks : a[1] \notin s.offer
    /\ s.cmd # "force" => \A e \in s.offer : loc[c][e].rid = 0

\* An entry the server still stores a pushed row of is carried under a stored id.
CarriedStored(c, s) ==
    /\ \A p \in s.page : Held(c, p[2]) => p[1] \in Stored
    /\ \A a \in s.acks : Held(c, a[1]) => a[2] \in Stored

\* A force push under way: every active entry is still to be sent, is stored under its
\* id, or has its result waiting.
Restoring(c, s) ==
    s.cmd = "force" /\ s.result = "ok" /\ ~s.disturbed =>
        /\ s.pc = "push" =>
              /\ \A e \in Entities : loc[c][e].st = "active" =>
                    \/ e \in s.offer
                    \/ loc[c][e].rid \in Stored
                    \/ loc[c][e].rid = 0 /\ \E a \in s.acks : a[1] = e
              /\ \A a \in s.acks : a[2] \in Stored
        /\ s.pc = "done" =>
              \A e \in Entities : loc[c][e].st = "active" => loc[c][e].rid \in Stored

SessionOK(c, s) ==
    /\ StageOK(c, s)
    /\ "remove" \notin Events => (s.cmd # "force" => s.result # "refused")
    /\ "tombstone" \notin Events => /\ s.tombs = {} /\ ~s.archived
                                    /\ CarriedStored(c, s) /\ Restoring(c, s)

NoneArchived == \A i \in Ids : srv[i].st # "archived"

\* A stamp of an entry the server still stores a pushed row of is a stored id: so a row
\* that is skipped because it exists is there under its stamp too.
HeldIsStored ==
    \A c \in Clients, e \in Entities :
        Held(c, e) /\ loc[c][e].rid # 0 => loc[c][e].rid \in Stored

PInv ==
    /\ \A c \in Clients : SessionOK(c, ses[c])
    /\ "remove" \notin Events => NoneArchived
    /\ "tombstone" \notin Events => HeldIsStored

-----------------------------------------------------------------------------
(* What each kind of step has to respect. *)

LEMMA SessionFrame ==
    ASSUME NEW c \in Clients, SessionOK(c, ses[c]), srv' = srv, loc'[c] = loc[c],
           ses'[c] = ses[c]
    PROVE  SessionOK(c, ses[c])'
BY DEF SessionOK, StageOK, CarriedStored, Restoring, Held, Stored, HasStatus

LEMMA SessionPush ==
    ASSUME IInv, PInv, NEW c \in Clients, NEW s \in Sessions, Go(c, s),
           UNCHANGED <<next, srv, loc>>, SessionOK(c, s)
    PROVE  PInv'
<1>1. ses'[c] = s /\ \A d \in Clients \ {c} : ses'[d] = ses[d]
  BY GoType DEF IInv
<1>2. \A d \in Clients : SessionOK(d, ses[d])'
  <2> SUFFICES ASSUME NEW d \in Clients PROVE SessionOK(d, ses[d])'
    OBVIOUS
  <2>1. CASE d = c
    BY <1>1, <2>1 DEF SessionOK, StageOK, CarriedStored, Restoring, Held, Stored, HasStatus
  <2>2. CASE d # c
    BY <1>1, <2>2, SessionFrame DEF PInv
  <2> QED BY <2>1, <2>2
<1> QED BY <1>2 DEF PInv, NoneArchived, HeldIsStored, Held, Stored, HasStatus

LEMMA LocalPush ==
    ASSUME IInv, PInv, NEW c \in Clients, NEW e \in Entities, NEW row, SetRow(c, e, row),
           UNCHANGED <<next, srv>>, \A d \in Clients \ {c} : ses'[d] = ses[d],
           SessionOK(c, ses[c])',
           "tombstone" \notin Events /\ Held(c, e) /\ row.rid # 0 => row.rid \in Stored
    PROVE  PInv'
<1>1. \A d \in Clients, f \in Entities :
          loc'[d][f] = IF d = c /\ f = e THEN row ELSE loc[d][f]
  BY DEF IInv, TypeOK, SetRow
<1>2. \A d \in Clients \ {c} : loc'[d] = loc[d]
  BY DEF IInv, TypeOK, SetRow
<1>3. \A d \in Clients : SessionOK(d, ses[d])'
  BY <1>2, SessionFrame DEF PInv
<1>4. "tombstone" \notin Events => HeldIsStored'
  BY <1>1 DEF PInv, HeldIsStored, Held, Stored, HasStatus
<1> QED BY <1>3, <1>4 DEF PInv, NoneArchived

\* A step of the server's other callers: what is stored stays, and no row is pushed.
LEMMA ServerPush ==
    ASSUME IInv, PInv, UNCHANGED <<loc, ses>>, Stored \subseteq Stored',
           \A c \in Clients, e \in Entities : Held(c, e)' => Held(c, e),
           "remove" \notin Events => NoneArchived'
    PROVE  PInv'
<1>1. \A c \in Clients : SessionOK(c, ses[c])'
  <2> SUFFICES ASSUME NEW c \in Clients PROVE SessionOK(c, ses[c])'
    OBVIOUS
  <2>1. SessionOK(c, ses[c])
    BY DEF PInv
  <2>2. StageOK(c, ses[c])'
    BY <2>1 DEF SessionOK, StageOK
  <2>3. /\ \A p \in ses[c].page : p[2] \in Entities
        /\ \A a \in ses[c].acks : a[1] \in Entities
    BY DEF IInv, TypeOK, Sessions
  <2>4. CarriedStored(c, ses[c]) => CarriedStored(c, ses[c])'
    BY <2>3 DEF CarriedStored
  <2>5. Restoring(c, ses[c]) => Restoring(c, ses[c])'
    BY DEF Restoring
  <2> QED BY <2>1, <2>2, <2>4, <2>5 DEF SessionOK
<1>2. "tombstone" \notin Events => HeldIsStored'
  BY DEF PInv, HeldIsStored
<1> QED BY <1>1, <1>2 DEF PInv

-----------------------------------------------------------------------------
(* The steps of a command that touch its session only. *)

LEMMA IdleOK == \A c \in Clients : SessionOK(c, Idle)
BY DEF SessionOK, StageOK, CarriedStored, Restoring, Idle

LEMMA IdlePush ==
    ASSUME IInv, PInv, NEW c \in Clients, Go(c, Idle), UNCHANGED <<next, srv, loc>>
    PROVE  PInv'
BY IdleType, IdleOK, SessionPush

LEMMA BeginPush ==
    ASSUME IInv, PInv, NEW c \in Clients, NEW cmd \in {"sync", "push", "force"},
           NEW archived \in BOOLEAN, NEW s \in Sessions, Begin(c, cmd, archived, s),
           s.page = {}, s.acks = {}, s.offer = {}, s.tombs = {}, s.result = "ok",
           s.pc \in {"rows", "pull"}, s.pc = "pull" => cmd = "sync"
    PROVE  PInv'
<1> DEFINE t == [s EXCEPT !.cmd = cmd, !.archived = archived]
<1>1. t \in Sessions
  BY Zenon DEF Sessions
<1>2. /\ t.page = {} /\ t.acks = {} /\ t.offer = {} /\ t.tombs = {} /\ t.result = "ok"
      /\ t.pc = s.pc /\ t.cmd = cmd
  BY DEF Sessions
<1>3. "tombstone" \notin Events => ~t.archived
  <2>1. t.archived = archived
    BY DEF Sessions
  <2>2. archived => "tombstone" \in Events
    BY DEF Begin
  <2> HIDE DEF t
  <2> QED BY <2>1, <2>2
<1>4. Go(c, t) /\ UNCHANGED <<next, srv, loc>>
  BY DEF Begin
<1> HIDE DEF t
<1>5. SessionOK(c, t)
  BY <1>2, <1>3 DEF SessionOK, StageOK, CarriedStored, Restoring
<1> QED BY <1>1, <1>4, <1>5, SessionPush

LEMMA StartSyncPush ==
    ASSUME IInv, PInv, NEW c \in Clients, NEW archived \in BOOLEAN, StartSync(c, archived)
    PROVE  PInv'
<1> DEFINE base == MaxRemoteId(c)
           s == [Idle EXCEPT !.pc = IF base = 0 THEN "rows" ELSE "pull",
                             !.base = base, !.cur = base, !.due = ActiveIds]
<1>1. s \in Sessions
  <2>1. base \in 0..MaxId /\ ActiveIds \in SUBSET Ids
    BY MaxRemoteIdType DEF IInv, ActiveIds, HasStatus
  <2>2. (IF base = 0 THEN "rows" ELSE "pull") \in {"idle", "pull", "apply", "rows", "push", "done"}
    OBVIOUS
  <2> HIDE DEF base
  <2> QED BY <2>1, <2>2, IdleType, Zenon DEF Sessions
<1>2. /\ s.page = {} /\ s.acks = {} /\ s.offer = {} /\ s.tombs = {} /\ s.result = "ok"
      /\ s.pc \in {"rows", "pull"}
  BY DEF Idle
<1>3. Begin(c, "sync", archived, s)
  BY DEF StartSync
<1> HIDE DEF s
<1> QED BY <1>1, <1>2, <1>3, BeginPush

LEMMA StartPushPush ==
    ASSUME IInv, PInv, NEW c \in Clients, NEW cmd \in {"sync", "push", "force"},
           NEW archived \in BOOLEAN, StartPush(c, cmd, archived)
    PROVE  PInv'
<1> DEFINE s == [Idle EXCEPT !.pc = "rows"]
<1>1. s \in Sessions
  BY IdleType, Zenon DEF Sessions
<1>2. /\ s.page = {} /\ s.acks = {} /\ s.offer = {} /\ s.tombs = {} /\ s.result = "ok"
      /\ s.pc = "rows"
  BY DEF Idle
<1>3. Begin(c, cmd, archived, s)
  BY DEF StartPush
<1> HIDE DEF s
<1> QED BY <1>1, <1>2, <1>3, BeginPush

LEMMA PullPagePush ==
    ASSUME IInv, PInv, IInv', NEW c \in Clients, PullPage(c)
    PROVE  PInv'
<1> DEFINE s == ses[c]
           P == IF ProjectExists THEN NotesSinceId(s.cur) ELSE {}
           page == {<<i, srv[i].ent>> : i \in P}
           cur == IF Full(P) THEN Max(P) ELSE s.cur
           total == IF ProjectExists THEN Cardinality(ActiveIds) ELSE s.total
           t == [s EXCEPT !.pc = "apply", !.page = page, !.more = Full(P),
                          !.cur = cur, !.total = total]
<1>1. s \in Sessions /\ SessionOK(c, s) /\ s.pc = "pull"
  BY DEF IInv, TypeOK, PInv, PullPage
<1>2. Go(c, t) /\ UNCHANGED <<next, srv, loc>>
  BY DEF PullPage
<1>3. \A p \in page : p[1] \in Stored
  <2>1. P \subseteq ActiveIds /\ ActiveIds \subseteq Stored
    BY DEF NotesSinceId, ActiveIds, HasStatus, Stored
  <2> HIDE DEF P
  <2> QED BY <2>1
<1> HIDE DEF s, P, page, cur, total
<1>4. t = ses'[c]
  BY <1>2 DEF Go, IInv, TypeOK
<1>5. t \in Sessions
  BY <1>4 DEF IInv, TypeOK
<1>6. /\ t.pc = "apply" /\ t.page = page /\ t.acks = s.acks /\ t.offer = s.offer
      /\ t.tombs = s.tombs /\ t.cmd = s.cmd /\ t.result = s.result
  BY <1>1 DEF Sessions
<1>7. t.archived = s.archived
  BY <1>1 DEF Sessions
<1> HIDE DEF t
<1>8. SessionOK(c, t)
  BY <1>1, <1>3, <1>6, <1>7 DEF SessionOK, StageOK, CarriedStored, Restoring
<1> QED BY <1>2, <1>5, <1>8, SessionPush

LEMMA PageDonePush ==
    ASSUME IInv, PInv, IInv', NEW c \in Clients, PageDone(c)
    PROVE  PInv'
<1> DEFINE s == ses[c]
           t1 == [s EXCEPT !.pc = "pull"]
           t2 == [s EXCEPT !.pc = "pull", !.cur = 0, !.repull = TRUE]
           t3 == [s EXCEPT !.pc = IF s.confirm THEN "done" ELSE "rows"]
<1>1. /\ s \in Sessions /\ SessionOK(c, s) /\ s.pc = "apply" /\ s.page = {}
      /\ UNCHANGED <<next, srv, loc>>
  BY DEF IInv, TypeOK, PInv, PageDone
<1>2. PICK t \in {t1, t2, t3} : Go(c, t)
  BY DEF PageDone
<1>3. /\ t.pc \in {"pull", "done", "rows"} /\ t.page = s.page /\ t.acks = s.acks
      /\ t.offer = s.offer /\ t.tombs = s.tombs /\ t.cmd = s.cmd /\ t.result = s.result
  <2> HIDE DEF s
  <2> QED BY <1>1, <1>2 DEF Sessions
<1>4. t.archived = s.archived
  <2> HIDE DEF s
  <2> QED BY <1>1, <1>2 DEF Sessions
<1> HIDE DEF s, t1, t2, t3
<1>5. t = ses'[c]
  BY <1>2 DEF Go, IInv, TypeOK
<1>6. t \in Sessions
  BY <1>5 DEF IInv, TypeOK
<1>7. s.cmd = "sync"
  BY <1>1 DEF SessionOK, StageOK
<1>8. SessionOK(c, t)
  BY <1>1, <1>3, <1>4, <1>7 DEF SessionOK, StageOK, CarriedStored, Restoring
<1> QED BY <1>1, <1>2, <1>6, <1>8, SessionPush

LEMMA TakeRowsPush ==
    ASSUME IInv, PInv, IInv', NEW c \in Clients, TakeRows(c)
    PROVE  PInv'
<1> DEFINE s == ses[c]
           offer == {e \in Entities : /\ loc[c][e].st = "active"
                                      /\ s.cmd = "force" \/ loc[c][e].rid = 0}
           tombs == IF s.archived THEN Tombs(c) ELSE {}
           t == [s EXCEPT !.pc = "push", !.offer = offer, !.tombs = tombs]
<1>1. s \in Sessions /\ SessionOK(c, s) /\ s.pc = "rows"
  BY DEF IInv, TypeOK, PInv, TakeRows
<1>2. Go(c, t) /\ UNCHANGED <<next, srv, loc>>
  BY DEF TakeRows
<1>3. /\ s.cmd = "force" => \A e \in Entities : loc[c][e].st = "active" => e \in offer
      /\ s.cmd # "force" => \A e \in offer : loc[c][e].rid = 0
      /\ "tombstone" \notin Events => tombs = {}
  BY <1>1 DEF SessionOK
<1> HIDE DEF s, offer, tombs
<1>4. t = ses'[c]
  BY <1>2 DEF Go, IInv, TypeOK
<1>5. t \in Sessions
  BY <1>4 DEF IInv, TypeOK
<1>6. /\ t.pc = "push" /\ t.page = s.page /\ t.acks = s.acks /\ t.offer = offer
      /\ t.tombs = tombs /\ t.cmd = s.cmd /\ t.result = s.result
  BY <1>1 DEF Sessions
<1>7. t.archived = s.archived
  BY <1>1 DEF Sessions
<1> HIDE DEF t
<1>8. SessionOK(c, t)
  BY <1>1, <1>3, <1>6, <1>7 DEF SessionOK, StageOK, CarriedStored, Restoring
<1> QED BY <1>2, <1>5, <1>8, SessionPush

\* An interrupted push has nothing left to send, and promises nothing.
LEMMA InterruptOK ==
    ASSUME IInv, NEW c \in Clients, SessionOK(c, ses[c]), Sending(ses[c]),
           NEW r \in {"interrupted", "refused"},
           "remove" \notin Events /\ r = "refused" => ses[c].cmd = "force"
    PROVE  SessionOK(c, Interrupt(ses[c], r))
<1> DEFINE s == ses[c]
           t == Interrupt(s, r)
<1>1. s \in Sessions
  BY DEF IInv, TypeOK
<1>2. /\ t.pc = s.pc /\ t.page = s.page /\ t.acks = s.acks /\ t.offer = {} /\ t.tombs = {}
      /\ t.result = r /\ t.cmd = s.cmd /\ t.archived = s.archived
  BY <1>1, InterruptType
<1>3. s.pc = "push" /\ s.acks = {}
  BY DEF Sending
<1> HIDE DEF t
<1> QED BY <1>2, <1>3 DEF SessionOK, StageOK, CarriedStored, Restoring, t

LEMMA PushUnsentPush ==
    ASSUME IInv, PInv, NEW c \in Clients, PushUnsent(c)
    PROVE  PInv'
<1>1. /\ Sending(ses[c]) /\ Go(c, Interrupt(ses[c], "interrupted"))
      /\ UNCHANGED <<next, srv, loc>>
  BY DEF PushUnsent
<1>2. Interrupt(ses[c], "interrupted") \in Sessions
  BY InterruptType DEF IInv, TypeOK
<1>3. SessionOK(c, Interrupt(ses[c], "interrupted"))
  BY <1>1, InterruptOK DEF PInv
<1> QED BY <1>1, <1>2, <1>3, SessionPush

LEMMA PushDonePush ==
    ASSUME IInv, PInv, IInv', NEW c \in Clients, PushDone(c)
    PROVE  PInv'
<1> DEFINE s == ses[c]
           t1 == [s EXCEPT !.pc = "done"]
           t2 == [s EXCEPT !.pc = "pull", !.confirm = TRUE, !.repull = FALSE,
                           !.cur = s.base, !.total = 0, !.more = FALSE]
<1>1. /\ s \in Sessions /\ SessionOK(c, s)
      /\ s.pc = "push" /\ s.acks = {} /\ s.offer = {} /\ s.tombs = {}
      /\ UNCHANGED <<next, srv, loc>>
  BY DEF IInv, TypeOK, PInv, PushDone
<1>2. Go(c, IF s.cmd # "sync" THEN t1 ELSE t2)
  BY DEF PushDone
<1> HIDE DEF s
<1> DEFINE t == IF s.cmd # "sync" THEN t1 ELSE t2
<1>3. /\ t.pc = IF s.cmd # "sync" THEN "done" ELSE "pull"
      /\ t.page = s.page /\ t.acks = s.acks /\ t.offer = s.offer /\ t.tombs = s.tombs
      /\ t.cmd = s.cmd /\ t.result = s.result
  BY <1>1 DEF Sessions
<1>4. t.archived = s.archived /\ t.disturbed = s.disturbed
  BY <1>1 DEF Sessions
<1> HIDE DEF t
<1>5. t = ses'[c]
  BY <1>2 DEF Go, IInv, TypeOK, t
<1>6. t \in Sessions
  BY <1>5 DEF IInv, TypeOK
<1>7. SessionOK(c, t)
  <2>1. StageOK(c, t) /\ CarriedStored(c, t)
    BY <1>1, <1>3 DEF SessionOK, StageOK, CarriedStored
  <2>2. "tombstone" \notin Events => Restoring(c, t)
    BY <1>1, <1>3, <1>4 DEF SessionOK, Restoring
  <2> QED BY <1>1, <1>3, <1>4, <2>1, <2>2 DEF SessionOK
<1> QED BY <1>1, <1>2, <1>6, <1>7, SessionPush DEF t

-----------------------------------------------------------------------------
(* The steps of a local store. *)

LEMMA AddPush ==
    ASSUME IInv, PInv, NEW c \in Clients, NEW e \in Entities, Add(c, e)
    PROVE  PInv'
<1> DEFINE row == [st |-> "active", rid |-> 0]
<1>1. SetRow(c, e, row) /\ UNCHANGED <<next, srv>> /\ Disturb({c}) /\ row.rid = 0
  BY DEF Add
<1> HIDE DEF row
<1>2. /\ \A d \in Clients \ {c} : ses'[d] = ses[d]
      /\ ses'[c].page = ses[c].page /\ ses'[c].acks = ses[c].acks
      /\ ses'[c].pc = ses[c].pc /\ ses'[c].cmd = ses[c].cmd
      /\ ses'[c].offer = ses[c].offer /\ ses'[c].tombs = ses[c].tombs
      /\ ses'[c].result = ses[c].result
  BY <1>1, DisturbKeeps DEF IInv, Disturb
<1>3. /\ ses'[c].archived = ses[c].archived
      /\ ses[c].pc # "idle" => ses'[c].disturbed
  BY <1>1, DisturbKeeps DEF IInv
<1>4. \A f \in Entities : loc'[c][f].rid \in {loc[c][f].rid, 0}
  BY <1>1 DEF IInv, TypeOK, SetRow
<1>5. SessionOK(c, ses[c])'
  <2>1. SessionOK(c, ses[c])
    BY DEF PInv
  <2>2. ses[c].offer \in SUBSET Entities
    BY DEF IInv, TypeOK, Sessions
  <2>3. StageOK(c, ses[c])'
    BY <1>2, <1>4, <2>1, <2>2 DEF SessionOK, StageOK
  <2>4. CarriedStored(c, ses[c]) => CarriedStored(c, ses[c])'
    BY <1>1, <1>2 DEF CarriedStored, Held, Stored, HasStatus
  <2>5. Restoring(c, ses[c])'
    BY <1>2, <1>3 DEF Restoring
  <2> QED BY <1>2, <1>3, <2>1, <2>3, <2>4, <2>5 DEF SessionOK
<1> QED BY <1>1, <1>2, <1>5, LocalPush

LEMMA ArchivePush ==
    ASSUME IInv, PInv, NEW c \in Clients, NEW e \in Entities, Archive(c, e)
    PROVE  PInv'
<1> DEFINE row == [loc[c][e] EXCEPT !.st = "archived"]
<1>1. SetRow(c, e, row) /\ next' = next /\ srv' = srv /\ ses' = ses
  BY DEF Archive
<1>2. row.rid = loc[c][e].rid /\ row.st = "archived"
  BY DEF IInv, TypeOK, LocalRows
<1> HIDE DEF row
<1>3. \A f \in Entities : loc'[c][f] = IF f = e THEN row ELSE loc[c][f]
  BY <1>1 DEF IInv, TypeOK, SetRow
<1>4. SessionOK(c, ses[c])'
  <2> DEFINE s == ses[c]
  <2>1. SessionOK(c, s) /\ s.offer \in SUBSET Entities
    BY DEF PInv, IInv, TypeOK, Sessions
  <2>2. s' = s /\ Stored' = Stored /\ srv' = srv
    BY <1>1 DEF Stored, HasStatus
  <2> HIDE DEF s
  <2>3. StageOK(c, s)'
    BY <1>2, <1>3, <2>1, <2>2 DEF SessionOK, StageOK
  <2>4. CarriedStored(c, s) => CarriedStored(c, s)'
    BY <2>2 DEF CarriedStored, Held
  <2>5. Restoring(c, s) => Restoring(c, s)'
    BY <1>2, <1>3, <2>2 DEF Restoring
  <2> QED BY <2>1, <2>2, <2>3, <2>4, <2>5 DEF SessionOK, s
<1>5. "tombstone" \notin Events /\ Held(c, e) /\ row.rid # 0 => row.rid \in Stored
  BY <1>2 DEF PInv, HeldIsStored
<1> QED BY <1>1, <1>4, <1>5, LocalPush

LEMMA ApplyEntryPush ==
    ASSUME IInv, PInv, IInv', NEW c \in Clients, ApplyEntry(c)
    PROVE  PInv'
<1> DEFINE s == ses[c]
<1>1. PICK p \in s.page : /\ ApplyRemoteNote(c, p[1], p[2])
                          /\ Go(c, [s EXCEPT !.page = @ \ {p}])
  BY DEF ApplyEntry
<1>2. /\ s \in Sessions /\ SessionOK(c, s) /\ s.pc = "apply"
      /\ s.page \in SUBSET (Ids \X Entities) /\ UNCHANGED <<next, srv>>
  BY DEF IInv, TypeOK, Sessions, PInv, ApplyEntry
<1>3. p[1] \in Ids /\ p[2] \in Entities
  BY <1>2
<1> DEFINE t == [s EXCEPT !.page = @ \ {p}]
<1>4. Go(c, t)
  BY <1>1
<1>5. /\ t.pc = s.pc /\ t.page = s.page \ {p} /\ t.acks = s.acks /\ t.offer = s.offer
      /\ t.tombs = s.tombs /\ t.cmd = s.cmd /\ t.result = s.result
  BY <1>2 DEF Sessions
<1>6. t.archived = s.archived
  BY <1>2 DEF Sessions
<1> HIDE DEF t
<1>7. t = ses'[c] /\ t \in Sessions /\ \A d \in Clients \ {c} : ses'[d] = ses[d]
  BY <1>4 DEF Go, IInv, TypeOK
<1>8. SessionOK(c, t)
  BY <1>2, <1>5, <1>6 DEF SessionOK, StageOK, CarriedStored, Restoring
<1>9. CASE \E f \in Entities : loc[c][f].rid = p[1]
  <2>1. UNCHANGED loc
    BY <1>1, <1>9 DEF ApplyRemoteNote
  <2> QED BY <1>2, <1>4, <1>7, <1>8, <2>1, SessionPush
<1>10. CASE ~\E f \in Entities : loc[c][f].rid = p[1]
  <2> DEFINE row == IF loc[c][p[2]].st = "none" THEN [st |-> "active", rid |-> p[1]]
                    ELSE SetRemoteId(loc[c][p[2]], p[1])
  <2>1. SetRow(c, p[2], row)
    BY <1>1, <1>10 DEF ApplyRemoteNote
  <2>2. row.rid \in {p[1], loc[c][p[2]].rid}
    <3>1. loc[c][p[2]] \in LocalRows
      BY <1>3 DEF IInv, TypeOK
    <3> QED BY <3>1 DEF SetRemoteId, LocalRows
  <2> HIDE DEF row
  <2>3. SessionOK(c, ses[c])'
    <3>1. StageOK(c, ses[c])' /\ Restoring(c, ses[c])'
      BY <1>2, <1>5, <1>7 DEF SessionOK, StageOK, Restoring
    <3>2. CarriedStored(c, t) => CarriedStored(c, ses[c])'
      BY <1>2, <1>7 DEF CarriedStored, Held, Stored, HasStatus
    <3> QED BY <1>7, <1>8, <3>1, <3>2 DEF SessionOK
  <2>4. "tombstone" \notin Events /\ Held(c, p[2]) /\ row.rid # 0 => row.rid \in Stored
    BY <1>2, <1>3, <2>2 DEF SessionOK, CarriedStored, PInv, HeldIsStored
  <2> QED BY <1>2, <1>3, <1>7, <2>1, <2>3, <2>4, LocalPush
<1> QED BY <1>9, <1>10

LEMMA StampPush ==
    ASSUME IInv, PInv, IInv', NEW c \in Clients, Stamp(c)
    PROVE  PInv'
<1> DEFINE s == ses[c]
<1>1. PICK a \in s.acks : /\ SetRow(c, a[1], SetRemoteId(loc[c][a[1]], a[2]))
                          /\ Go(c, [s EXCEPT !.acks = @ \ {a}])
  BY DEF Stamp
<1>2. /\ s \in Sessions /\ SessionOK(c, s) /\ s.pc = "push" /\ s.offer \in SUBSET Entities
      /\ s.acks \in SUBSET (Entities \X Ids) /\ UNCHANGED <<next, srv>>
  BY DEF IInv, TypeOK, Sessions, PInv, Stamp
<1>3. a[1] \in Entities /\ a[2] \in Ids /\ a[2] # 0 /\ a[1] \notin s.offer
  BY <1>2, Constants DEF SessionOK, StageOK, Ids
<1> DEFINE t == [s EXCEPT !.acks = @ \ {a}]
           row == SetRemoteId(loc[c][a[1]], a[2])
<1>4. Go(c, t) /\ SetRow(c, a[1], row)
  BY <1>1
<1>5. /\ t.pc = s.pc /\ t.page = s.page /\ t.acks = s.acks \ {a} /\ t.offer = s.offer
      /\ t.tombs = s.tombs /\ t.cmd = s.cmd /\ t.result = s.result
  BY <1>2 DEF Sessions
<1>6. t.archived = s.archived /\ t.disturbed = s.disturbed
  BY <1>2 DEF Sessions
<1>7. /\ row.st = loc[c][a[1]].st
      /\ row.rid = IF loc[c][a[1]].rid = 0 THEN a[2] ELSE loc[c][a[1]].rid
  <2>1. loc[c][a[1]] \in LocalRows
    BY <1>3 DEF IInv, TypeOK
  <2> QED BY <2>1 DEF SetRemoteId, LocalRows
<1> HIDE DEF s, t, row
<1>8. t = ses'[c] /\ \A d \in Clients \ {c} : ses'[d] = ses[d]
  BY <1>4 DEF Go, IInv, TypeOK
<1>9. \A f \in Entities : loc'[c][f] = IF f = a[1] THEN row ELSE loc[c][f]
  BY <1>3, <1>4 DEF IInv, TypeOK, SetRow
<1>10. Stored' = Stored /\ \A e : Held(c, e)' <=> Held(c, e)
  BY <1>2 DEF Held, Stored, HasStatus
<1>11. StageOK(c, ses[c])'
  BY <1>2, <1>3, <1>5, <1>8, <1>9 DEF SessionOK, StageOK
<1>12. CarriedStored(c, s) => CarriedStored(c, ses[c])'
  BY <1>5, <1>8, <1>10 DEF CarriedStored
<1>13. Restoring(c, s) => Restoring(c, ses[c])'
  <2> SUFFICES ASSUME Restoring(c, s), t.cmd = "force", t.result = "ok", ~t.disturbed
               PROVE  /\ \A e \in Entities : loc'[c][e].st = "active" =>
                            \/ e \in t.offer
                            \/ loc'[c][e].rid \in Stored
                            \/ loc'[c][e].rid = 0 /\ \E b \in t.acks : b[1] = e
                      /\ \A b \in t.acks : b[2] \in Stored
    BY <1>2, <1>5, <1>8, <1>10 DEF Restoring
  <2>1. /\ \A e \in Entities : loc[c][e].st = "active" =>
              \/ e \in s.offer
              \/ loc[c][e].rid \in Stored
              \/ loc[c][e].rid = 0 /\ \E b \in s.acks : b[1] = e
        /\ \A b \in s.acks : b[2] \in Stored
    BY <1>2, <1>5, <1>6 DEF Restoring
  <2>2. a \in s.acks
    BY <1>1 DEF s
  <2>3. ASSUME NEW e \in Entities, loc'[c][e].st = "active"
        PROVE  \/ e \in t.offer
               \/ loc'[c][e].rid \in Stored
               \/ loc'[c][e].rid = 0 /\ \E b \in t.acks : b[1] = e
    <3>1. CASE e = a[1]
      BY <1>3, <1>7, <1>9, <2>1, <2>2, <2>3, <3>1
    <3>2. CASE e # a[1]
      BY <1>5, <1>9, <2>1, <2>3, <3>2
    <3> QED BY <3>1, <3>2
  <2> QED BY <1>5, <2>1, <2>3
<1>14. SessionOK(c, ses[c])'
  BY <1>2, <1>5, <1>6, <1>8, <1>11, <1>12, <1>13 DEF SessionOK
<1>15. "tombstone" \notin Events /\ Held(c, a[1]) /\ row.rid # 0 => row.rid \in Stored
  <2>1. a \in s.acks
    BY <1>1 DEF s
  <2> QED BY <1>2, <1>3, <1>7, <2>1 DEF SessionOK, CarriedStored, PInv, HeldIsStored
<1> QED BY <1>2, <1>3, <1>4, <1>8, <1>14, <1>15, LocalPush

-----------------------------------------------------------------------------
(* Requests to the server. *)

\* What an INSERT adds to the stored rows: the entries of D, each under its id.
LEMMA InsertStores ==
    ASSUME IInv, NEW c \in Clients, NEW D \in SUBSET Entities,
           NEW f \in Assignments(SuppliedIds(c), D), Insert(c, D, f),
           \A e \in D : ~Collides(c, e, SuppliedIds(c)[e])
    PROVE  /\ Stored \subseteq Stored' /\ \A e \in D : f[e] \in Stored'
           /\ \A d \in Clients, e \in Entities : Held(d, e)' => Held(d, e) \/ (d = c /\ e \in D)
           /\ NoneArchived => NoneArchived'
<1>1. /\ \A e \in D : /\ f[e] \in Ids /\ f[e] \notin Stored
                      /\ srv'[f[e]] = [st |-> "active", ent |-> e, ext |-> <<c, e>>]
      /\ \A i \in Ids : (\A e \in D : f[e] # i) => srv'[i] = srv[i]
  BY SuppliedFacts, InsertFacts
<1>2. ASSUME NEW e \in D
      PROVE  f[e] \in Ids /\ srv'[f[e]].st = "active" /\ srv'[f[e]].ext = <<c, e>>
  <2>1. srv'[f[e]] = [st |-> "active", ent |-> e, ext |-> <<c, e>>]
    BY <1>1
  <2> QED BY <1>1, <2>1
<1>3. \A i \in Stored : i \in Ids /\ srv'[i] = srv[i]
  BY <1>1 DEF Stored, HasStatus
<1>4. Stored \subseteq Stored' /\ \A e \in D : f[e] \in Stored'
  BY <1>2, <1>3 DEF Stored, HasStatus
<1>5. ASSUME NEW d \in Clients, NEW e \in Entities, Held(d, e)', ~(d = c /\ e \in D)
      PROVE  Held(d, e)
  <2>1. PICK i \in Stored' : srv'[i].ext = <<d, e>>
    BY <1>5 DEF Held
  <2>2. i \in Ids /\ srv'[i].st \in {"active", "archived"}
    BY <2>1 DEF Stored, HasStatus
  <2>3. \A g \in D : f[g] # i
    BY <1>2, <1>5, <2>1
  <2>4. srv'[i] = srv[i]
    BY <1>1, <2>2, <2>3
  <2> QED BY <2>1, <2>2, <2>4 DEF Held, Stored, HasStatus
<1>6. ASSUME NoneArchived, NEW i \in Ids PROVE srv'[i].st # "archived"
  <2>1. CASE \E e \in D : f[e] = i
    BY <1>2, <2>1
  <2>2. CASE ~\E e \in D : f[e] = i
    BY <1>1, <1>6, <2>2 DEF NoneArchived
  <2> QED BY <2>1, <2>2
<1>7. NoneArchived => NoneArchived'
  BY <1>6 DEF NoneArchived
<1> QED BY <1>4, <1>5, <1>7

\* A push of rows whose stamps are supplied, or which have none, keeps HeldIsStored.
LEMMA InsertHeld ==
    ASSUME IInv, PInv, NEW c \in Clients, NEW D \in SUBSET Entities, D \subseteq ses[c].offer,
           NEW f \in Assignments(SuppliedIds(c), D), Insert(c, D, f), UNCHANGED loc,
           \A e \in D : ~Collides(c, e, SuppliedIds(c)[e]), "tombstone" \notin Events
    PROVE  /\ HeldIsStored'
           /\ \A e \in D : loc[c][e].rid # 0 => loc[c][e].rid \in Stored'
<1>1. /\ Stored \subseteq Stored' /\ \A e \in D : f[e] \in Stored'
      /\ \A d \in Clients, e \in Entities : Held(d, e)' => Held(d, e) \/ (d = c /\ e \in D)
  BY InsertStores
<1>2. ASSUME NEW e \in D, loc[c][e].rid # 0 PROVE loc[c][e].rid \in Stored'
  <2>1. ses[c].cmd = "force"
    BY <1>2 DEF PInv, SessionOK, StageOK
  <2>2. SuppliedIds(c)[e] = loc[c][e].rid
    BY <2>1 DEF SuppliedIds, Supplied
  <2>3. f[e] = SuppliedIds(c)[e]
    BY <1>2, <2>2, SuppliedFacts, AssignmentFacts
  <2> QED BY <1>1, <2>2, <2>3
<1>3. HeldIsStored'
  BY <1>1, <1>2 DEF PInv, HeldIsStored
<1> QED BY <1>2, <1>3

\* The other machines while a request of client c is served.
LEMMA OthersKeep ==
    ASSUME IInv, PInv, NEW c \in Clients, NEW D \in SUBSET Entities, UNCHANGED loc,
           Stored \subseteq Stored',
           \A d \in Clients, e \in Entities : Held(d, e)' => Held(d, e) \/ (d = c /\ e \in D),
           NEW d \in Clients, d # c, ses'[d] = ses[d]
    PROVE  SessionOK(d, ses[d])'
<1> DEFINE s == ses[d]
<1>1. SessionOK(d, s) /\ s' = s
  BY DEF PInv
<1>2. /\ \A p \in s.page : p[2] \in Entities
      /\ \A a \in s.acks : a[1] \in Entities
  BY DEF IInv, TypeOK, Sessions
<1> HIDE DEF s
<1>3. StageOK(d, s)'
  BY <1>1 DEF SessionOK, StageOK
<1>4. CarriedStored(d, s) => CarriedStored(d, s)'
  BY <1>1, <1>2 DEF CarriedStored
<1>5. Restoring(d, s) => Restoring(d, s)'
  BY <1>1 DEF Restoring
<1> QED BY <1>1, <1>3, <1>4, <1>5 DEF SessionOK, s

\* Without archived rows a request without supplied ids is not refused.
LEMMA NotRefused ==
    ASSUME IInv, NoneArchived, NEW c \in Clients, ses[c].cmd # "force", NEW K \in SUBSET Entities,
           NEW o \in Outcomes(c, K, SuppliedIds(c))
    PROVE  o.ok
<1>1. SUFFICES ASSUME NEW e \in Missing(c, K), Collides(c, e, SuppliedIds(c)[e]) PROVE FALSE
  BY OutcomeFacts
<1>2. e \in Entities /\ SuppliedIds(c)[e] = 0 /\ FindByRemoteId(<<c, e>>) = {}
  BY DEF Missing, SuppliedIds, Supplied
<1>3. PICK i \in Stored : srv[i].ext = <<c, e>> \/ i = 0
  BY <1>1, <1>2 DEF Collides
<1>4. i \in Ids /\ i # 0 /\ srv[i].st = "active"
  BY Constants DEF Stored, HasStatus, NoneArchived, Ids
<1>5. i \in FindByRemoteId(<<c, e>>)
  BY <1>3, <1>4 DEF FindByRemoteId, ActiveIds, HasStatus
<1> QED BY <1>2, <1>5

\* An accepted request leaves every row of its chunk with a result.
LEMMA EveryRowAnswered ==
    ASSUME NEW c \in Clients, NEW K \in SUBSET Entities, NEW f \in Assignments(SuppliedIds(c), Missing(c, K)),
           NEW e \in K
    PROVE  /\ \E a \in Results(c, K, f) : a[1] = e
           /\ e \notin Missing(c, K) => Held(c, e)
<1>1. DOMAIN f = Missing(c, K)
  BY DEF Assignments
<1>2. CASE e \in Missing(c, K)
  <2>1. <<e, f[e]>> \in Results(c, K, f)
    BY <1>1, <1>2 DEF Results
  <2>2. <<e, f[e]>>[1] = e
    OBVIOUS
  <2> QED BY <1>2, <2>1, <2>2
<1>3. CASE e \notin Missing(c, K)
  <2>1. PICK i \in FindByRemoteId(<<c, e>>) : TRUE
    BY <1>3 DEF Missing
  <2>2. i \in Ids /\ i \in Stored /\ srv[i].ext = <<c, e>>
    BY <2>1 DEF FindByRemoteId, ActiveIds, HasStatus, Stored
  <2> DEFINE a == <<e, i>>
  <2>3. a \in (K \ DOMAIN f) \X Ids /\ a[1] = e /\ a[2] = i
    BY <1>1, <1>3, <2>2
  <2>4. a \in Results(c, K, f)
    <3> HIDE DEF a
    <3> QED BY <2>1, <2>3 DEF Results
  <2> QED BY <2>2, <2>3, <2>4 DEF Held
<1> QED BY <1>2, <1>3

LEMMA PushAnsweredPush ==
    ASSUME IInv, PInv, IInv', NEW c \in Clients, PushAnswered(c)
    PROVE  PInv'
<1> DEFINE s == ses[c]
           sup == SuppliedIds(c)
<1>1. PICK K \in Chunks(c) : \E o \in Outcomes(c, K, sup) :
         /\ Insert(c, DOMAIN o.ids, o.ids)
         /\ Go(c, IF o.ok THEN [s EXCEPT !.offer = @ \ K, !.acks = Results(c, K, o.ids)]
                  ELSE Interrupt(s, "refused"))
  BY DEF PushAnswered
<1>2. PICK o \in Outcomes(c, K, sup) :
         /\ Insert(c, DOMAIN o.ids, o.ids)
         /\ Go(c, IF o.ok THEN [s EXCEPT !.offer = @ \ K, !.acks = Results(c, K, o.ids)]
                  ELSE Interrupt(s, "refused"))
  BY <1>1
<1> DEFINE D == DOMAIN o.ids
           f == o.ids
           t == IF o.ok THEN [s EXCEPT !.offer = @ \ K, !.acks = Results(c, K, f)]
                ELSE Interrupt(s, "refused")
<1>3. /\ s \in Sessions /\ s.offer \in SUBSET Entities /\ s.acks = {} /\ s.pc = "push"
      /\ s.page = {} /\ SessionOK(c, s) /\ UNCHANGED loc
  BY DEF PushAnswered, Sending, IInv, TypeOK, Sessions, PInv, SessionOK, StageOK
<1>4. K \in SUBSET Entities /\ K \subseteq s.offer
  BY <1>3 DEF Chunks
<1>5. /\ D \subseteq Missing(c, K) /\ D \in SUBSET Entities /\ D \subseteq K
      /\ \A e \in D : ~Collides(c, e, SuppliedIds(c)[e])
      /\ f \in Assignments(SuppliedIds(c), D)
      /\ Insert(c, D, f)
      /\ o.ok => D = Missing(c, K)
  BY <1>2, <1>4, OutcomeFacts DEF Missing
<1>6. Go(c, t)
  BY <1>2
<1>7. o.ok => /\ t.pc = "push" /\ t.page = {} /\ t.acks = Results(c, K, f)
              /\ t.offer = s.offer \ K /\ t.tombs = s.tombs /\ t.cmd = s.cmd
              /\ t.result = s.result
  <2> HIDE DEF s, f, D
  <2> QED BY <1>3 DEF Sessions
<1>8. o.ok => t.archived = s.archived /\ t.disturbed = s.disturbed
  <2> HIDE DEF s, f, D
  <2> QED BY <1>3 DEF Sessions
<1>9. ~o.ok => /\ t.pc = "push" /\ t.page = {} /\ t.acks = {} /\ t.offer = {}
               /\ t.tombs = {} /\ t.cmd = s.cmd /\ t.result = "refused"
               /\ t.archived = s.archived
  <2> HIDE DEF s, f, D
  <2> QED BY <1>3, InterruptType
<1> HIDE DEF s, D, f, t, sup
<1>10. t = ses'[c] /\ \A d \in Clients \ {c} : ses'[d] = ses[d]
  BY <1>6 DEF Go, IInv, TypeOK
<1>11. /\ Stored \subseteq Stored'
       /\ NoneArchived => NoneArchived'
       /\ \A d \in Clients, e \in Entities : Held(d, e)' => Held(d, e) \/ (d = c /\ e \in D)
  BY <1>5, InsertStores
<1>12. /\ Results(c, K, f) \in SUBSET (Entities \X Ids)
       /\ \A a \in Results(c, K, f) : a[1] \in K /\ srv'[a[2]].st = "active"
  BY <1>4, <1>5, SuppliedFacts, ResultFacts
<1>13. \A a \in Results(c, K, f) : a[2] \in Stored'
  BY <1>12 DEF Stored, HasStatus
<1>14. "tombstone" \notin Events =>
          HeldIsStored' /\ \A e \in D : loc[c][e].rid # 0 => loc[c][e].rid \in Stored'
  BY <1>3, <1>4, <1>5, InsertHeld DEF s
<1>15. StageOK(c, ses[c])'
  <2>1. CASE o.ok
    BY <1>3, <1>7, <1>10, <1>12, <2>1 DEF SessionOK, StageOK
  <2>2. CASE ~o.ok
    BY <1>3, <1>9, <1>10, <2>2 DEF StageOK
  <2> QED BY <2>1, <2>2
<1>16. CarriedStored(c, ses[c])'
  <2>1. CASE o.ok
    BY <1>7, <1>10, <1>13, <2>1 DEF CarriedStored
  <2>2. CASE ~o.ok
    BY <1>9, <1>10, <2>2 DEF CarriedStored
  <2> QED BY <2>1, <2>2
<1>17. "tombstone" \notin Events => Restoring(c, ses[c])'
  <2>1. CASE ~o.ok
    BY <1>9, <1>10, <2>1 DEF Restoring
  <2>2. CASE o.ok
    <3> SUFFICES ASSUME "tombstone" \notin Events, t.cmd = "force", t.result = "ok",
                        ~t.disturbed, NEW e \in Entities, loc[c][e].st = "active"
                 PROVE  \/ e \in t.offer
                        \/ loc[c][e].rid \in Stored'
                        \/ loc[c][e].rid = 0 /\ \E a \in t.acks : a[1] = e
      BY <1>3, <1>7, <1>10, <1>13, <2>2 DEF Restoring
    <3>1. e \in s.offer \/ loc[c][e].rid \in Stored
      BY <1>3, <1>7, <1>8, <2>2 DEF SessionOK, Restoring
    <3>2. CASE e \in K
      <4>1. /\ \E a \in t.acks : a[1] = e
            /\ e \notin D => Held(c, e)
        BY <1>4, <1>5, <1>7, <2>2, <3>2, EveryRowAnswered
      <4>2. loc[c][e].rid # 0 => loc[c][e].rid \in Stored'
        BY <1>11, <1>14, <4>1 DEF PInv, HeldIsStored
      <4> QED BY <4>1, <4>2
    <3>3. CASE e \notin K
      BY <1>7, <1>11, <2>2, <3>1, <3>3
    <3> QED BY <3>2, <3>3
  <2> QED BY <2>1, <2>2
<1>18. "remove" \notin Events => (t.cmd # "force" => t.result # "refused")
  <2> SUFFICES ASSUME "remove" \notin Events, t.cmd # "force" PROVE t.result # "refused"
    OBVIOUS
  <2>1. s.cmd # "force"
    BY <1>7, <1>9, OutcomeFacts DEF sup
  <2>2. o.ok
    BY <1>4, <2>1, NotRefused DEF PInv, s, sup
  <2> QED BY <1>3, <1>7, <2>1, <2>2 DEF SessionOK
<1>19. SessionOK(c, ses[c])'
  <2>1. "tombstone" \notin Events => t.tombs = {} /\ ~t.archived
    <3>1. o.ok \/ ~o.ok
      OBVIOUS
    <3> QED BY <1>3, <1>7, <1>8, <1>9, <3>1 DEF SessionOK
  <2> QED BY <1>10, <1>15, <1>16, <1>17, <1>18, <2>1 DEF SessionOK
<1>20. \A d \in Clients \ {c} : SessionOK(d, ses[d])'
  BY <1>3, <1>5, <1>10, <1>11, OthersKeep
<1> QED BY <1>11, <1>14, <1>19, <1>20 DEF PInv

LEMMA PushUnansweredPush ==
    ASSUME IInv, PInv, IInv', NEW c \in Clients, PushUnanswered(c)
    PROVE  PInv'
<1> DEFINE s == ses[c]
           sup == SuppliedIds(c)
           t == Interrupt(s, "interrupted")
<1>1. PICK K \in Chunks(c) : \E o \in Outcomes(c, K, sup) : Insert(c, DOMAIN o.ids, o.ids)
  BY DEF PushUnanswered
<1>2. PICK o \in Outcomes(c, K, sup) : Insert(c, DOMAIN o.ids, o.ids)
  BY <1>1
<1> DEFINE D == DOMAIN o.ids
           f == o.ids
<1>3. /\ s \in Sessions /\ s.offer \in SUBSET Entities /\ s.acks = {} /\ s.pc = "push"
      /\ s.page = {} /\ SessionOK(c, s) /\ UNCHANGED loc /\ Go(c, t)
  BY DEF PushUnanswered, Sending, IInv, TypeOK, Sessions, PInv, SessionOK, StageOK
<1>4. K \in SUBSET Entities /\ K \subseteq s.offer
  BY <1>3 DEF Chunks
<1>5. /\ D \in SUBSET Entities /\ D \subseteq s.offer
      /\ \A e \in D : ~Collides(c, e, SuppliedIds(c)[e])
      /\ f \in Assignments(SuppliedIds(c), D)
      /\ Insert(c, D, f)
  BY <1>2, <1>4, OutcomeFacts DEF Missing
<1>6. /\ t.pc = "push" /\ t.page = {} /\ t.acks = {} /\ t.offer = {}
      /\ t.tombs = {} /\ t.cmd = s.cmd /\ t.result = "interrupted"
      /\ t.archived = s.archived
  <2> HIDE DEF s
  <2> QED BY <1>3, InterruptType
<1> HIDE DEF s, D, f, t, sup
<1>7. t = ses'[c] /\ \A d \in Clients \ {c} : ses'[d] = ses[d]
  BY <1>3 DEF Go, IInv, TypeOK
<1>8. /\ Stored \subseteq Stored'
      /\ NoneArchived => NoneArchived'
      /\ \A d \in Clients, e \in Entities : Held(d, e)' => Held(d, e) \/ (d = c /\ e \in D)
  BY <1>5, InsertStores
<1>9. "tombstone" \notin Events => HeldIsStored'
  BY <1>3, <1>5, InsertHeld DEF s
<1>10. SessionOK(c, ses[c])'
  BY <1>3, <1>6, <1>7 DEF SessionOK, StageOK, CarriedStored, Restoring
<1>11. \A d \in Clients \ {c} : SessionOK(d, ses[d])'
  BY <1>3, <1>5, <1>7, <1>8, OthersKeep
<1> QED BY <1>8, <1>9, <1>10, <1>11 DEF PInv

LEMMA TombstonePush ==
    ASSUME IInv, PInv, IInv', NEW c \in Clients, Tombstone(c)
    PROVE  PInv'
<1> DEFINE s == ses[c]
<1>1. PICK i \in s.tombs :
         /\ srv' = IF i \in Stored THEN [srv EXCEPT ![i].st = "deleted"] ELSE srv
         /\ Go(c, [s EXCEPT !.tombs = @ \ {i}])
  BY DEF Tombstone
<1> DEFINE t == [s EXCEPT !.tombs = @ \ {i}]
<1>2. s \in Sessions /\ SessionOK(c, s) /\ s.pc = "push" /\ UNCHANGED loc
  BY DEF Tombstone, IInv, TypeOK, PInv
<1>3. Go(c, t)
  BY <1>1
<1> HIDE DEF s
<1>4. t = ses'[c] /\ \A d \in Clients \ {c} : ses'[d] = ses[d]
  BY <1>3 DEF Go, IInv, TypeOK
<1>5. /\ t.pc = s.pc /\ t.page = s.page /\ t.acks = s.acks /\ t.offer = s.offer
      /\ t.cmd = s.cmd /\ t.result = s.result
  BY <1>2 DEF Sessions
<1> HIDE DEF t
<1>6. "tombstone" \in Events
  BY <1>1, <1>2 DEF SessionOK
<1>7. SessionOK(c, ses[c])'
  BY <1>2, <1>4, <1>5, <1>6 DEF SessionOK, StageOK
<1>8. \A d \in Clients \ {c} : SessionOK(d, ses[d])'
  BY <1>2, <1>4, <1>6 DEF PInv, SessionOK, StageOK
<1>9. NoneArchived => NoneArchived'
  <2> SUFFICES ASSUME NoneArchived, NEW j \in Ids PROVE srv'[j].st # "archived"
    BY DEF NoneArchived
  <2>1. srv'[j] = srv[j] \/ srv'[j] = [srv[j] EXCEPT !.st = "deleted"]
    BY <1>1 DEF IInv, TypeOK
  <2>2. srv[j] \in ServerRows /\ srv[j].st # "archived"
    BY DEF IInv, TypeOK, NoneArchived
  <2>3. [srv[j] EXCEPT !.st = "deleted"].st = "deleted"
    BY <2>2 DEF ServerRows
  <2> QED BY <2>1, <2>2, <2>3
<1> QED BY <1>6, <1>7, <1>8, <1>9 DEF PInv

-----------------------------------------------------------------------------
(* The server's other callers, and its losses. *)

LEMMA TeamAddPush ==
    ASSUME IInv, PInv, IInv', NEW e \in Entities, TeamAdd(e)
    PROVE  PInv'
<1> DEFINE row == [st |-> "active", ent |-> e, ext |-> NoExt]
<1>1. /\ UNCHANGED <<loc, ses>>
      /\ \A i \in Ids : srv'[i] = IF i = next + 1 THEN row ELSE srv[i]
  BY DEF TeamAdd, IInv, TypeOK
<1>2. row.st = "active" /\ row.ext = NoExt
  OBVIOUS
<1> HIDE DEF row
<1>3. Stored \subseteq Stored'
  BY <1>1, <1>2 DEF Stored, HasStatus
<1>4. \A c \in Clients, f \in Entities : Held(c, f)' => Held(c, f)
  <2> SUFFICES ASSUME NEW c \in Clients, NEW f \in Entities, NEW i \in Stored', srv'[i].ext = <<c, f>>
               PROVE  Held(c, f)
    BY DEF Held
  <2>1. i \in Ids /\ srv'[i] = srv[i]
    BY <1>1, <1>2, NoExtIsNoUuid DEF Stored, HasStatus
  <2> QED BY <2>1 DEF Held, Stored, HasStatus
<1>5. NoneArchived => NoneArchived'
  BY <1>1, <1>2 DEF NoneArchived
<1> QED BY <1>1, <1>3, <1>4, <1>5, ServerPush DEF PInv

LEMMA TeamRestorePush ==
    ASSUME IInv, PInv, NEW k \in Ids, TeamRestore(k)
    PROVE  PInv'
<1> DEFINE row == [srv[k] EXCEPT !.st = "active", !.ext = NoExt]
<1>1. /\ UNCHANGED <<loc, ses>>
      /\ \A i \in Ids : srv'[i] = IF i = k THEN row ELSE srv[i]
  BY DEF TeamRestore, IInv, TypeOK
<1>2. row.st = "active" /\ row.ext = NoExt
  BY DEF IInv, TypeOK, ServerRows
<1> HIDE DEF row
<1>3. Stored \subseteq Stored'
  BY <1>1, <1>2 DEF Stored, HasStatus
<1>4. \A c \in Clients, f \in Entities : Held(c, f)' => Held(c, f)
  <2> SUFFICES ASSUME NEW c \in Clients, NEW f \in Entities, NEW i \in Stored', srv'[i].ext = <<c, f>>
               PROVE  Held(c, f)
    BY DEF Held
  <2>1. i \in Ids /\ srv'[i] = srv[i]
    BY <1>1, <1>2, NoExtIsNoUuid DEF Stored, HasStatus
  <2> QED BY <2>1 DEF Held, Stored, HasStatus
<1>5. NoneArchived => NoneArchived'
  BY <1>1, <1>2 DEF NoneArchived
<1> QED BY <1>1, <1>3, <1>4, <1>5, ServerPush DEF PInv

LEMMA ServerArchivePush ==
    ASSUME IInv, PInv, NEW k \in Ids, ServerArchive(k)
    PROVE  PInv'
<1> DEFINE row == [srv[k] EXCEPT !.st = "archived"]
<1>1. /\ UNCHANGED <<loc, ses>> /\ "remove" \in Events /\ srv[k].st = "active"
      /\ \A i \in Ids : srv'[i] = IF i = k THEN row ELSE srv[i]
  BY DEF ServerArchive, IInv, TypeOK
<1>2. row.st = "archived" /\ row.ext = srv[k].ext
  BY DEF IInv, TypeOK, ServerRows
<1> HIDE DEF row
<1>3. Stored' = Stored /\ \A i \in Ids : srv'[i].ext = srv[i].ext
  BY <1>1, <1>2 DEF Stored, HasStatus
<1>4. \A c \in Clients, f \in Entities : Held(c, f)' => Held(c, f)
  BY <1>3 DEF Held, Stored, HasStatus
<1> QED BY <1>1, <1>3, <1>4, ServerPush

\* The rows are gone, and every command under way knows it (disturbed).
LEMMA ServerResetPush ==
    ASSUME IInv, PInv, ServerReset
    PROVE  PInv'
<1>1. /\ \A i \in Ids : srv'[i].st \in {"none", "lost"}
      /\ Disturb(Clients) /\ UNCHANGED loc
  <2>1. \A i \in Ids : srv'[i] = IF srv[i].st = "none" THEN srv[i] ELSE [srv[i] EXCEPT !.st = "lost"]
    BY DEF ServerReset
  <2>2. \A i \in Ids : [srv[i] EXCEPT !.st = "lost"].st = "lost"
    BY DEF IInv, TypeOK, ServerRows
  <2> QED BY <2>1, <2>2 DEF ServerReset
<1>2. Stored' = {} /\ \A c \in Clients, e \in Entities : ~Held(c, e)'
  BY <1>1 DEF Stored, HasStatus, Held
<1>3. NoneArchived'
  BY <1>1 DEF NoneArchived
<1>4. \A c \in Clients : SessionOK(c, ses[c])'
  <2> SUFFICES ASSUME NEW c \in Clients PROVE SessionOK(c, ses[c])'
    OBVIOUS
  <2>1. /\ ses'[c].page = ses[c].page /\ ses'[c].acks = ses[c].acks
        /\ ses'[c].pc = ses[c].pc /\ ses'[c].cmd = ses[c].cmd
        /\ ses'[c].offer = ses[c].offer /\ ses'[c].tombs = ses[c].tombs
        /\ ses'[c].result = ses[c].result /\ ses'[c].archived = ses[c].archived
        /\ ses[c].pc # "idle" => ses'[c].disturbed
    BY <1>1, DisturbKeeps DEF IInv
  <2>2. SessionOK(c, ses[c]) /\ ses[c] \in Sessions
    BY DEF PInv, IInv, TypeOK
  <2>3. StageOK(c, ses[c])'
    BY <1>1, <2>1, <2>2 DEF SessionOK, StageOK
  <2>4. CarriedStored(c, ses[c])'
    <3>1. /\ \A p \in ses[c].page : p[2] \in Entities
          /\ \A a \in ses[c].acks : a[1] \in Entities
      BY <2>2 DEF Sessions
    <3> QED BY <1>2, <2>1, <3>1 DEF CarriedStored
  <2>5. Restoring(c, ses[c])'
    BY <2>1 DEF Restoring
  <2> QED BY <2>1, <2>2, <2>3, <2>4, <2>5 DEF SessionOK
<1> QED BY <1>2, <1>3, <1>4 DEF PInv, HeldIsStored

-----------------------------------------------------------------------------
(* The invariant, and what it implies. *)

LEMMA InitPInv == Init => PInv
<1> SUFFICES ASSUME Init PROVE PInv
  OBVIOUS
<1>1. \A i \in Ids : srv[i].st = "none"
  BY DEF Init
<1>2. NoneArchived
  BY <1>1 DEF NoneArchived
<1>3. HeldIsStored
  BY <1>1 DEF HeldIsStored, Held, Stored, HasStatus
<1>4. \A c \in Clients : SessionOK(c, ses[c])
  BY IdleOK DEF Init
<1> QED BY <1>2, <1>3, <1>4 DEF PInv

LEMMA NextPInv == IInv /\ PInv /\ [Next]_vars => PInv'
<1> SUFFICES ASSUME IInv, PInv, [Next]_vars PROVE PInv'
  OBVIOUS
<1>0. IInv'
  BY NextIInv
<1>1. CASE UNCHANGED vars
  <2>1. \A c \in Clients : SessionOK(c, ses[c])'
    BY <1>1, SessionFrame DEF vars, PInv
  <2> QED BY <1>1, <2>1 DEF vars, PInv, NoneArchived, HeldIsStored, Held, Stored, HasStatus
<1>2. ASSUME NEW c \in Clients, NEW e \in Entities, Add(c, e) \/ Archive(c, e)
      PROVE  PInv'
  BY <1>0, <1>2, AddPush, ArchivePush
<1>3. ASSUME NEW c \in Clients, NEW archived \in BOOLEAN,
             \/ StartSync(c, archived)
             \/ \E cmd \in Commands : StartPush(c, cmd, archived)
      PROVE  PInv'
  <2>1. CASE StartSync(c, archived)
    BY <2>1, StartSyncPush
  <2>2. ASSUME NEW cmd \in Commands, StartPush(c, cmd, archived)
        PROVE  PInv'
    BY <2>2, StartPushPush, Constants
  <2> QED BY <1>3, <2>1, <2>2
<1>4. ASSUME NEW c \in Clients, Step(c) PROVE PInv'
  <2>1. CASE PullPage(c)
    BY <1>0, <2>1, PullPagePush
  <2>2. CASE ApplyEntry(c)
    BY <1>0, <2>2, ApplyEntryPush
  <2>3. CASE PageDone(c)
    BY <1>0, <2>3, PageDonePush
  <2>4. CASE TakeRows(c)
    BY <1>0, <2>4, TakeRowsPush
  <2>5. CASE PushAnswered(c)
    BY <1>0, <2>5, PushAnsweredPush
  <2>6. CASE Stamp(c)
    BY <1>0, <2>6, StampPush
  <2>7. CASE Tombstone(c)
    BY <1>0, <2>7, TombstonePush
  <2>8. CASE PushDone(c)
    BY <1>0, <2>8, PushDonePush
  <2>9. CASE Return(c)
    BY <2>9, IdlePush DEF Return
  <2> QED BY <1>4, <2>1, <2>2, <2>3, <2>4, <2>5, <2>6, <2>7, <2>8, <2>9 DEF Step
<1>5. ASSUME NEW c \in Clients, Fault(c) PROVE PInv'
  <2>1. CASE PushUnanswered(c)
    BY <1>0, <2>1, PushUnansweredPush
  <2>2. CASE PushUnsent(c)
    BY <2>2, PushUnsentPush
  <2>3. CASE Fail(c)
    BY <2>3, IdlePush DEF Fail
  <2> QED BY <1>5, <2>1, <2>2, <2>3 DEF Fault
<1>6. ASSUME NEW e \in Entities, TeamAdd(e) PROVE PInv'
  BY <1>0, <1>6, TeamAddPush
<1>7. ASSUME NEW i \in Ids, TeamRestore(i) \/ ServerArchive(i) PROVE PInv'
  BY <1>7, TeamRestorePush, ServerArchivePush
<1>8. CASE ServerReset
  BY <1>8, ServerResetPush
<1> QED BY <1>1, <1>2, <1>3, <1>4, <1>5, <1>6, <1>7, <1>8 DEF Next

\* What holds of every push, in every reachable state.
THEOREM PushInvariance == Spec => [](IInv /\ PInv)
<1>1. Init => IInv /\ PInv
  BY InitIInv, InitPInv
<1>2. (IInv /\ PInv) /\ [Next]_vars => (IInv /\ PInv)'
  BY NextIInv, NextPInv
<1> QED BY <1>1, <1>2, PTL DEF Spec

\* While nobody archives on the server, a push or sync without supplied ids is never
\* refused, however many requests and answers were lost before it: the look-up finds
\* every row a lost answer had created (find_by_remote_ids, push_memory_batch).
THEOREM RepushNeverRefused ==
    ASSUME "remove" \notin Events
    PROVE  Spec => []RepushIsAccepted
<1>1. PInv => RepushIsAccepted
  BY DEF PInv, SessionOK, RepushIsAccepted
<1> QED BY PushInvariance, <1>1, PTL

\* While nobody deletes on the server, a push --force that returns Ok leaves every
\* active entry stored under its remote_id, the entries included that it skips because
\* their uuid is stored already (push_local_reporting, push_memory_batch).
THEOREM ForcePushRestores ==
    ASSUME "tombstone" \notin Events
    PROVE  Spec => []RestoreComplete
<1>1. PInv => RestoreComplete
  BY DEF PInv, SessionOK, Restoring, RestoreComplete
<1> QED BY PushInvariance, <1>1, PTL

-----------------------------------------------------------------------------
(* What a sync is promised: CaughtUp.  A round may start behind ids its    *)
(* own store was stamped with, so rows can lie at or before the cursor it  *)
(* pulls from.  What finds them is the comparison of two numbers, and the  *)
(* argument is a count: with every active entry stamped with an active     *)
(* row, and no row of the ones counted gone, a store that lacks one of     *)
(* them has fewer active entries than the server counted.                  *)

\* Nobody archives a row on the server, its database is not lost, and rows are deleted
\* only if there is no other machine: otherwise the two numbers can be equal although an
\* entry is missing (README, section 9).
Promised ==
    /\ Events \cap {"remove", "reset"} = {}
    /\ "tombstone" \in Events => \A c, d \in Clients : c = d

\* What a sync still owes: a row it has to bring, of an entry the store lacks.
Unseen(c, s) == {i \in s.due : srv[i].st = "active" /\ loc[c][srv[i].ent].st = "none"}

\* Where the drain under way began.
From(s) == IF s.repull THEN 0 ELSE s.base

\* What the confirmation pull still owes lies behind its start, on the page in hand, or
\* ahead.
Drained(c, s) ==
    \A i \in Unseen(c, s) :
        /\ s.pc = "pull" => i <= From(s) \/ i > s.cur
        /\ s.pc = "apply" =>
              i <= From(s) \/ (s.more /\ i > s.cur) \/ \E p \in s.page : p[1] = i
        /\ s.pc # "done"

\* The total counted, at least, the rows of the store's active entries, those of the
\* page, and the ones the sync owes.
Counted(c, s) ==
    \E A \in SUBSET Ids :
        /\ s.total = Cardinality(A)
        /\ \A e \in Entities : loc[c][e].st = "active" => loc[c][e].rid \in A
        /\ \A p \in s.page : p[1] \in A
        /\ \A i \in s.due : srv[i].st = "active" => i \in A

\* A sync that may still return Ok: what it has not pushed is to be sent or stamped, and
\* its confirmation pull runs with every active entry stamped.
Completing(c, s) ==
    s.cmd = "sync" /\ s.result = "ok" /\ ~s.disturbed =>
        /\ s.pc = "push" =>
              \A e \in Entities : loc[c][e].st = "active" /\ loc[c][e].rid = 0 =>
                  e \in s.offer \/ \E a \in s.acks : a[1] = e
        /\ s.confirm =>
              /\ \A e \in Entities : loc[c][e].st = "active" => loc[c][e].rid # 0
              /\ Drained(c, s)
              /\ s.pc = "apply" => Counted(c, s)

\* What a command holds is on the server and, where it is a row's, in the store.
HoldsOK(c, s) ==
    /\ \A e \in s.offer : loc[c][e].st # "none"
    /\ \A a \in s.acks : loc[c][a[1]].st # "none" /\ srv[a[2]].st = "active"
    /\ \A p \in s.page : srv[p[1]].st = "active"
    /\ \A i \in s.tombs : srv[i].st # "none" /\ loc[c][srv[i].ent].st = "archived"
    /\ \A i \in s.due : srv[i].st # "none"
    /\ s.total # 0 => ProjectExists

\* Only a sync owes rows, and it ends with its confirmation pull.
OwedOK(s) ==
    /\ s.cmd # "sync" => s.due = {}
    /\ s.cmd = "sync" /\ s.pc = "done" => s.confirm
    /\ s.confirm => s.pc \in {"pull", "apply", "done"}

SyncOK(c, s) == OwedOK(s) /\ HoldsOK(c, s) /\ Completing(c, s)

RowsStay ==
    \A i \in Ids :
        srv[i].st \in {"none", "active"} \/ ("tombstone" \in Events /\ srv[i].st = "deleted")

\* A stamp is on a row, and an active row's is active on the server.
StampIsActive ==
    \A c \in Clients, e \in Entities :
        loc[c][e].rid # 0 => /\ loc[c][e].st # "none"
                             /\ loc[c][e].st = "active" => srv[loc[c][e].rid].st = "active"

CInv == RowsStay /\ StampIsActive /\ \A c \in Clients : SyncOK(c, ses[c])

-----------------------------------------------------------------------------
(* What each kind of step has to respect. *)

\* A project has a row, and keeps it.
LEMMA ProjectHasRows ==
    ASSUME RowsStay
    PROVE  ProjectExists <=> \E i \in Ids : srv[i].st # "none"
BY DEF RowsStay, ProjectExists, HasStatus

LEMMA ProjectStays ==
    ASSUME RowsStay, RowsStay', NamesKept, ProjectExists
    PROVE  ProjectExists'
<1>1. PICK i \in Ids : srv[i].st # "none"
  BY ProjectHasRows
<1>2. srv'[i].st # "none"
  BY <1>1 DEF NamesKept
<1> QED BY <1>2 DEF RowsStay, ProjectExists, HasStatus

\* Another's step: it takes no active row away, and makes none active that was due.
LEMMA SyncFrame ==
    ASSUME IInv, RowsStay, RowsStay', NamesKept, NEW c \in Clients,
           SyncOK(c, ses[c]), ses'[c] = ses[c], loc'[c] = loc[c],
           \A i \in Ids : srv[i].st = "active" => srv'[i].st = "active",
           \A i \in ses[c].due : srv'[i].st = "active" => srv[i].st = "active"
    PROVE  SyncOK(c, ses[c])'
<1> DEFINE s == ses[c]
<1>1. /\ s.due \in SUBSET Ids /\ s.tombs \in SUBSET Ids
      /\ \A p \in s.page : p[1] \in Ids
      /\ \A a \in s.acks : a[2] \in Ids
  BY DEF IInv, TypeOK, Sessions
<1>2. s' = s
  OBVIOUS
<1>3. OwedOK(s) /\ HoldsOK(c, s) /\ Completing(c, s)
  BY DEF SyncOK
<1>4. \A i \in Ids : srv[i].st # "none" => srv'[i].st # "none" /\ srv'[i].ent = srv[i].ent
  BY DEF NamesKept
<1> HIDE DEF s
<1>5. OwedOK(s)'
  BY <1>2, <1>3 DEF OwedOK
<1>6. HoldsOK(c, s)'
  BY <1>1, <1>2, <1>3, <1>4, ProjectStays DEF HoldsOK
<1>7. Unseen(c, s)' \subseteq Unseen(c, s)
  BY <1>1, <1>2, <1>3, <1>4 DEF Unseen, HoldsOK, s
<1>8. Drained(c, s) => Drained(c, s)'
  BY <1>2, <1>7 DEF Drained, From
<1>9. Counted(c, s) => Counted(c, s)'
  BY <1>2 DEF Counted, s
<1>10. Completing(c, s)'
  BY <1>2, <1>3, <1>8, <1>9 DEF Completing
<1> QED BY <1>5, <1>6, <1>10 DEF SyncOK, s

LEMMA SessionSync ==
    ASSUME IInv, CInv, NEW c \in Clients, NEW s \in Sessions, Go(c, s),
           UNCHANGED <<next, srv, loc>>, SyncOK(c, s)
    PROVE  CInv'
<1>1. ses'[c] = s /\ \A d \in Clients \ {c} : ses'[d] = ses[d]
  BY GoType DEF IInv
<1>2. RowsStay' /\ StampIsActive'
  BY DEF CInv, RowsStay, StampIsActive
<1>3. NamesKept
  BY DEF NamesKept
<1>4. SyncOK(c, ses[c])'
  BY <1>1 DEF SyncOK, OwedOK, HoldsOK, Completing, Drained, Unseen, Counted, From,
              ProjectExists, HasStatus
<1>5. ASSUME NEW d \in Clients, d # c PROVE SyncOK(d, ses[d])'
  BY <1>1, <1>2, <1>3, <1>5, SyncFrame DEF CInv
<1> QED BY <1>2, <1>4, <1>5 DEF CInv

LEMMA LocalSync ==
    ASSUME IInv, CInv, NEW c \in Clients, NEW e \in Entities, NEW row, SetRow(c, e, row),
           UNCHANGED <<next, srv>>, \A d \in Clients \ {c} : ses'[d] = ses[d],
           SyncOK(c, ses[c])',
           row.rid # 0 => row.st # "none" /\ (row.st = "active" => srv[row.rid].st = "active")
    PROVE  CInv'
<1>1. \A d \in Clients, f \in Entities :
          loc'[d][f] = IF d = c /\ f = e THEN row ELSE loc[d][f]
  BY DEF IInv, TypeOK, SetRow
<1>2. \A d \in Clients \ {c} : loc'[d] = loc[d]
  BY DEF IInv, TypeOK, SetRow
<1>3. RowsStay' /\ NamesKept
  BY DEF CInv, RowsStay, NamesKept
<1>4. StampIsActive'
  BY <1>1 DEF CInv, StampIsActive
<1>5. ASSUME NEW d \in Clients, d # c PROVE SyncOK(d, ses[d])'
  BY <1>2, <1>3, <1>5, SyncFrame DEF CInv
<1> QED BY <1>3, <1>4, <1>5 DEF CInv

-----------------------------------------------------------------------------
(* The steps of a command that touch its session only. *)

LEMMA IdleSync ==
    ASSUME IInv, CInv, NEW c \in Clients, Go(c, Idle), UNCHANGED <<next, srv, loc>>
    PROVE  CInv'
<1>1. SyncOK(c, Idle)
  BY DEF SyncOK, OwedOK, HoldsOK, Completing, Idle
<1> QED BY <1>1, IdleType, SessionSync

LEMMA BeginSync ==
    ASSUME IInv, CInv, NEW c \in Clients, NEW cmd \in {"sync", "push", "force"},
           NEW archived \in BOOLEAN, NEW s \in Sessions, Begin(c, cmd, archived, s),
           s.page = {}, s.acks = {}, s.offer = {}, s.tombs = {}, s.total = 0, ~s.confirm,
           s.pc \in {"rows", "pull"}, s.due \subseteq ActiveIds, cmd # "sync" => s.due = {}
    PROVE  CInv'
<1> DEFINE t == [s EXCEPT !.cmd = cmd, !.archived = archived]
<1>1. t \in Sessions
  BY Zenon DEF Sessions
<1>2. /\ t.page = {} /\ t.acks = {} /\ t.offer = {} /\ t.tombs = {} /\ t.cmd = cmd
      /\ t.pc = s.pc /\ t.due = s.due
  BY DEF Sessions
<1>3. t.total = 0 /\ ~t.confirm
  BY DEF Sessions
<1>4. Go(c, t) /\ UNCHANGED <<next, srv, loc>>
  BY DEF Begin
<1> HIDE DEF t
<1>5. \A i \in t.due : srv[i].st # "none"
  BY <1>2 DEF ActiveIds, HasStatus
<1>6. SyncOK(c, t)
  BY <1>2, <1>3, <1>5 DEF SyncOK, OwedOK, HoldsOK, Completing
<1> QED BY <1>1, <1>4, <1>6, SessionSync

LEMMA StartSyncSync ==
    ASSUME IInv, CInv, NEW c \in Clients, NEW archived \in BOOLEAN, StartSync(c, archived)
    PROVE  CInv'
<1> DEFINE base == MaxRemoteId(c)
           s == [Idle EXCEPT !.pc = IF base = 0 THEN "rows" ELSE "pull",
                             !.base = base, !.cur = base, !.due = ActiveIds]
<1>1. s \in Sessions
  <2>1. base \in 0..MaxId /\ ActiveIds \in SUBSET Ids
    BY MaxRemoteIdType DEF IInv, ActiveIds, HasStatus
  <2>2. (IF base = 0 THEN "rows" ELSE "pull") \in {"idle", "pull", "apply", "rows", "push", "done"}
    OBVIOUS
  <2> HIDE DEF base
  <2> QED BY <2>1, <2>2, IdleType, Zenon DEF Sessions
<1>2. /\ s.page = {} /\ s.acks = {} /\ s.offer = {} /\ s.tombs = {} /\ s.total = 0
      /\ s.pc \in {"rows", "pull"} /\ s.due = ActiveIds /\ ~s.confirm
  BY DEF Idle
<1>3. Begin(c, "sync", archived, s)
  BY DEF StartSync
<1> HIDE DEF s
<1> QED BY <1>1, <1>2, <1>3, BeginSync

LEMMA StartPushSync ==
    ASSUME IInv, CInv, NEW c \in Clients, NEW cmd \in {"sync", "push", "force"},
           NEW archived \in BOOLEAN, StartPush(c, cmd, archived)
    PROVE  CInv'
<1> DEFINE s == [Idle EXCEPT !.pc = "rows"]
<1>1. s \in Sessions
  BY IdleType, Zenon DEF Sessions
<1>2. /\ s.page = {} /\ s.acks = {} /\ s.offer = {} /\ s.tombs = {} /\ s.total = 0
      /\ s.pc = "rows" /\ s.due = {} /\ ~s.confirm
  BY DEF Idle
<1>3. Begin(c, cmd, archived, s)
  BY DEF StartPush
<1> HIDE DEF s
<1> QED BY <1>1, <1>2, <1>3, BeginSync

\* An active row beyond the cursor that a page leaves out lies beyond a full page
\* (notes_since_id).
LEMMA LeftOutIsAhead ==
    ASSUME NEW cursor \in Int, NEW i \in ActiveIds, i > cursor, i \notin NotesSinceId(cursor)
    PROVE  /\ Full(NotesSinceId(cursor))
           /\ i > Max(NotesSinceId(cursor))
<1> DEFINE S == {j \in ActiveIds : j > cursor}
           Below(j) == {m \in S : m <= j}
           P == NotesSinceId(cursor)
           R == {ss \in Nat \X Nat : ss[1] < ss[2]}
<1>1. S \in SUBSET Ids /\ i \in S
  BY DEF ActiveIds, HasStatus
<1>2. \A j \in Ids : j \in Nat /\ j \in 0..MaxId
  BY Constants DEF Ids
<1>3. P = {j \in S : Cardinality(Below(j)) <= PageSize}
  BY DEF NotesSinceId
<1>4. \A j : Below(j) \in SUBSET Ids /\ IsFiniteSet(Below(j)) /\ Cardinality(Below(j)) \in Nat
  <2> SUFFICES ASSUME NEW j
               PROVE  /\ Below(j) \in SUBSET Ids /\ IsFiniteSet(Below(j))
                      /\ Cardinality(Below(j)) \in Nat
    OBVIOUS
  <2>1. Below(j) \in SUBSET Ids
    BY <1>1
  <2> HIDE DEF Below
  <2> QED BY <2>1, IdSets, Constants
<1>5. \A j, k \in Ids : j <= k => Below(j) \subseteq Below(k)
  BY <1>1, <1>2
<1>6. \A j \in S : j \in Below(j)
  BY <1>1, <1>2
\* What is on the page lies before what is not.
<1>7. ASSUME NEW j \in P, NEW k \in S \ P PROVE j < k
  <2> SUFFICES ASSUME k <= j PROVE FALSE
    BY <1>1, <1>2, <1>3
  <2>1. Below(k) \subseteq Below(j)
    BY <1>1, <1>3, <1>5
  <2> HIDE DEF Below, S
  <2>2. Cardinality(Below(k)) <= Cardinality(Below(j))
    BY <1>4, <2>1, FS_Subset
  <2>3. Cardinality(Below(j)) <= PageSize
    BY <1>3
  <2> QED BY <1>3, <1>4, <2>2, <2>3, Constants
\* The first one left out: exactly the page lies before it.
<1>8. PICK k \in S \ P : \A j \in S \ P : k <= j
  <2> DEFINE T == S \ P
  <2>1. T \subseteq Nat /\ T # {}
    BY <1>1, <1>2
  <2>2. IsWellFoundedOn(R, Nat)
    BY BelowIsWellFounded
  <2>3. PICK k \in T : \A y \in T : <<y, k>> \notin R
    <3> HIDE DEF R, T
    <3> QED BY <2>1, <2>2, WFMin
  <2>4. ASSUME NEW y \in T PROVE k <= y
    <3> HIDE DEF T
    <3>1. y \in Nat /\ k \in Nat
      BY <2>1
    <3>2. ~(y < k)
      BY <2>3, <3>1
    <3> QED BY <3>1, <3>2
  <2> QED BY <2>4
<1>9. Below(k) = P \cup {k}
  <2>1. P \cup {k} \subseteq Below(k)
    <3>1. \A j \in P : j \in S /\ j < k
      BY <1>3, <1>7, <1>8
    <3>2. \A j \in P : j \in S /\ j <= k
      BY <1>1, <1>2, <1>8, <3>1
    <3>3. k \in Below(k)
      BY <1>6, <1>8
    <3> QED BY <3>2, <3>3
  <2>2. ASSUME NEW m \in Below(k) PROVE m \in P \cup {k}
    <3>1. m \in S /\ m <= k
      OBVIOUS
    <3>2. CASE m \in P
      BY <3>2
    <3>3. CASE m \notin P
      BY <1>1, <1>2, <1>8, <3>1, <3>3
    <3> QED BY <3>2, <3>3
  <2> QED BY <2>1, <2>2
<1> HIDE DEF Below, S, P, R
<1>10. P \in SUBSET Ids /\ IsFiniteSet(P) /\ Cardinality(P) \in Nat /\ k \notin P
  <2>1. P \in SUBSET Ids
    BY <1>1, <1>3
  <2> QED BY <1>8, <2>1, IdSets, Constants
<1>11. Cardinality(Below(k)) = Cardinality(P) + 1 /\ Cardinality(Below(k)) > PageSize
  <2>1. Cardinality(P \cup {k}) = Cardinality(P) + 1
    BY <1>10, FS_AddElement
  <2>2. ~(Cardinality(Below(k)) <= PageSize)
    BY <1>3, <1>8
  <2>3. Cardinality(Below(k)) = Cardinality(P) + 1
    BY <1>9, <2>1
  <2> QED BY <1>4, <2>2, <2>3, Constants
<1>12. P # {}
  BY <1>10, <1>11, FS_EmptySet, Constants
<1>13. Max(P) \in P /\ \A x \in P : x <= Max(P)
  <2>1. P \in SUBSET (0..MaxId)
    BY <1>2, <1>10
  <2> QED BY <1>12, <2>1, MaxOfIds
<1>14. i > Max(P)
  BY <1>1, <1>2, <1>7, <1>10, <1>13 DEF P
<1>15. P \subseteq Below(Max(P))
  <2>1. \A x \in P : x \in S /\ x <= Max(P)
    BY <1>3, <1>13
  <2> QED BY <2>1 DEF Below
<1>16. Cardinality(P) <= PageSize
  <2>1. Cardinality(P) <= Cardinality(Below(Max(P)))
    BY <1>4, <1>15, FS_Subset
  <2>2. Cardinality(Below(Max(P))) <= PageSize
    BY <1>3, <1>13
  <2> QED BY <1>4, <1>10, <2>1, <2>2, Constants
<1>17. Cardinality(P) = PageSize
  BY <1>10, <1>11, <1>16, Constants
<1> QED BY <1>14, <1>17 DEF Full, P

LEMMA PullPageSync ==
    ASSUME IInv, PInv, CInv, IInv', NEW c \in Clients, PullPage(c)
    PROVE  CInv'
<1> DEFINE s == ses[c]
           P == IF ProjectExists THEN NotesSinceId(s.cur) ELSE {}
           page == {<<i, srv[i].ent>> : i \in P}
           cur == IF Full(P) THEN Max(P) ELSE s.cur
           total == IF ProjectExists THEN Cardinality(ActiveIds) ELSE s.total
           t == [s EXCEPT !.pc = "apply", !.page = page, !.more = Full(P),
                          !.cur = cur, !.total = total]
<1>1. /\ s \in Sessions /\ SyncOK(c, s) /\ s.pc = "pull"
      /\ s.acks = {} /\ s.offer = {} /\ s.tombs = {}
  BY DEF IInv, TypeOK, CInv, PInv, SessionOK, StageOK, PullPage
<1>2. Go(c, t) /\ UNCHANGED <<next, srv, loc>>
  BY DEF PullPage
<1>3. P \subseteq ActiveIds /\ ActiveIds \in SUBSET Ids
  BY DEF NotesSinceId, ActiveIds, HasStatus
<1>4. \A i \in ActiveIds : ProjectExists
  BY DEF ActiveIds, HasStatus, ProjectExists
<1>5. s.cur \in 0..MaxId /\ s.due \in SUBSET Ids
  BY <1>1 DEF Sessions
<1>6. ASSUME NEW i \in ActiveIds, i > s.cur, i \notin P
      PROVE  Full(P) /\ i > cur
  <2>1. P = NotesSinceId(s.cur)
    BY <1>4
  <2>2. Full(P) /\ i > Max(P)
    BY <1>5, <1>6, <2>1, LeftOutIsAhead
  <2> QED BY <2>2
<1>7. \A i \in P : \E p \in page : p[1] = i
  <2> SUFFICES ASSUME NEW i \in P PROVE \E p \in page : p[1] = i
    OBVIOUS
  <2>1. <<i, srv[i].ent>> \in page /\ <<i, srv[i].ent>>[1] = i
    OBVIOUS
  <2> QED BY <2>1
<1>8. \A p \in page : p[1] \in ActiveIds
  <2> HIDE DEF P
  <2> QED BY <1>3
<1>9. total # 0 => ProjectExists
  BY <1>1 DEF SyncOK, HoldsOK
<1>10. IF ProjectExists THEN total = Cardinality(ActiveIds) ELSE total = s.total
  OBVIOUS
<1> HIDE DEF s, P, page, cur, total
<1>11. t = ses'[c]
  BY <1>2 DEF Go, IInv, TypeOK
<1>12. t \in Sessions
  BY <1>11 DEF IInv, TypeOK
<1>13. /\ t.pc = "apply" /\ t.page = page /\ t.more = Full(P) /\ t.cur = cur
       /\ t.total = total /\ t.cmd = s.cmd /\ t.result = s.result
  BY <1>1 DEF Sessions
<1>14. /\ t.offer = s.offer /\ t.acks = s.acks /\ t.tombs = s.tombs /\ t.due = s.due
       /\ t.confirm = s.confirm /\ t.disturbed = s.disturbed
  BY <1>1 DEF Sessions
<1>15. t.base = s.base /\ t.repull = s.repull
  BY <1>1 DEF Sessions
<1> HIDE DEF t
<1>16. OwedOK(t)
  BY <1>1, <1>13, <1>14 DEF SyncOK, OwedOK
<1>17. HoldsOK(c, t)
  <2>1. \A p \in page : srv[p[1]].st = "active"
    BY <1>8 DEF ActiveIds, HasStatus
  <2>2. \A i \in s.due : srv[i].st # "none"
    BY <1>1 DEF SyncOK, HoldsOK
  <2> QED BY <1>1, <1>9, <1>13, <1>14, <2>1, <2>2 DEF HoldsOK
<1>18. ASSUME Drained(c, s) PROVE Drained(c, t)
  <2>1. Unseen(c, t) = Unseen(c, s) /\ From(t) = From(s)
    BY <1>14, <1>15 DEF Unseen, From
  <2>2. ASSUME NEW i \in Unseen(c, s)
        PROVE  i <= From(s) \/ (t.more /\ i > t.cur) \/ \E p \in t.page : p[1] = i
    <3>1. i <= From(s) \/ i > s.cur
      BY <1>1, <1>18 DEF Drained
    <3>2. i \in ActiveIds
      BY <1>5 DEF Unseen, ActiveIds, HasStatus
    <3> QED BY <1>6, <1>7, <1>13, <3>1, <3>2
  <2> QED BY <1>13, <2>1, <2>2 DEF Drained
<1>19. ASSUME \A e \in Entities : loc[c][e].st = "active" => loc[c][e].rid # 0
       PROVE  Counted(c, t)
  <2>1. \A e \in Entities : loc[c][e].st = "active" => loc[c][e].rid \in ActiveIds
    <3>1. \A e \in Entities : loc[c][e].rid # 0 => loc[c][e].rid \in Ids
      BY Constants DEF IInv, TypeOK, LocalRows, Ids
    <3> QED BY <1>19, <3>1 DEF CInv, StampIsActive, ActiveIds, HasStatus
  <2>2. \A i \in t.due : srv[i].st = "active" => i \in ActiveIds
    BY <1>5, <1>14 DEF ActiveIds, HasStatus
  <2>3. CASE ProjectExists
    BY <1>3, <1>8, <1>10, <1>13, <2>1, <2>2, <2>3 DEF Counted
  <2>4. CASE ~ProjectExists
    <3>1. t.total = Cardinality({})
      BY <1>9, <1>13, <2>4, FS_EmptySet
    <3>2. ActiveIds = {}
      BY <1>4, <2>4
    <3> HIDE DEF s
    <3>3. {} \in SUBSET Ids
      OBVIOUS
    <3> QED BY <1>8, <1>13, <2>1, <2>2, <3>1, <3>2, <3>3 DEF Counted
  <2> QED BY <2>3, <2>4
<1>20. Completing(c, t)
  BY <1>1, <1>13, <1>14, <1>18, <1>19 DEF SyncOK, Completing
<1> QED BY <1>2, <1>12, <1>16, <1>17, <1>20, SessionSync DEF SyncOK

\* With all active entries stamped, a store that lacks an entry the total counted is
\* behind it (pull_and_apply_since).
LEMMA MissingIsCounted ==
    ASSUME IInv, NEW c \in Clients, Counted(c, ses[c]),
           NEW i \in Unseen(c, ses[c]), i \in Ids
    PROVE  ses[c].total > Count(c)
<1> DEFINE s == ses[c]
           S == {e \in Entities : loc[c][e].st = "active"}
<1>1. PICK A \in SUBSET Ids :
         /\ s.total = Cardinality(A)
         /\ \A e \in Entities : loc[c][e].st = "active" => loc[c][e].rid \in A
         /\ \A j \in s.due : srv[j].st = "active" => j \in A
  BY DEF Counted
<1>2. i \in A /\ loc[c][srv[i].ent].st = "none"
  BY <1>1 DEF Unseen
<1>3. \A e \in S : loc[c][e].rid \in A /\ loc[c][e].rid # 0 /\ srv[loc[c][e].rid].ent = e
  BY <1>1, Constants DEF IInv, StampIsTrue, Ids
<1> DEFINE T == A \ {i}
           f == [e \in S |-> loc[c][e].rid]
<1>4. f \in Injection(S, T)
  <2>1. \A e \in S : loc[c][e].rid \in T
    BY <1>2, <1>3
  <2>2. \A e, d \in S : loc[c][e].rid = loc[c][d].rid => e = d
    BY <1>3
  <2> HIDE DEF S, T
  <2> QED BY <2>1, <2>2 DEF Injection, IsInjective
<1>5. IsFiniteSet(A) /\ Cardinality(A) \in Nat
  BY IdSets, Constants
<1>6. IsFiniteSet(T) /\ Cardinality(T) = Cardinality(A) - 1
  BY <1>2, <1>5, FS_RemoveElement
<1> HIDE DEF S, T, f
<1>7. IsFiniteSet(S) /\ Cardinality(S) <= Cardinality(T)
  BY <1>4, <1>6, FS_Injection
<1>8. Cardinality(S) \in Nat
  BY <1>7, FS_CardinalityType
<1>9. Cardinality(S) < Cardinality(A)
  BY <1>5, <1>6, <1>7, <1>8
<1> QED BY <1>1, <1>5, <1>8, <1>9 DEF Count, S

LEMMA PageDoneSync ==
    ASSUME IInv, PInv, CInv, IInv', NEW c \in Clients, PageDone(c)
    PROVE  CInv'
<1> DEFINE s == ses[c]
           t1 == [s EXCEPT !.pc = "pull"]
           t2 == [s EXCEPT !.pc = "pull", !.cur = 0, !.repull = TRUE]
           t3 == [s EXCEPT !.pc = IF s.confirm THEN "done" ELSE "rows"]
           t == IF s.more THEN t1 ELSE IF Behind(c) THEN t2 ELSE t3
<1>1. /\ s \in Sessions /\ SyncOK(c, s) /\ s.pc = "apply" /\ s.page = {} /\ s.cmd = "sync"
      /\ UNCHANGED <<next, srv, loc>> /\ Go(c, t)
  BY DEF IInv, TypeOK, CInv, PInv, SessionOK, StageOK, PageDone
<1>2. t = ses'[c]
  <2> HIDE DEF t
  <2> QED BY <1>1 DEF Go, IInv, TypeOK
<1>3. t \in Sessions
  <2> HIDE DEF t
  <2> QED BY <1>2 DEF IInv, TypeOK
<1>4. /\ t.page = {} /\ t.acks = s.acks /\ t.offer = s.offer /\ t.tombs = s.tombs
      /\ t.cmd = s.cmd /\ t.result = s.result
  <2> HIDE DEF s
  <2> QED BY <1>1 DEF Sessions
<1>5. t.due = s.due /\ t.total = s.total /\ t.confirm = s.confirm
  <2> HIDE DEF s
  <2> QED BY <1>1 DEF Sessions
<1>6. t.disturbed = s.disturbed /\ t.base = s.base
  <2> HIDE DEF s
  <2> QED BY <1>1 DEF Sessions
<1>7. /\ s.more => t.pc = "pull" /\ t.cur = s.cur /\ t.repull = s.repull
      /\ ~s.more /\ Behind(c) => t.pc = "pull" /\ t.cur = 0
      /\ ~s.more /\ ~Behind(c) => t.pc = IF s.confirm THEN "done" ELSE "rows"
  <2> HIDE DEF s
  <2> QED BY <1>1 DEF Sessions
<1> HIDE DEF t
<1>8. OwedOK(t)
  BY <1>1, <1>4, <1>5, <1>7 DEF SyncOK, OwedOK
<1>9. HoldsOK(c, t)
  BY <1>1, <1>4, <1>5 DEF SyncOK, HoldsOK
<1>10. s.due \in SUBSET Ids
  BY <1>1 DEF Sessions
<1>11. Unseen(c, t) = Unseen(c, s) /\ Unseen(c, s) \in SUBSET Ids
  BY <1>5, <1>10 DEF Unseen
<1>12. ASSUME Drained(c, s), Counted(c, s), s.confirm PROVE Drained(c, t)
  <2>1. \A i \in Unseen(c, s) : i <= From(s) \/ (s.more /\ i > s.cur)
    BY <1>1, <1>12 DEF Drained
  <2>2. CASE s.more
    BY <1>6, <1>7, <1>11, <2>1, <2>2 DEF Drained, From
  <2>3. CASE ~s.more /\ Behind(c)
    BY <1>7, <1>11, <2>3, Constants DEF Drained, Ids
  <2>4. CASE ~s.more /\ ~Behind(c)
    <3>1. ASSUME NEW i \in Unseen(c, s) PROVE FALSE
      <4>1. i <= From(s) /\ i \in Ids /\ i > 0
        BY <1>11, <2>1, <2>4, <3>1, Constants DEF Ids
      <4>2. ~s.repull
        BY <4>1, Constants DEF From, Ids
      <4>3. s.total > Count(c)
        BY <1>12, <3>1, <4>1, MissingIsCounted
      <4> QED BY <2>4, <4>2, <4>3 DEF Behind
    <3> QED BY <1>11, <3>1 DEF Drained
  <2> QED BY <2>2, <2>3, <2>4
<1>13. Completing(c, t)
  BY <1>1, <1>4, <1>5, <1>6, <1>7, <1>12 DEF SyncOK, Completing
<1> QED BY <1>1, <1>3, <1>8, <1>9, <1>13, SessionSync DEF SyncOK, t

LEMMA TakeRowsSync ==
    ASSUME IInv, PInv, CInv, IInv', NEW c \in Clients, TakeRows(c)
    PROVE  CInv'
<1> DEFINE s == ses[c]
           offer == {e \in Entities : /\ loc[c][e].st = "active"
                                      /\ s.cmd = "force" \/ loc[c][e].rid = 0}
           tombs == IF s.archived THEN Tombs(c) ELSE {}
           t == [s EXCEPT !.pc = "push", !.offer = offer, !.tombs = tombs]
<1>1. /\ s \in Sessions /\ SyncOK(c, s) /\ s.pc = "rows" /\ s.page = {} /\ s.acks = {}
  BY DEF IInv, TypeOK, CInv, PInv, SessionOK, StageOK, TakeRows
<1>2. Go(c, t) /\ UNCHANGED <<next, srv, loc>>
  BY DEF TakeRows
<1>3. \A i \in tombs : srv[i].st # "none" /\ loc[c][srv[i].ent].st = "archived"
  <2> SUFFICES ASSUME NEW i \in Tombs(c)
               PROVE  srv[i].st # "none" /\ loc[c][srv[i].ent].st = "archived"
    OBVIOUS
  <2>1. PICK e \in Entities : loc[c][e].st = "archived" /\ loc[c][e].rid # 0 /\ i = loc[c][e].rid
    BY DEF Tombs
  <2> QED BY <2>1 DEF IInv, StampIsTrue
<1>4. /\ \A e \in offer : loc[c][e].st # "none"
      /\ \A e \in Entities : loc[c][e].st = "active" /\ loc[c][e].rid = 0 => e \in offer
  OBVIOUS
<1> HIDE DEF s, offer, tombs
<1>5. t = ses'[c]
  BY <1>2 DEF Go, IInv, TypeOK
<1>6. t \in Sessions
  BY <1>5 DEF IInv, TypeOK
<1>7. /\ t.pc = "push" /\ t.page = {} /\ t.acks = {} /\ t.offer = offer /\ t.tombs = tombs
      /\ t.cmd = s.cmd
  BY <1>1 DEF Sessions
<1>8. t.due = s.due /\ t.total = s.total /\ t.confirm = s.confirm
  BY <1>1 DEF Sessions
<1> HIDE DEF t
<1>9. OwedOK(t) /\ ~t.confirm
  BY <1>1, <1>7, <1>8 DEF SyncOK, OwedOK
<1>10. HoldsOK(c, t)
  BY <1>1, <1>3, <1>4, <1>7, <1>8 DEF SyncOK, HoldsOK
<1>11. Completing(c, t)
  BY <1>4, <1>7, <1>9 DEF Completing
<1> QED BY <1>2, <1>6, <1>9, <1>10, <1>11, SessionSync DEF SyncOK

\* What an interrupted push leaves: nothing to send, and no promise.
LEMMA InterruptKeeps ==
    ASSUME NEW s \in Sessions, NEW r \in {"interrupted", "refused"}
    PROVE  /\ Interrupt(s, r).due = s.due /\ Interrupt(s, r).total = s.total
           /\ Interrupt(s, r).confirm = s.confirm
BY DEF Interrupt, Sessions

LEMMA InterruptSync ==
    ASSUME NEW c \in Clients, NEW s \in Sessions, SyncOK(c, s), s.page = {}, s.acks = {},
           NEW r \in {"interrupted", "refused"}
    PROVE  SyncOK(c, Interrupt(s, r))
<1> DEFINE t == Interrupt(s, r)
<1>1. /\ t.page = {} /\ t.acks = {} /\ t.offer = {} /\ t.tombs = {} /\ t.pc = s.pc
      /\ t.result = r /\ t.cmd = s.cmd
  BY InterruptType
<1>2. t.due = s.due /\ t.total = s.total /\ t.confirm = s.confirm
  BY InterruptKeeps
<1> HIDE DEF t
<1>3. SyncOK(c, t)
  BY <1>1, <1>2 DEF SyncOK, OwedOK, HoldsOK, Completing
<1> QED BY <1>3 DEF t

LEMMA PushUnsentSync ==
    ASSUME IInv, PInv, CInv, NEW c \in Clients, PushUnsent(c)
    PROVE  CInv'
<1>1. /\ Sending(ses[c]) /\ Go(c, Interrupt(ses[c], "interrupted"))
      /\ UNCHANGED <<next, srv, loc>>
  BY DEF PushUnsent
<1>2. ses[c] \in Sessions /\ SyncOK(c, ses[c]) /\ ses[c].page = {} /\ ses[c].acks = {}
  BY <1>1 DEF IInv, TypeOK, CInv, PInv, SessionOK, StageOK, Sending
<1>3. SyncOK(c, Interrupt(ses[c], "interrupted")) /\ Interrupt(ses[c], "interrupted") \in Sessions
  BY <1>2, InterruptSync, InterruptType
<1> QED BY <1>1, <1>3, SessionSync

\* The confirmation pull starts where the round began.
LEMMA PushDoneSync ==
    ASSUME IInv, PInv, CInv, IInv', NEW c \in Clients, PushDone(c)
    PROVE  CInv'
<1> DEFINE s == ses[c]
           t1 == [s EXCEPT !.pc = "done"]
           t2 == [s EXCEPT !.pc = "pull", !.confirm = TRUE, !.repull = FALSE,
                           !.cur = s.base, !.total = 0, !.more = FALSE]
           t == IF s.cmd # "sync" THEN t1 ELSE t2
<1>1. /\ s \in Sessions /\ SyncOK(c, s) /\ s.pc = "push" /\ s.page = {}
      /\ s.acks = {} /\ s.offer = {} /\ s.tombs = {}
      /\ UNCHANGED <<next, srv, loc>> /\ Go(c, t)
  BY DEF IInv, TypeOK, CInv, PInv, SessionOK, StageOK, PushDone
<1>2. s.base \in 0..MaxId /\ s.due \in SUBSET Ids
  BY <1>1 DEF Sessions
<1>3. t = ses'[c]
  <2> HIDE DEF t
  <2> QED BY <1>1 DEF Go, IInv, TypeOK
<1>4. t \in Sessions
  <2> HIDE DEF t
  <2> QED BY <1>3 DEF IInv, TypeOK
<1> HIDE DEF s
<1>5. /\ t.page = {} /\ t.acks = {} /\ t.offer = {} /\ t.tombs = {}
      /\ t.cmd = s.cmd /\ t.result = s.result
  BY <1>1 DEF Sessions
<1>6. t.due = s.due /\ t.disturbed = s.disturbed /\ t.base = s.base
  BY <1>1 DEF Sessions
<1>7. s.cmd # "sync" => t.pc = "done" /\ t.confirm = s.confirm /\ t.total = s.total
  BY <1>1 DEF Sessions
<1>8. s.cmd = "sync" => /\ t.pc = "pull" /\ t.confirm /\ ~t.repull /\ t.cur = s.base
                        /\ t.total = 0
  BY <1>1 DEF Sessions
<1> HIDE DEF t
<1>9. OwedOK(t) /\ ~s.confirm
  BY <1>1, <1>5, <1>6, <1>7, <1>8 DEF SyncOK, OwedOK
<1>10. HoldsOK(c, t)
  BY <1>1, <1>5, <1>6, <1>7, <1>8 DEF SyncOK, HoldsOK
<1>11. s.cmd = "sync" => Drained(c, t)
  <2> SUFFICES ASSUME s.cmd = "sync", NEW i \in Unseen(c, t) PROVE i <= s.base \/ i > s.base
    BY <1>6, <1>8 DEF Drained, From
  <2>1. i \in Ids
    BY <1>2, <1>6 DEF Unseen
  <2> QED BY <1>2, <2>1, Constants DEF Ids
<1>12. Completing(c, t)
  BY <1>1, <1>5, <1>6, <1>8, <1>11 DEF SyncOK, Completing
<1> QED BY <1>1, <1>4, <1>9, <1>10, <1>12, SessionSync DEF SyncOK, t

-----------------------------------------------------------------------------
(* The steps of a local store. *)

LEMMA DisturbOwes ==
    ASSUME TypeOK, NEW C, Disturb(C), NEW d \in Clients
    PROVE  /\ ses'[d].due = ses[d].due /\ ses'[d].total = ses[d].total
           /\ ses'[d].confirm = ses[d].confirm
<1>1. ses'[d] \in {ses[d], [ses[d] EXCEPT !.disturbed = TRUE]} /\ ses[d] \in Sessions
  BY DEF Disturb, TypeOK
<1> QED BY <1>1 DEF Sessions

\* An entry added while a command runs counts in its comparison: the command is
\* marked as disturbed.
LEMMA AddSync ==
    ASSUME IInv, PInv, CInv, NEW c \in Clients, NEW e \in Entities, Add(c, e)
    PROVE  CInv'
<1> DEFINE row == [st |-> "active", rid |-> 0]
           s == ses[c]
           t == ses'[c]
<1>1. /\ SetRow(c, e, row) /\ UNCHANGED <<next, srv>> /\ Disturb({c}) /\ row.rid = 0
      /\ row.st = "active" /\ loc[c][e].st = "none"
  BY DEF Add
<1> HIDE DEF row
<1>2. /\ \A d \in Clients \ {c} : ses'[d] = ses[d]
      /\ t.page = s.page /\ t.acks = s.acks /\ t.pc = s.pc /\ t.cmd = s.cmd
      /\ t.offer = s.offer /\ t.tombs = s.tombs /\ t.result = s.result
  BY <1>1, DisturbKeeps DEF IInv, Disturb
<1>3. s.pc # "idle" => t.disturbed
  BY <1>1, DisturbKeeps DEF IInv
<1>4. t.due = s.due /\ t.total = s.total /\ t.confirm = s.confirm
  BY <1>1, DisturbOwes DEF IInv
<1>5. \A f \in Entities : loc'[c][f] = IF f = e THEN row ELSE loc[c][f]
  BY <1>1 DEF IInv, TypeOK, SetRow
<1>6. /\ SyncOK(c, s) /\ s.offer \in SUBSET Entities
      /\ s.acks \in SUBSET (Entities \X Ids) /\ s.tombs \in SUBSET Ids
  BY DEF CInv, IInv, TypeOK, Sessions
<1>7. \A i \in Ids : srv[i].ent \in Entities
  BY DEF IInv, TypeOK, ServerRows
<1>8. ProjectExists' = ProjectExists
  BY <1>1 DEF ProjectExists, HasStatus
<1>9. srv' = srv
  BY <1>1
<1> HIDE DEF s, t
<1>10. OwedOK(t)
  BY <1>2, <1>4, <1>6 DEF SyncOK, OwedOK
<1>11. HoldsOK(c, ses[c])'
  <2>1. /\ \A f \in t.offer : loc'[c][f].st # "none"
        /\ \A a \in t.acks : loc'[c][a[1]].st # "none"
    BY <1>1, <1>2, <1>5, <1>6 DEF SyncOK, HoldsOK
  <2>2. \A i \in t.tombs : loc'[c][srv[i].ent].st = "archived"
    BY <1>1, <1>2, <1>5, <1>6, <1>7 DEF SyncOK, HoldsOK
  <2> QED BY <1>2, <1>4, <1>6, <1>8, <1>9, <2>1, <2>2 DEF SyncOK, HoldsOK, t
<1>12. Completing(c, ses[c])'
  <2>1. CASE s.pc = "idle"
    BY <1>2, <1>4, <1>6, <2>1 DEF SyncOK, OwedOK, Completing, t
  <2>2. CASE s.pc # "idle"
    BY <1>3, <2>2 DEF Completing, t
  <2> QED BY <2>1, <2>2
<1>13. SyncOK(c, ses[c])'
  BY <1>10, <1>11, <1>12 DEF SyncOK, OwedOK, t
<1> QED BY <1>1, <1>2, <1>13, LocalSync

\* Archiving makes fewer entries active, and removes none.
LEMMA ArchiveSync ==
    ASSUME IInv, CInv, NEW c \in Clients, NEW e \in Entities, Archive(c, e)
    PROVE  CInv'
<1> DEFINE row == [loc[c][e] EXCEPT !.st = "archived"]
           s == ses[c]
<1>1. SetRow(c, e, row) /\ next' = next /\ srv' = srv /\ ses' = ses /\ loc[c][e].st = "active"
  BY DEF Archive
<1>2. row.rid = loc[c][e].rid /\ row.st = "archived"
  BY DEF IInv, TypeOK, LocalRows
<1> HIDE DEF row
<1>3. \A f \in Entities : loc'[c][f] = IF f = e THEN row ELSE loc[c][f]
  BY <1>1 DEF IInv, TypeOK, SetRow
<1>4. /\ SyncOK(c, s) /\ s.offer \in SUBSET Entities /\ s.due \in SUBSET Ids
      /\ s.acks \in SUBSET (Entities \X Ids) /\ s.tombs \in SUBSET Ids
  BY DEF CInv, IInv, TypeOK, Sessions
<1>5. \A i \in Ids : srv[i].ent \in Entities
  BY DEF IInv, TypeOK, ServerRows
<1>6. s' = s /\ (ProjectExists' <=> ProjectExists)
  BY <1>1 DEF ProjectExists, HasStatus
<1> HIDE DEF s
<1>7. /\ \A f \in Entities : loc'[c][f].rid = loc[c][f].rid
      /\ \A f \in Entities : loc'[c][f].st = "active" => loc[c][f].st = "active"
      /\ \A f \in Entities : loc'[c][f].st = "none" <=> loc[c][f].st = "none"
      /\ \A f \in Entities : loc[c][f].st = "archived" => loc'[c][f].st = "archived"
  BY <1>1, <1>2, <1>3
<1>8. OwedOK(s)'
  BY <1>4, <1>6 DEF SyncOK, OwedOK
<1>9. HoldsOK(c, s)'
  BY <1>1, <1>4, <1>5, <1>6, <1>7 DEF SyncOK, HoldsOK
<1>10. Unseen(c, s)' = Unseen(c, s)
  BY <1>1, <1>4, <1>5, <1>6, <1>7 DEF Unseen
<1>11. Drained(c, s) => Drained(c, s)'
  BY <1>6, <1>10 DEF Drained, From
<1>12. Counted(c, s) => Counted(c, s)'
  BY <1>1, <1>6, <1>7 DEF Counted
<1>13. Completing(c, s)'
  BY <1>4, <1>6, <1>7, <1>11, <1>12 DEF SyncOK, Completing
<1>14. SyncOK(c, ses[c])'
  BY <1>8, <1>9, <1>13 DEF SyncOK, s
<1>15. row.rid # 0 => row.st # "none" /\ (row.st = "active" => srv[row.rid].st = "active")
  BY <1>2
<1> QED BY <1>1, <1>14, <1>15, LocalSync

LEMMA StampSync ==
    ASSUME IInv, PInv, CInv, IInv', NEW c \in Clients, Stamp(c)
    PROVE  CInv'
<1> DEFINE s == ses[c]
<1>1. PICK a \in s.acks : /\ SetRow(c, a[1], SetRemoteId(loc[c][a[1]], a[2]))
                          /\ Go(c, [s EXCEPT !.acks = @ \ {a}])
  BY DEF Stamp
<1>2. /\ s \in Sessions /\ SyncOK(c, s) /\ s.pc = "push" /\ s.page = {}
      /\ s.offer \in SUBSET Entities /\ s.due \in SUBSET Ids
      /\ s.acks \in SUBSET (Entities \X Ids) /\ s.tombs \in SUBSET Ids
      /\ UNCHANGED <<next, srv>>
  BY DEF IInv, TypeOK, Sessions, PInv, CInv, SessionOK, StageOK, Stamp
<1>3. /\ a[1] \in Entities /\ a[2] \in Ids /\ a[2] # 0 /\ a \in s.acks
      /\ loc[c][a[1]].st # "none" /\ srv[a[2]].st = "active"
  BY <1>1, <1>2, Constants DEF SyncOK, HoldsOK, Ids
<1> DEFINE t == [s EXCEPT !.acks = @ \ {a}]
           row == SetRemoteId(loc[c][a[1]], a[2])
<1>4. Go(c, t) /\ SetRow(c, a[1], row)
  BY <1>1
<1>5. /\ t.pc = s.pc /\ t.page = s.page /\ t.acks = s.acks \ {a} /\ t.offer = s.offer
      /\ t.tombs = s.tombs /\ t.cmd = s.cmd /\ t.result = s.result
  BY <1>2 DEF Sessions
<1>6. /\ t.due = s.due /\ t.total = s.total /\ t.confirm = s.confirm
      /\ t.disturbed = s.disturbed
  BY <1>2 DEF Sessions
<1>7. /\ row.st = loc[c][a[1]].st
      /\ row.rid = IF loc[c][a[1]].rid = 0 THEN a[2] ELSE loc[c][a[1]].rid
  <2>1. loc[c][a[1]] \in LocalRows
    BY <1>3 DEF IInv, TypeOK
  <2> QED BY <2>1 DEF SetRemoteId, LocalRows
<1>8. \A i \in Ids : srv[i].ent \in Entities
  BY DEF IInv, TypeOK, ServerRows
<1>9. ProjectExists' <=> ProjectExists
  BY <1>2 DEF ProjectExists, HasStatus
<1> HIDE DEF s, t, row
<1>10. t = ses'[c] /\ \A d \in Clients \ {c} : ses'[d] = ses[d]
  BY <1>4 DEF Go, IInv, TypeOK
<1>11. \A f \in Entities : loc'[c][f] = IF f = a[1] THEN row ELSE loc[c][f]
  BY <1>3, <1>4 DEF IInv, TypeOK, SetRow
<1>12. \A f \in Entities : loc'[c][f].st = loc[c][f].st
  BY <1>7, <1>11
<1>13. OwedOK(ses[c])' /\ ~t.confirm
  BY <1>2, <1>5, <1>6, <1>10 DEF SyncOK, OwedOK
<1>14. HoldsOK(c, ses[c])'
  BY <1>2, <1>5, <1>6, <1>8, <1>9, <1>10, <1>12 DEF SyncOK, HoldsOK
<1>15. Completing(c, ses[c])'
  <2>1. SUFFICES ASSUME t.cmd = "sync", t.result = "ok", ~t.disturbed, NEW e \in Entities,
                        loc'[c][e].st = "active", loc'[c][e].rid = 0
                 PROVE  e \in t.offer \/ \E b \in t.acks : b[1] = e
    BY <1>10, <1>13 DEF Completing
  <2>2. e # a[1]
    BY <1>3, <1>7, <1>11, <2>1
  <2>3. loc[c][e].st = "active" /\ loc[c][e].rid = 0
    BY <1>11, <2>1, <2>2
  <2>4. e \in s.offer \/ \E b \in s.acks : b[1] = e
    BY <1>2, <1>5, <1>6, <2>1, <2>3 DEF SyncOK, Completing
  <2> QED BY <1>5, <2>2, <2>4
<1>16. SyncOK(c, ses[c])'
  BY <1>13, <1>14, <1>15 DEF SyncOK
<1>17. row.rid # 0 => row.st # "none" /\ (row.st = "active" => srv[row.rid].st = "active")
  BY <1>3, <1>7 DEF CInv, StampIsActive
<1> QED BY <1>2, <1>3, <1>4, <1>10, <1>16, <1>17, LocalSync

\* What applying the entry p of a page leaves to do: a row whose id is known already is
\* a row of its entry, so the entry is there either way.
LEMMA ApplySync ==
    ASSUME IInv, PInv, CInv, NEW c \in Clients, ses[c].pc = "apply", NEW p \in ses[c].page,
           NEW t, t = ses'[c], t = [ses[c] EXCEPT !.page = @ \ {p}],
           UNCHANGED <<next, srv>>,
           \A f \in Entities : loc[c][f].st # "none" => loc'[c][f].st # "none",
           \A f \in Entities : loc[c][f].st = "archived" => loc'[c][f].st = "archived",
           \A f \in Entities : loc'[c][f].st = "active" =>
               loc'[c][f] = loc[c][f] \/ (f = p[2] /\ loc'[c][f].rid = p[1])
                                      \/ (loc[c][f].st = "active" /\ loc[c][f].rid = 0),
           loc'[c][p[2]].st # "none"
    PROVE  SyncOK(c, ses[c])'
<1> DEFINE s == ses[c]
<1>1. /\ s \in Sessions /\ SyncOK(c, s) /\ s.acks = {} /\ s.offer = {} /\ s.tombs = {}
      /\ s.due \in SUBSET Ids /\ s.page \in SUBSET (Ids \X Entities)
  BY DEF IInv, TypeOK, CInv, PInv, SessionOK, StageOK, Sessions
<1>2. /\ p \in s.page /\ p[1] \in Ids /\ p[2] \in Entities /\ p[1] # 0
      /\ srv[p[1]].ent = p[2]
  BY <1>1, Constants DEF IInv, CarriedIsTrue, Names, Ids
<1>3. s.pc = "apply" /\ t = [s EXCEPT !.page = @ \ {p}]
  OBVIOUS
<1> HIDE DEF s
<1>4. /\ t.pc = "apply" /\ t.page = s.page \ {p} /\ t.acks = {} /\ t.offer = {}
      /\ t.tombs = {} /\ t.cmd = s.cmd /\ t.result = s.result
  BY <1>1, <1>3 DEF Sessions
<1>5. /\ t.due = s.due /\ t.total = s.total /\ t.confirm = s.confirm
      /\ t.disturbed = s.disturbed
  BY <1>1, <1>3 DEF Sessions
<1>6. t.base = s.base /\ t.repull = s.repull /\ t.cur = s.cur /\ t.more = s.more
  BY <1>1, <1>3 DEF Sessions
<1>7. \A i \in Ids : srv[i].ent \in Entities
  BY DEF IInv, TypeOK, ServerRows
<1>8. ProjectExists' <=> ProjectExists
  BY DEF ProjectExists, HasStatus
<1>9. OwedOK(t)'
  BY <1>1, <1>3, <1>4, <1>5 DEF SyncOK, OwedOK
<1>10. HoldsOK(c, ses[c])'
  BY <1>1, <1>4, <1>5, <1>8 DEF SyncOK, HoldsOK
<1>11. \A i \in Unseen(c, ses[c])' : i \in Unseen(c, s) /\ i # p[1]
  BY <1>1, <1>2, <1>5, <1>7 DEF Unseen
<1>12. ASSUME Drained(c, s) PROVE Drained(c, ses[c])'
  <2>1. ASSUME NEW i \in Unseen(c, ses[c])'
        PROVE  i <= From(s) \/ (s.more /\ i > s.cur) \/ \E q \in t.page : q[1] = i
    <3>1. i <= From(s) \/ (s.more /\ i > s.cur) \/ \E q \in s.page : q[1] = i
      BY <1>3, <1>11, <1>12, <2>1 DEF Drained
    <3> QED BY <1>4, <1>11, <2>1, <3>1
  <2> QED BY <1>4, <1>6, <2>1 DEF Drained, From
<1>13. ASSUME Counted(c, s), \A f \in Entities : loc[c][f].st = "active" => loc[c][f].rid # 0
       PROVE  Counted(c, ses[c])'
  <2>1. PICK A \in SUBSET Ids :
           /\ s.total = Cardinality(A)
           /\ \A e \in Entities : loc[c][e].st = "active" => loc[c][e].rid \in A
           /\ \A q \in s.page : q[1] \in A
           /\ \A i \in s.due : srv[i].st = "active" => i \in A
    BY <1>13 DEF Counted
  <2>2. \A e \in Entities : loc'[c][e].st = "active" => loc'[c][e].rid \in A
    BY <1>2, <1>13, <2>1
  <2> QED BY <1>4, <1>5, <2>1, <2>2 DEF Counted
<1>14. ASSUME \A f \in Entities : loc[c][f].st = "active" => loc[c][f].rid # 0
       PROVE  \A f \in Entities : loc'[c][f].st = "active" => loc'[c][f].rid # 0
  BY <1>2, <1>14
<1>15. Completing(c, ses[c])'
  BY <1>1, <1>3, <1>4, <1>5, <1>12, <1>13, <1>14 DEF SyncOK, Completing
<1> QED BY <1>9, <1>10, <1>15 DEF SyncOK

LEMMA ApplyEntrySync ==
    ASSUME IInv, PInv, CInv, IInv', NEW c \in Clients, ApplyEntry(c)
    PROVE  CInv'
<1> DEFINE s == ses[c]
<1>1. PICK p \in s.page : /\ ApplyRemoteNote(c, p[1], p[2])
                          /\ Go(c, [s EXCEPT !.page = @ \ {p}])
  BY DEF ApplyEntry
<1>2. /\ SyncOK(c, s) /\ s.pc = "apply"
      /\ s.page \in SUBSET (Ids \X Entities) /\ UNCHANGED <<next, srv>>
  BY DEF IInv, TypeOK, Sessions, CInv, ApplyEntry
<1>3. /\ p[1] \in Ids /\ p[2] \in Entities /\ p[1] # 0
      /\ srv[p[1]].ent = p[2] /\ srv[p[1]].st = "active"
  BY <1>2, Constants DEF IInv, CarriedIsTrue, Names, SyncOK, HoldsOK, Ids
<1> DEFINE t == [s EXCEPT !.page = @ \ {p}]
<1>4. Go(c, t)
  BY <1>1
<1>5. t = ses'[c] /\ \A d \in Clients \ {c} : ses'[d] = ses[d]
  <2> HIDE DEF t
  <2> QED BY <1>4 DEF Go, IInv, TypeOK
<1>6. CASE \E f \in Entities : loc[c][f].rid = p[1]
  <2>1. UNCHANGED loc
    BY <1>1, <1>6 DEF ApplyRemoteNote
  <2>2. loc[c][p[2]].st # "none"
    <3>1. PICK f \in Entities : loc[c][f].rid = p[1]
      BY <1>6
    <3>2. f = p[2]
      BY <1>3, <3>1 DEF IInv, StampIsTrue
    <3> QED BY <1>3, <3>1, <3>2 DEF CInv, StampIsActive
  <2>3. SyncOK(c, ses[c])'
    BY <1>2, <1>5, <2>1, <2>2, ApplySync
  <2>4. \A d \in Clients \ {c} : SyncOK(d, ses[d])'
    <3>1. RowsStay' /\ NamesKept
      BY <1>2 DEF CInv, RowsStay, NamesKept
    <3> QED BY <1>2, <1>5, <2>1, <3>1, SyncFrame DEF CInv
  <2>5. RowsStay' /\ StampIsActive'
    BY <1>2, <2>1 DEF CInv, RowsStay, StampIsActive
  <2> QED BY <2>3, <2>4, <2>5 DEF CInv
<1>7. CASE ~\E f \in Entities : loc[c][f].rid = p[1]
  <2> DEFINE row == IF loc[c][p[2]].st = "none" THEN [st |-> "active", rid |-> p[1]]
                    ELSE SetRemoteId(loc[c][p[2]], p[1])
  <2>1. SetRow(c, p[2], row)
    BY <1>1, <1>7 DEF ApplyRemoteNote
  <2>2. loc[c][p[2]].st = "none" => row.st = "active" /\ row.rid = p[1]
    OBVIOUS
  <2>3. loc[c][p[2]].st # "none" =>
           /\ row.st = loc[c][p[2]].st
           /\ row.rid = IF loc[c][p[2]].rid = 0 THEN p[1] ELSE loc[c][p[2]].rid
           /\ loc[c][p[2]].rid # 0 => row = loc[c][p[2]]
    <3>1. loc[c][p[2]] \in LocalRows
      BY <1>3 DEF IInv, TypeOK
    <3> QED BY <3>1 DEF SetRemoteId, LocalRows
  <2> HIDE DEF row
  <2>4. \A f \in Entities : loc'[c][f] = IF f = p[2] THEN row ELSE loc[c][f]
    BY <1>3, <2>1 DEF IInv, TypeOK, SetRow
  <2>5. /\ \A f \in Entities : loc[c][f].st # "none" => loc'[c][f].st # "none"
        /\ \A f \in Entities : loc[c][f].st = "archived" => loc'[c][f].st = "archived"
        /\ loc'[c][p[2]].st # "none"
    BY <1>3, <2>2, <2>3, <2>4
  <2>6. \A f \in Entities : loc'[c][f].st = "active" =>
           loc'[c][f] = loc[c][f] \/ (f = p[2] /\ loc'[c][f].rid = p[1])
                                  \/ (loc[c][f].st = "active" /\ loc[c][f].rid = 0)
    BY <2>2, <2>3, <2>4
  <2>7. SyncOK(c, ses[c])'
    BY <1>2, <1>5, <2>5, <2>6, ApplySync
  <2>8. row.rid # 0 => row.st # "none" /\ (row.st = "active" => srv[row.rid].st = "active")
    <3>1. loc[c][p[2]].rid # 0 => /\ loc[c][p[2]].st # "none"
                                  /\ loc[c][p[2]].st = "active" => srv[loc[c][p[2]].rid].st = "active"
      BY <1>3 DEF CInv, StampIsActive
    <3> QED BY <1>3, <2>2, <2>3, <3>1
  <2> QED BY <1>2, <1>3, <1>5, <2>1, <2>7, <2>8, LocalSync
<1> QED BY <1>6, <1>7

-----------------------------------------------------------------------------
(* Requests to the server, and its other callers. *)

\* What an INSERT leaves: every row that was there, and none that was due to another
\* machine comes back.
LEMMA InsertSync ==
    ASSUME IInv, CInv, Promised, NEW c \in Clients, NEW D \in SUBSET Entities,
           NEW f \in Assignments(SuppliedIds(c), D), Insert(c, D, f),
           \A e \in D : ~Collides(c, e, SuppliedIds(c)[e]), UNCHANGED loc,
           \A d \in Clients \ {c} : ses'[d] = ses[d]
    PROVE  /\ NamesKept /\ RowsStay' /\ StampIsActive'
           /\ \A i \in Ids : srv[i].st = "active" => srv'[i].st = "active"
           /\ \A d \in Clients \ {c} : SyncOK(d, ses[d])'
<1>1. /\ NamesKept
      /\ \A e \in D : /\ f[e] \in Ids /\ f[e] \notin Stored
                      /\ srv'[f[e]] = [st |-> "active", ent |-> e, ext |-> <<c, e>>]
      /\ \A i \in Ids : (\A e \in D : f[e] # i) => srv'[i] = srv[i]
  BY SuppliedFacts, InsertFacts
<1>2. ASSUME NEW i \in Ids
      PROVE  srv'[i] = srv[i] \/ (srv'[i].st = "active" /\ srv[i].st # "active")
  <2>1. CASE \E e \in D : f[e] = i
    <3>1. PICK e \in D : f[e] = i
      BY <2>1
    <3>2. srv'[i].st = "active"
      <4>1. srv'[i] = [st |-> "active", ent |-> e, ext |-> <<c, e>>]
        BY <1>1, <3>1
      <4> QED BY <4>1
    <3>3. i \notin Stored
      BY <1>1, <3>1
    <3> QED BY <3>2, <3>3 DEF Stored, HasStatus
  <2>2. CASE ~\E e \in D : f[e] = i
    BY <1>1, <2>2
  <2> QED BY <2>1, <2>2
<1>3. RowsStay'
  BY <1>2 DEF CInv, RowsStay
<1>4. \A i \in Ids : srv[i].st = "active" => srv'[i].st = "active"
  BY <1>2
<1>5. StampIsActive'
  <2>1. \A d \in Clients, e \in Entities : loc[d][e].rid # 0 => loc[d][e].rid \in Ids
    BY Constants DEF IInv, TypeOK, LocalRows, Ids
  <2> QED BY <1>4, <2>1 DEF CInv, StampIsActive
<1>6. ASSUME NEW d \in Clients, d # c PROVE SyncOK(d, ses[d])'
  <2>1. SyncOK(d, ses[d]) /\ ses[d].due \in SUBSET Ids
    BY DEF CInv, IInv, TypeOK, Sessions
  <2>2. \A i \in ses[d].due : srv[i].st = "active"
    BY <1>6, <2>1 DEF SyncOK, HoldsOK, CInv, RowsStay, Promised
  <2> QED BY <1>1, <1>3, <1>4, <1>6, <2>1, <2>2, SyncFrame DEF CInv
<1> QED BY <1>1, <1>3, <1>4, <1>5, <1>6

LEMMA PushAnsweredSync ==
    ASSUME IInv, PInv, CInv, Promised, IInv', NEW c \in Clients, PushAnswered(c)
    PROVE  CInv'
<1> DEFINE s == ses[c]
           sup == SuppliedIds(c)
<1>1. PICK K \in Chunks(c) : \E o \in Outcomes(c, K, sup) :
         /\ Insert(c, DOMAIN o.ids, o.ids)
         /\ Go(c, IF o.ok THEN [s EXCEPT !.offer = @ \ K, !.acks = Results(c, K, o.ids)]
                  ELSE Interrupt(s, "refused"))
  BY DEF PushAnswered
<1>2. PICK o \in Outcomes(c, K, sup) :
         /\ Insert(c, DOMAIN o.ids, o.ids)
         /\ Go(c, IF o.ok THEN [s EXCEPT !.offer = @ \ K, !.acks = Results(c, K, o.ids)]
                  ELSE Interrupt(s, "refused"))
  BY <1>1
<1> DEFINE D == DOMAIN o.ids
           f == o.ids
           t == IF o.ok THEN [s EXCEPT !.offer = @ \ K, !.acks = Results(c, K, f)]
                ELSE Interrupt(s, "refused")
<1>3. /\ s \in Sessions /\ s.offer \in SUBSET Entities /\ s.acks = {} /\ s.pc = "push"
      /\ s.page = {} /\ SyncOK(c, s) /\ UNCHANGED loc
      /\ s.due \in SUBSET Ids /\ s.tombs \in SUBSET Ids
  BY DEF PushAnswered, Sending, IInv, TypeOK, Sessions, PInv, CInv, SessionOK, StageOK
<1>4. K \in SUBSET Entities /\ K \subseteq s.offer
  BY <1>3 DEF Chunks
<1>5. /\ D \subseteq Missing(c, K) /\ D \in SUBSET Entities
      /\ \A e \in D : ~Collides(c, e, SuppliedIds(c)[e])
      /\ f \in Assignments(SuppliedIds(c), D)
      /\ Insert(c, D, f)
      /\ o.ok => D = Missing(c, K)
  BY <1>2, <1>4, OutcomeFacts DEF Missing
<1>6. Go(c, t)
  BY <1>2
<1>7. o.ok => /\ t.pc = "push" /\ t.page = {} /\ t.acks = Results(c, K, f)
              /\ t.offer = s.offer \ K /\ t.tombs = s.tombs /\ t.cmd = s.cmd
              /\ t.result = s.result
  <2> HIDE DEF s, f, D
  <2> QED BY <1>3 DEF Sessions
<1>8. o.ok => /\ t.due = s.due /\ t.total = s.total /\ t.confirm = s.confirm
              /\ t.disturbed = s.disturbed
  <2> HIDE DEF s, f, D
  <2> QED BY <1>3 DEF Sessions
<1>9. ~o.ok => /\ t.pc = "push" /\ t.page = {} /\ t.acks = {} /\ t.offer = {}
               /\ t.tombs = {} /\ t.cmd = s.cmd /\ t.result = "refused"
               /\ t.due = s.due /\ t.total = s.total /\ t.confirm = s.confirm
  <2> HIDE DEF s, f, D
  <2> QED BY <1>3, InterruptType, InterruptKeeps
<1> HIDE DEF s, D, f, t, sup
<1>10. t = ses'[c] /\ \A d \in Clients \ {c} : ses'[d] = ses[d]
  BY <1>6 DEF Go, IInv, TypeOK
<1>11. /\ NamesKept /\ RowsStay' /\ StampIsActive'
       /\ \A d \in Clients \ {c} : SyncOK(d, ses[d])'
  BY <1>3, <1>5, <1>10, InsertSync
<1>12. \A a \in Results(c, K, f) : a[1] \in K /\ srv'[a[2]].st = "active"
  BY <1>4, <1>5, SuppliedFacts, ResultFacts
<1>13. \A i \in Ids : srv[i].st # "none" => srv'[i].st # "none" /\ srv'[i].ent = srv[i].ent
  BY <1>11 DEF NamesKept
<1>14. OwedOK(ses[c])' /\ ~t.confirm
  BY <1>3, <1>7, <1>8, <1>9, <1>10 DEF SyncOK, OwedOK
<1>15. HoldsOK(c, ses[c])'
  <2>1. s.total # 0 => ProjectExists'
    BY <1>3, <1>11, ProjectStays DEF SyncOK, HoldsOK, CInv
  <2>2. /\ \A e \in s.offer : loc'[c][e].st # "none"
        /\ \A i \in s.tombs : srv'[i].st # "none" /\ loc'[c][srv'[i].ent].st = "archived"
        /\ \A i \in s.due : srv'[i].st # "none"
    BY <1>3, <1>13 DEF SyncOK, HoldsOK
  <2>3. CASE o.ok
    <3>1. \A a \in t.acks : loc'[c][a[1]].st # "none" /\ srv'[a[2]].st = "active"
      BY <1>4, <1>7, <1>12, <2>2, <2>3
    <3> QED BY <1>7, <1>8, <1>10, <2>1, <2>2, <2>3, <3>1 DEF HoldsOK
  <2>4. CASE ~o.ok
    BY <1>9, <1>10, <2>1, <2>2, <2>4 DEF HoldsOK
  <2> QED BY <2>3, <2>4
<1>16. Completing(c, ses[c])'
  <2>1. CASE ~o.ok
    BY <1>9, <1>10, <2>1 DEF Completing
  <2>2. CASE o.ok
    <3> SUFFICES ASSUME t.cmd = "sync", t.result = "ok", ~t.disturbed, NEW e \in Entities,
                        loc[c][e].st = "active", loc[c][e].rid = 0
                 PROVE  e \in t.offer \/ \E a \in t.acks : a[1] = e
      BY <1>3, <1>10, <1>14 DEF Completing
    <3>1. e \in s.offer
      BY <1>3, <1>7, <1>8, <2>2 DEF SyncOK, Completing
    <3>2. e \in K => \E a \in Results(c, K, f) : a[1] = e
      BY <1>4, <1>5, <2>2, EveryRowAnswered
    <3> QED BY <1>7, <2>2, <3>1, <3>2
  <2> QED BY <2>1, <2>2
<1>17. SyncOK(c, ses[c])'
  BY <1>14, <1>15, <1>16 DEF SyncOK
<1> QED BY <1>11, <1>17 DEF CInv

LEMMA PushUnansweredSync ==
    ASSUME IInv, PInv, CInv, Promised, IInv', NEW c \in Clients, PushUnanswered(c)
    PROVE  CInv'
<1> DEFINE s == ses[c]
           sup == SuppliedIds(c)
           t == Interrupt(s, "interrupted")
<1>1. PICK K \in Chunks(c) : \E o \in Outcomes(c, K, sup) : Insert(c, DOMAIN o.ids, o.ids)
  BY DEF PushUnanswered
<1>2. PICK o \in Outcomes(c, K, sup) : Insert(c, DOMAIN o.ids, o.ids)
  BY <1>1
<1> DEFINE D == DOMAIN o.ids
           f == o.ids
<1>3. /\ s \in Sessions /\ s.offer \in SUBSET Entities /\ s.acks = {} /\ s.pc = "push"
      /\ s.page = {} /\ SyncOK(c, s) /\ UNCHANGED loc /\ Go(c, t)
      /\ s.due \in SUBSET Ids
  BY DEF PushUnanswered, Sending, IInv, TypeOK, Sessions, PInv, CInv, SessionOK, StageOK
<1>4. K \in SUBSET Entities
  BY <1>3 DEF Chunks
<1>5. /\ D \in SUBSET Entities
      /\ \A e \in D : ~Collides(c, e, SuppliedIds(c)[e])
      /\ f \in Assignments(SuppliedIds(c), D)
      /\ Insert(c, D, f)
  BY <1>2, <1>4, OutcomeFacts DEF Missing
<1>6. /\ t.pc = "push" /\ t.page = {} /\ t.acks = {} /\ t.offer = {}
      /\ t.tombs = {} /\ t.cmd = s.cmd /\ t.result = "interrupted"
      /\ t.due = s.due /\ t.total = s.total /\ t.confirm = s.confirm
  <2> HIDE DEF s
  <2> QED BY <1>3, InterruptType, InterruptKeeps
<1> HIDE DEF s, D, f, t, sup
<1>7. t = ses'[c] /\ \A d \in Clients \ {c} : ses'[d] = ses[d]
  BY <1>3 DEF Go, IInv, TypeOK
<1>8. /\ NamesKept /\ RowsStay' /\ StampIsActive'
      /\ \A d \in Clients \ {c} : SyncOK(d, ses[d])'
  BY <1>3, <1>5, <1>7, InsertSync
<1>9. HoldsOK(c, ses[c])'
  <2>1. s.total # 0 => ProjectExists'
    BY <1>3, <1>8, ProjectStays DEF SyncOK, HoldsOK, CInv
  <2>2. \A i \in s.due : srv'[i].st # "none"
    BY <1>3, <1>8 DEF SyncOK, HoldsOK, NamesKept
  <2> QED BY <1>6, <1>7, <2>1, <2>2 DEF HoldsOK
<1>10. OwedOK(ses[c])' /\ Completing(c, ses[c])'
  BY <1>3, <1>6, <1>7 DEF SyncOK, OwedOK, Completing
<1> QED BY <1>8, <1>9, <1>10 DEF SyncOK, CInv

\* The one machine deletes a row whose entry it has archived: no stamp of an active
\* entry is on it.
LEMMA TombstoneSync ==
    ASSUME IInv, PInv, CInv, Promised, IInv', NEW c \in Clients, Tombstone(c)
    PROVE  CInv'
<1> DEFINE s == ses[c]
<1>1. PICK i \in s.tombs :
         /\ srv' = IF i \in Stored THEN [srv EXCEPT ![i].st = "deleted"] ELSE srv
         /\ Go(c, [s EXCEPT !.tombs = @ \ {i}])
  BY DEF Tombstone
<1> DEFINE t == [s EXCEPT !.tombs = @ \ {i}]
<1>2. /\ s \in Sessions /\ SyncOK(c, s) /\ s.pc = "push" /\ s.acks = {} /\ s.offer = {}
      /\ s.page = {} /\ UNCHANGED loc /\ s.due \in SUBSET Ids /\ s.tombs \in SUBSET Ids
  BY DEF Tombstone, IInv, TypeOK, Sessions, PInv, CInv, SessionOK, StageOK
<1>3. "tombstone" \in Events
  BY <1>1 DEF PInv, SessionOK
<1>4. Go(c, t)
  BY <1>1
<1>5. i \in Ids /\ i \in s.tombs /\ loc[c][srv[i].ent].st = "archived"
  BY <1>1, <1>2 DEF SyncOK, HoldsOK
<1> HIDE DEF s
<1>6. t = ses'[c]
  <2> HIDE DEF t
  <2> QED BY <1>4 DEF Go, IInv, TypeOK
<1>7. /\ t.pc = s.pc /\ t.page = {} /\ t.acks = {} /\ t.offer = {}
      /\ t.cmd = s.cmd /\ t.result = s.result /\ t.tombs = s.tombs \ {i}
  BY <1>2 DEF Sessions
<1>8. /\ t.due = s.due /\ t.total = s.total /\ t.confirm = s.confirm
      /\ t.disturbed = s.disturbed
  BY <1>2 DEF Sessions
<1> HIDE DEF t
<1>9. \A j \in Ids : /\ srv'[j].ent = srv[j].ent
                     /\ \/ srv'[j].st = srv[j].st
                        \/ j = i /\ srv[j].st # "none" /\ srv'[j].st = "deleted"
  <2>1. srv[i] \in ServerRows /\ srv \in [Ids -> ServerRows]
    BY <1>5 DEF IInv, TypeOK
  <2>2. /\ [srv[i] EXCEPT !.st = "deleted"].st = "deleted"
        /\ [srv[i] EXCEPT !.st = "deleted"].ent = srv[i].ent
    BY <2>1 DEF ServerRows
  <2>3. i \in Stored => srv[i].st # "none"
    BY DEF Stored, HasStatus
  <2> QED BY <1>1, <1>5, <2>1, <2>2, <2>3
<1>10. RowsStay' /\ NamesKept
  BY <1>3, <1>9 DEF CInv, RowsStay, NamesKept
<1>11. \A d \in Clients : d = c
  BY <1>3 DEF Promised
<1>12. StampIsActive'
  <2>1. \A e \in Entities : loc[c][e].rid # 0 =>
           loc[c][e].rid \in Ids /\ srv[loc[c][e].rid].ent = e
    BY Constants DEF IInv, TypeOK, LocalRows, StampIsTrue, Ids
  <2> QED BY <1>2, <1>5, <1>9, <1>11, <2>1 DEF CInv, StampIsActive
<1>13. OwedOK(ses[c])' /\ ~t.confirm
  BY <1>2, <1>6, <1>7, <1>8 DEF SyncOK, OwedOK
<1>14. HoldsOK(c, ses[c])'
  <2>1. s.total # 0 => ProjectExists'
    BY <1>2, <1>10, ProjectStays DEF SyncOK, HoldsOK, CInv
  <2>2. /\ \A j \in t.tombs : srv'[j].st # "none" /\ loc'[c][srv'[j].ent].st = "archived"
        /\ \A j \in t.due : srv'[j].st # "none"
    BY <1>2, <1>7, <1>8, <1>9 DEF SyncOK, HoldsOK
  <2> QED BY <1>6, <1>7, <1>8, <2>1, <2>2 DEF HoldsOK
<1>15. Completing(c, ses[c])'
  BY <1>2, <1>6, <1>7, <1>8, <1>13 DEF SyncOK, Completing
<1>16. SyncOK(c, ses[c])'
  BY <1>13, <1>14, <1>15 DEF SyncOK
<1> QED BY <1>10, <1>11, <1>12, <1>16 DEF CInv

LEMMA TeamAddSync ==
    ASSUME IInv, CInv, IInv', NamesKept, NEW e \in Entities, TeamAdd(e)
    PROVE  CInv'
<1> DEFINE row == [st |-> "active", ent |-> e, ext |-> NoExt]
<1>1. /\ UNCHANGED <<loc, ses>> /\ next' = next + 1
      /\ \A i \in Ids : srv'[i] = IF i = next + 1 THEN row ELSE srv[i]
  BY DEF TeamAdd, IInv, TypeOK
<1>2. row.st = "active"
  OBVIOUS
<1> HIDE DEF row
<1>3. \A i \in Ids : i = next + 1 => srv[i].st = "none"
  <2>1. next \in Nat
    BY Constants DEF IInv, TypeOK
  <2> QED BY <2>1 DEF IInv, Minted
<1>4. RowsStay' /\ \A i \in Ids : srv[i].st = "active" => srv'[i].st = "active"
  BY <1>1, <1>2, <1>3 DEF CInv, RowsStay
<1>5. StampIsActive'
  <2>1. \A d \in Clients, f \in Entities : loc[d][f].rid # 0 => loc[d][f].rid \in Ids
    BY Constants DEF IInv, TypeOK, LocalRows, Ids
  <2> QED BY <1>1, <1>4, <2>1 DEF CInv, StampIsActive
<1>6. ASSUME NEW c \in Clients PROVE SyncOK(c, ses[c])'
  <2>1. SyncOK(c, ses[c]) /\ ses[c].due \in SUBSET Ids
    BY DEF CInv, IInv, TypeOK, Sessions
  <2>2. \A i \in ses[c].due : srv'[i].st = "active" => srv[i].st = "active"
    BY <1>1, <1>3, <2>1 DEF SyncOK, HoldsOK
  <2> QED BY <1>1, <1>4, <2>1, <2>2, SyncFrame DEF CInv
<1> QED BY <1>4, <1>5, <1>6 DEF CInv

-----------------------------------------------------------------------------
LEMMA InitCInv == Init => CInv
<1> SUFFICES ASSUME Init PROVE CInv
  OBVIOUS
<1>1. RowsStay /\ StampIsActive
  BY DEF Init, RowsStay, StampIsActive
<1>2. \A c \in Clients : SyncOK(c, ses[c])
  BY DEF Init, SyncOK, OwedOK, HoldsOK, Completing, Idle
<1> QED BY <1>1, <1>2 DEF CInv

LEMMA NextCInv ==
    ASSUME Promised, IInv, PInv, CInv, [Next]_vars
    PROVE  CInv'
<1>0. IInv' /\ NamesKept
  BY NextIInv
<1>1. CASE UNCHANGED vars
  <2>1. RowsStay' /\ StampIsActive'
    BY <1>1 DEF vars, CInv, RowsStay, StampIsActive
  <2>2. \A c \in Clients : SyncOK(c, ses[c])'
    BY <1>0, <1>1, <2>1, SyncFrame DEF vars, CInv
  <2> QED BY <2>1, <2>2 DEF CInv
<1>2. ASSUME NEW c \in Clients, NEW e \in Entities, Add(c, e) \/ Archive(c, e)
      PROVE  CInv'
  BY <1>2, AddSync, ArchiveSync
<1>3. ASSUME NEW c \in Clients, NEW archived \in BOOLEAN,
             \/ StartSync(c, archived)
             \/ \E cmd \in Commands : StartPush(c, cmd, archived)
      PROVE  CInv'
  <2>1. CASE StartSync(c, archived)
    BY <2>1, StartSyncSync
  <2>2. ASSUME NEW cmd \in Commands, StartPush(c, cmd, archived)
        PROVE  CInv'
    BY <2>2, StartPushSync, Constants
  <2> QED BY <1>3, <2>1, <2>2
<1>4. ASSUME NEW c \in Clients, Step(c) PROVE CInv'
  <2>1. CASE PullPage(c)
    BY <1>0, <2>1, PullPageSync
  <2>2. CASE ApplyEntry(c)
    BY <1>0, <2>2, ApplyEntrySync
  <2>3. CASE PageDone(c)
    BY <1>0, <2>3, PageDoneSync
  <2>4. CASE TakeRows(c)
    BY <1>0, <2>4, TakeRowsSync
  <2>5. CASE PushAnswered(c)
    BY <1>0, <2>5, PushAnsweredSync
  <2>6. CASE Stamp(c)
    BY <1>0, <2>6, StampSync
  <2>7. CASE Tombstone(c)
    BY <1>0, <2>7, TombstoneSync
  <2>8. CASE PushDone(c)
    BY <1>0, <2>8, PushDoneSync
  <2>9. CASE Return(c)
    BY <2>9, IdleSync DEF Return
  <2> QED BY <1>4, <2>1, <2>2, <2>3, <2>4, <2>5, <2>6, <2>7, <2>8, <2>9 DEF Step
<1>5. ASSUME NEW c \in Clients, Fault(c) PROVE CInv'
  <2>1. CASE PushUnanswered(c)
    BY <1>0, <2>1, PushUnansweredSync
  <2>2. CASE PushUnsent(c)
    BY <2>2, PushUnsentSync
  <2>3. CASE Fail(c)
    BY <2>3, IdleSync DEF Fail
  <2> QED BY <1>5, <2>1, <2>2, <2>3 DEF Fault
<1>6. ASSUME NEW e \in Entities, TeamAdd(e) PROVE CInv'
  BY <1>0, <1>6, TeamAddSync
\* No row is lost, so none is put back; the rest Promised excludes.
<1>7. ASSUME NEW i \in Ids, TeamRestore(i) \/ ServerArchive(i) PROVE CInv'
  BY <1>7 DEF TeamRestore, ServerArchive, Promised, CInv, RowsStay
<1>8. CASE ServerReset
  BY <1>8 DEF ServerReset, Promised
<1> QED BY <1>1, <1>2, <1>3, <1>4, <1>5, <1>6, <1>7, <1>8 DEF Next

\* What a sync that may still return Ok has brought, owes and knows it owes, in every
\* reachable state.
THEOREM SyncInvariance ==
    ASSUME Promised
    PROVE  Spec => [](IInv /\ PInv /\ CInv)
<1>1. Init => IInv /\ PInv /\ CInv
  BY InitIInv, InitPInv, InitCInv
<1>2. (IInv /\ PInv /\ CInv) /\ [Next]_vars => (IInv /\ PInv /\ CInv)'
  BY NextIInv, NextPInv, NextCInv
<1> QED BY <1>1, <1>2, PTL DEF Spec

\* While no row is archived on the server or lost with its database, and only one machine
\* tombstones, a sync that returns Ok leaves the store with every entry that was active
\* when it began and still is, wherever the rounds before it failed and whatever ids they
\* had stamped: what the cursor has passed, the total finds (sync_round,
\* pull_and_apply_since).
THEOREM SyncCatchesUp ==
    ASSUME Promised
    PROVE  Spec => []CaughtUp
<1>1. IInv /\ CInv => CaughtUp
  <2> SUFFICES ASSUME IInv, CInv, NEW c \in Clients, ses[c].pc = "done", ses[c].result = "ok",
                      ~ses[c].disturbed, NEW i \in ses[c].due \cap ActiveIds
               PROVE  loc[c][srv[i].ent].st # "none"
    BY DEF CaughtUp
  <2>1. OwedOK(ses[c]) /\ Completing(c, ses[c])
    BY DEF CInv, SyncOK
  <2>2. ses[c].cmd = "sync" /\ ses[c].confirm
    BY <2>1 DEF OwedOK
  <2>3. Drained(c, ses[c])
    BY <2>1, <2>2 DEF Completing
  <2>4. i \notin Unseen(c, ses[c])
    BY <2>3 DEF Drained
  <2> QED BY <2>4 DEF Unseen, ActiveIds, HasStatus
<1> QED BY SyncInvariance, <1>1, PTL
=============================================================================
