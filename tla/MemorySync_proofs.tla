--------------------------- MODULE MemorySync_proofs ---------------------------
(***************************************************************************)
(* The sync for every number of machines and entries, every page and chunk *)
(* size: TypeOK, StampIsTrue and IdsKeepEntity.  The argument: once an id  *)
(* names an entry it goes on naming it, deleted or lost rows included,     *)
(* because ids are minted in growing order and a supplied id is one that   *)
(* a stamp, a page or an answer has tied to the entry it is sent with.  So *)
(* whatever a command carries from an answer to its store is still true.   *)
(***************************************************************************)
EXTENDS MemorySync, TLAPS, FiniteSetTheorems, WellFoundedInduction

-----------------------------------------------------------------------------
(* Sets of ids. *)

LEMMA Constants ==
    /\ MaxId \in Nat /\ PageSize \in Nat \ {0} /\ ChunkSize \in Nat \ {0}
    /\ IsFiniteSet(Entities) /\ Entities # {} /\ IsFiniteSet(Clients) /\ NoExt \notin Clients \X Entities
    /\ Commands \subseteq {"sync", "push", "force"}
BY SyncAssumption DEF SyncAssumption

LEMMA NoExtIsNoUuid == \A c \in Clients, e \in Entities : <<c, e>> # NoExt
BY Constants

LEMMA BelowIsWellFounded ==
    IsWellFoundedOn({ss \in Nat \X Nat : ss[1] < ss[2]}, Nat)
BY NatLessThanWellFounded DEF OpToRel

\* A set of ids and 0 has a largest element, and Max is it.
LEMMA MaxOfIds ==
    ASSUME NEW S \in SUBSET (0..MaxId), S # {}
    PROVE  /\ Max(S) \in S
           /\ \A x \in S : x <= Max(S)
<1> DEFINE R == {ss \in Nat \X Nat : ss[1] < ss[2]}
           T == {MaxId - x : x \in S}
<1>1. T \subseteq Nat /\ T # {}
  <2>1. \A x \in S : x \in Nat /\ x <= MaxId /\ MaxId - x \in Nat
    BY Constants
  <2> QED BY <2>1
<1>2. PICK m \in T : \A y \in T : <<y, m>> \notin R
  <2>1. IsWellFoundedOn(R, Nat)
    BY BelowIsWellFounded
  <2> HIDE DEF R, T
  <2> QED BY <1>1, <2>1, WFMin
<1>3. PICK x \in S : m = MaxId - x
  BY <1>2
<1>4. \A y \in S : x >= y
  <2> SUFFICES ASSUME NEW y \in S PROVE x >= y
    OBVIOUS
  <2>1. MaxId - y \in T
    OBVIOUS
  <2>2. ~(MaxId - y < MaxId - x)
    BY <1>1, <1>2, <1>3, <2>1
  <2> QED BY <2>2, Constants
<1> QED BY <1>4, Constants DEF Max

\* Sets of ids are finite, and small.
LEMMA IdSets ==
    ASSUME NEW S \in SUBSET Ids
    PROVE  IsFiniteSet(S) /\ Cardinality(S) \in 0..MaxId
<1>1. IsFiniteSet(1..MaxId) /\ Cardinality(1..MaxId) = MaxId
  BY FS_Interval, Constants
<1>2. IsFiniteSet(S) /\ Cardinality(S) <= MaxId
  BY <1>1, FS_Subset DEF Ids
<1> QED BY <1>2, FS_CardinalityType, Constants

\* As many fresh ids as entries: every one of them is used, and they are ids.
LEMMA FreshIdsFill ==
    ASSUME NEW M, IsFiniteSet(M), NEW n \in 0..MaxId, NEW f \in [M -> Ids], IsInjective(f),
           \A e \in M : f[e] \in (n + 1)..(n + Cardinality(M))
    PROVE  /\ Cardinality(M) \in Nat /\ n + Cardinality(M) \in 0..MaxId
           /\ \A i \in (n + 1)..(n + Cardinality(M)) : \E e \in M : f[e] = i
<1> DEFINE k == Cardinality(M)
           T == (n + 1)..(n + k)
<1>1. k \in Nat
  BY FS_CardinalityType
<1>2. IsFiniteSet(T) /\ Cardinality(T) = k
  <2> DEFINE a == n + 1
             b == n + k
  <2>1. a \in Int /\ b \in Int
    BY <1>1
  <2>2. IsFiniteSet(a..b) /\ Cardinality(a..b) = IF a > b THEN 0 ELSE b - a + 1
    <3> HIDE DEF a, b
    <3> QED BY <2>1, FS_Interval
  <2> QED BY <1>1, <2>2
<1>3. f \in Injection(M, T)
  BY DEF Injection
<1> HIDE DEF T
<1>4. f \in Surjection(M, T)
  BY <1>2, <1>3, FS_Injection
<1>5. \A i \in T : \E e \in M : f[e] = i
  BY <1>4 DEF Surjection
<1>6. n + k \in 0..MaxId
  <2> HIDE DEF k
  <2>1. CASE k = 0
    BY <2>1, Constants
  <2>2. CASE k # 0
    <3>1. n + k \in T
      BY <1>1, <2>2, Constants DEF T
    <3>2. n + k \in Ids
      BY <1>5, <3>1
    <3> QED BY <3>2, Constants DEF Ids
  <2> QED BY <2>1, <2>2
<1> QED BY <1>1, <1>5, <1>6 DEF T

-----------------------------------------------------------------------------
(* The invariant. *)

\* Row i is, or was, the server's row of entry e.
Names(i, e) == srv[i].st # "none" /\ srv[i].ent = e

\* The rows are the ids minted so far.
Minted == \A i \in Ids : srv[i].st # "none" <=> i <= next

\* A row pushed with an external_id holds the entry that has this uuid.
ExtIsTrue ==
    \A i \in Ids, c \in Clients, e \in Entities : srv[i].ext = <<c, e>> => Names(i, e)

\* What a command carries from an answer to its local store, the entries of a page
\* and the results of a batch, pairs an id with the entry it names.
CarriedIsTrue ==
    \A c \in Clients : /\ \A p \in ses[c].page : Names(p[1], p[2])
                       /\ \A a \in ses[c].acks : Names(a[2], a[1])

IInv == TypeOK /\ Minted /\ ExtIsTrue /\ CarriedIsTrue /\ StampIsTrue

\* An id that names an entry goes on naming it.
NamesKept ==
    \A i \in Ids : srv[i].st # "none" => srv'[i].st # "none" /\ srv'[i].ent = srv[i].ent

-----------------------------------------------------------------------------
(* What each kind of step has to respect. *)

\* A step of one session.
LEMMA GoType ==
    ASSUME TypeOK, NEW c \in Clients, NEW s \in Sessions, Go(c, s)
    PROVE  /\ ses' \in [Clients -> Sessions]
           /\ ses'[c] = s
           /\ \A d \in Clients \ {c} : ses'[d] = ses[d]
BY DEF TypeOK, Go

LEMMA SessionStep ==
    ASSUME IInv, NEW c \in Clients, NEW s \in Sessions, Go(c, s), UNCHANGED <<next, srv, loc>>,
           \A p \in s.page : Names(p[1], p[2]),
           \A a \in s.acks : Names(a[2], a[1])
    PROVE  IInv' /\ NamesKept
<1>1. /\ ses' \in [Clients -> Sessions]
      /\ ses'[c] = s
      /\ \A d \in Clients \ {c} : ses'[d] = ses[d]
  BY GoType DEF IInv
<1>2. TypeOK'
  BY <1>1 DEF IInv, TypeOK
<1>3. Minted' /\ ExtIsTrue' /\ StampIsTrue' /\ NamesKept
  BY DEF IInv, Minted, ExtIsTrue, StampIsTrue, NamesKept, Names
<1>4. CarriedIsTrue'
  <2> SUFFICES ASSUME NEW d \in Clients
               PROVE  /\ \A p \in ses'[d].page : Names(p[1], p[2])'
                      /\ \A a \in ses'[d].acks : Names(a[2], a[1])'
    BY DEF CarriedIsTrue
  <2>1. CASE d = c
    BY <1>1, <2>1 DEF Names
  <2>2. CASE d # c
    BY <1>1, <2>2 DEF IInv, CarriedIsTrue, Names
  <2> QED BY <2>1, <2>2
<1> QED BY <1>2, <1>3, <1>4 DEF IInv

\* A step of one local row, under any change of the sessions that carries nothing new.
LEMMA LocalStep ==
    ASSUME IInv, NEW c \in Clients, NEW e \in Entities, NEW row \in LocalRows,
           SetRow(c, e, row), row.rid # 0 => Names(row.rid, e),
           UNCHANGED <<next, srv>>, ses' \in [Clients -> Sessions],
           \A d \in Clients : ses'[d].page \subseteq ses[d].page
                               /\ ses'[d].acks \subseteq ses[d].acks
    PROVE  IInv' /\ NamesKept
<1>1. /\ loc' \in [Clients -> [Entities -> LocalRows]]
      /\ \A d \in Clients, f \in Entities :
            loc'[d][f] = IF d = c /\ f = e THEN row ELSE loc[d][f]
  BY DEF IInv, TypeOK, SetRow
<1>2. TypeOK'
  BY <1>1 DEF IInv, TypeOK
<1>3. Minted' /\ ExtIsTrue' /\ NamesKept
  BY DEF IInv, Minted, ExtIsTrue, NamesKept, Names
<1>4. CarriedIsTrue'
  BY DEF IInv, CarriedIsTrue, Names
<1>5. StampIsTrue'
  BY <1>1 DEF IInv, StampIsTrue, Names
<1> QED BY <1>2, <1>3, <1>4, <1>5 DEF IInv

\* A step of the server, with the results it answers.
LEMMA ServerStep ==
    ASSUME IInv, next' \in 0..MaxId, srv' \in [Ids -> ServerRows], Minted', ExtIsTrue',
           NamesKept, UNCHANGED loc, ses' \in [Clients -> Sessions],
           \A d \in Clients :
               /\ ses'[d].page \subseteq ses[d].page
               /\ \A a \in ses'[d].acks : a \in ses[d].acks \/ Names(a[2], a[1])'
    PROVE  IInv'
<1>1. TypeOK'
  BY DEF IInv, TypeOK
<1>2. \A i \in Ids : \A e : Names(i, e) => Names(i, e)'
  BY DEF NamesKept, Names
<1>3. \A d \in Clients : /\ \A p \in ses[d].page : p[1] \in Ids
                         /\ \A a \in ses[d].acks : a[2] \in Ids
  BY DEF IInv, TypeOK, Sessions
<1>4. CarriedIsTrue'
  BY <1>2, <1>3 DEF IInv, CarriedIsTrue
<1>5. \A c \in Clients, e \in Entities : loc[c][e].rid # 0 => loc[c][e].rid \in Ids
  BY Constants DEF IInv, TypeOK, LocalRows, Ids
<1>6. StampIsTrue'
  BY <1>2, <1>5 DEF IInv, StampIsTrue, Names
<1> QED BY <1>1, <1>4, <1>6 DEF IInv

LEMMA DisturbedType ==
    ASSUME NEW s \in Sessions
    PROVE  [s EXCEPT !.disturbed = TRUE] \in Sessions
BY Zenon DEF Sessions

\* Marking the commands that run changes nothing else about them.
LEMMA DisturbKeeps ==
    ASSUME TypeOK, NEW C, Disturb(C)
    PROVE  /\ ses' \in [Clients -> Sessions]
           /\ \A d \in Clients :
                 /\ ses'[d].page = ses[d].page /\ ses'[d].acks = ses[d].acks
                 /\ ses'[d].pc = ses[d].pc /\ ses'[d].cmd = ses[d].cmd
                 /\ ses'[d].offer = ses[d].offer /\ ses'[d].tombs = ses[d].tombs
                 /\ ses'[d].result = ses[d].result /\ ses'[d].archived = ses[d].archived
                 /\ d \in C /\ ses[d].pc # "idle" => ses'[d].disturbed
                 /\ ~ses'[d].disturbed => ~ses[d].disturbed
<1>1. \A d \in Clients : [ses[d] EXCEPT !.disturbed = TRUE] \in Sessions
  BY DisturbedType DEF TypeOK
<1>2. ses' \in [Clients -> Sessions]
  BY <1>1 DEF TypeOK, Disturb
<1>3. \A d \in Clients :
         ses'[d] = IF d \in C /\ ses[d].pc # "idle"
                   THEN [ses[d] EXCEPT !.disturbed = TRUE] ELSE ses[d]
  BY DEF Disturb
<1>4. \A d \in Clients :
         LET t == [ses[d] EXCEPT !.disturbed = TRUE] IN
         /\ t.page = ses[d].page /\ t.acks = ses[d].acks /\ t.pc = ses[d].pc
         /\ t.cmd = ses[d].cmd /\ t.offer = ses[d].offer /\ t.tombs = ses[d].tombs
         /\ t.result = ses[d].result /\ t.archived = ses[d].archived /\ t.disturbed
  BY DEF TypeOK, Sessions
<1> QED BY <1>2, <1>3, <1>4
-----------------------------------------------------------------------------
(* The steps of a command that touch its session only. *)

LEMMA ZeroIsId0 == 0 \in 0..MaxId
BY Constants

LEMMA IdleType == Idle \in Sessions
BY ZeroIsId0, Zenon DEF Sessions, Idle

LEMMA BeginStep ==
    ASSUME IInv, NEW c \in Clients, NEW cmd \in {"sync", "push", "force"},
           NEW archived \in BOOLEAN, NEW s \in Sessions, s.page = {}, s.acks = {},
           Begin(c, cmd, archived, s)
    PROVE  IInv' /\ NamesKept
<1> DEFINE t == [s EXCEPT !.cmd = cmd, !.archived = archived]
<1>1. t \in Sessions
  BY Zenon DEF Sessions
<1>2. t.page = {} /\ t.acks = {}
  BY DEF Sessions
<1>3. Go(c, t) /\ UNCHANGED <<next, srv, loc>>
  BY DEF Begin
<1> HIDE DEF t
<1> QED BY <1>1, <1>2, <1>3, SessionStep

LEMMA MaxRemoteIdType ==
    ASSUME TypeOK, NEW c \in Clients
    PROVE  MaxRemoteId(c) \in 0..MaxId
<1> DEFINE S == {loc[c][e].rid : e \in Entities} \cup {0}
<1>1. S \in SUBSET (0..MaxId) /\ S # {}
  BY ZeroIsId0 DEF TypeOK, LocalRows
<1>2. Max(S) \in S
  BY <1>1, MaxOfIds
<1> QED BY <1>1, <1>2 DEF MaxRemoteId

LEMMA StartSyncStep ==
    ASSUME IInv, NEW c \in Clients, NEW archived \in BOOLEAN, StartSync(c, archived)
    PROVE  IInv' /\ NamesKept
<1> DEFINE base == MaxRemoteId(c)
           s == [Idle EXCEPT !.pc = IF base = 0 THEN "rows" ELSE "pull",
                             !.base = base, !.cur = base, !.due = ActiveIds]
<1>1. base \in 0..MaxId /\ ActiveIds \in SUBSET Ids
  BY MaxRemoteIdType DEF IInv, ActiveIds, HasStatus
<1>2. s \in Sessions
  <2>1. (IF base = 0 THEN "rows" ELSE "pull") \in {"idle", "pull", "apply", "rows", "push", "done"}
    OBVIOUS
  <2> HIDE DEF base
  <2> QED BY <1>1, <2>1, IdleType, Zenon DEF Sessions
<1>3. s.page = {} /\ s.acks = {}
  BY DEF Idle
<1>4. Begin(c, "sync", archived, s)
  BY DEF StartSync
<1> HIDE DEF s
<1> QED BY <1>2, <1>3, <1>4, BeginStep

LEMMA StartPushStep ==
    ASSUME IInv, NEW c \in Clients, NEW cmd \in {"sync", "push", "force"},
           NEW archived \in BOOLEAN, StartPush(c, cmd, archived)
    PROVE  IInv' /\ NamesKept
<1> DEFINE s == [Idle EXCEPT !.pc = "rows"]
<1>1. s \in Sessions
  BY IdleType, Zenon DEF Sessions
<1>2. s.page = {} /\ s.acks = {}
  BY DEF Idle
<1>3. Begin(c, cmd, archived, s)
  BY DEF StartPush
<1> HIDE DEF s
<1> QED BY <1>1, <1>2, <1>3, BeginStep

\* A page is what the server has.
LEMMA PullPageStep ==
    ASSUME IInv, NEW c \in Clients, PullPage(c)
    PROVE  IInv' /\ NamesKept
<1> DEFINE s == ses[c]
           P == IF ProjectExists THEN NotesSinceId(s.cur) ELSE {}
           page == {<<i, srv[i].ent>> : i \in P}
           cur == IF Full(P) THEN Max(P) ELSE s.cur
           total == IF ProjectExists THEN Cardinality(ActiveIds) ELSE s.total
           t == [s EXCEPT !.pc = "apply", !.page = page, !.more = Full(P),
                          !.cur = cur, !.total = total]
<1>1. s \in Sessions /\ s.cur \in 0..MaxId /\ s.total \in 0..MaxId
      /\ \A a \in s.acks : Names(a[2], a[1])
  BY DEF IInv, TypeOK, Sessions, CarriedIsTrue
<1>2. P \in SUBSET ActiveIds /\ ActiveIds \in SUBSET Ids
  BY DEF NotesSinceId, ActiveIds, HasStatus
<1>3. cur \in 0..MaxId
  <2>1. CASE Full(P)
    <3>1. P # {}
      <4>1. Cardinality({}) = 0 /\ Cardinality(P) = PageSize /\ PageSize # 0
        BY <2>1, FS_EmptySet, Constants DEF Full
      <4> HIDE DEF P
      <4> QED BY <4>1
    <3>2. P \in SUBSET (0..MaxId)
      <4>1. Ids \subseteq 0..MaxId
        BY Constants DEF Ids
      <4> HIDE DEF P
      <4> QED BY <1>2, <4>1
    <3>3. Max(P) \in 0..MaxId
      BY <3>1, <3>2, MaxOfIds
    <3> QED BY <2>1, <3>3
  <2>2. CASE ~Full(P)
    BY <1>1, <2>2
  <2> QED BY <2>1, <2>2
<1>4. total \in 0..MaxId
  BY <1>1, <1>2, IdSets
<1>5. /\ page \in SUBSET (Ids \X Entities)
      /\ \A p \in page : Names(p[1], p[2])
  BY <1>2 DEF IInv, TypeOK, ServerRows, ActiveIds, HasStatus, Names
<1>6. Full(P) \in BOOLEAN
  BY DEF Full
<1>7. Go(c, t) /\ UNCHANGED <<next, srv, loc>>
  BY DEF PullPage
<1> HIDE DEF s, P, page, cur, total
<1>8. t \in Sessions
  BY <1>1, <1>3, <1>4, <1>5, <1>6, Zenon DEF Sessions
<1>9. t.page = page /\ t.acks = s.acks
  BY <1>1 DEF Sessions
<1> HIDE DEF t
<1> QED BY <1>1, <1>5, <1>7, <1>8, <1>9, SessionStep DEF s

LEMMA ApplyEntryStep ==
    ASSUME IInv, NEW c \in Clients, ApplyEntry(c)
    PROVE  IInv' /\ NamesKept
<1> DEFINE s == ses[c]
<1>1. PICK p \in s.page : /\ ApplyRemoteNote(c, p[1], p[2])
                          /\ Go(c, [s EXCEPT !.page = @ \ {p}])
  BY DEF ApplyEntry
<1>2. s \in Sessions /\ s.page \in SUBSET (Ids \X Entities)
  BY DEF IInv, TypeOK, Sessions
<1>3. p[1] \in Ids /\ p[2] \in Entities /\ Names(p[1], p[2])
  BY <1>2 DEF IInv, CarriedIsTrue
<1> DEFINE t == [s EXCEPT !.page = @ \ {p}]
<1>4. t \in Sessions
  <2>1. s.page \ {p} \in SUBSET (Ids \X Entities)
    BY <1>2
  <2> HIDE DEF s
  <2> QED BY <1>2, <2>1, Zenon DEF Sessions
<1>5. t.page = s.page \ {p} /\ t.acks = s.acks
  BY <1>2 DEF Sessions
<1>6. UNCHANGED <<next, srv>>
  BY DEF ApplyEntry
<1>7. Go(c, t)
  BY <1>1
<1> HIDE DEF t
<1>8. /\ ses' \in [Clients -> Sessions]
      /\ \A d \in Clients : /\ ses'[d].page \subseteq ses[d].page
                            /\ ses'[d].acks \subseteq ses[d].acks
  BY <1>4, <1>5, <1>7, GoType DEF IInv
<1>9. CASE \E f \in Entities : loc[c][f].rid = p[1]
  <2>1. UNCHANGED loc
    BY <1>1, <1>9 DEF ApplyRemoteNote
  <2>2. t.page \subseteq s.page
    BY <1>5
  <2>3. /\ \A q \in s.page : Names(q[1], q[2])
        /\ \A a \in s.acks : Names(a[2], a[1])
    BY DEF IInv, CarriedIsTrue
  <2>4. /\ \A q \in t.page : Names(q[1], q[2])
        /\ \A a \in t.acks : Names(a[2], a[1])
    BY <1>5, <2>2, <2>3
  <2> QED BY <1>4, <1>6, <1>7, <2>1, <2>4, SessionStep
<1>10. CASE ~\E f \in Entities : loc[c][f].rid = p[1]
  <2> DEFINE row == IF loc[c][p[2]].st = "none" THEN [st |-> "active", rid |-> p[1]]
                    ELSE SetRemoteId(loc[c][p[2]], p[1])
  <2>1. SetRow(c, p[2], row)
    BY <1>1, <1>10 DEF ApplyRemoteNote
  <2>2. row \in LocalRows /\ (row.rid # 0 => Names(row.rid, p[2]))
    <3>1. loc[c][p[2]] \in LocalRows /\ p[1] \in 0..MaxId
      BY <1>3, Constants DEF IInv, TypeOK, Ids
    <3>2. loc[c][p[2]].rid # 0 => Names(loc[c][p[2]].rid, p[2])
      BY <1>3 DEF IInv, StampIsTrue, Names
    <3> QED BY <1>3, <3>1, <3>2 DEF SetRemoteId, LocalRows
  <2> HIDE DEF row
  <2> QED BY <1>3, <1>6, <1>8, <2>1, <2>2, LocalStep
<1> QED BY <1>9, <1>10

LEMMA PageDoneStep ==
    ASSUME IInv, NEW c \in Clients, PageDone(c)
    PROVE  IInv' /\ NamesKept
<1> DEFINE s == ses[c]
           t1 == [s EXCEPT !.pc = "pull"]
           t2 == [s EXCEPT !.pc = "pull", !.cur = 0, !.repull = TRUE]
           t3 == [s EXCEPT !.pc = IF s.confirm THEN "done" ELSE "rows"]
<1>1. s \in Sessions /\ \A a \in s.acks : Names(a[2], a[1])
  BY DEF IInv, TypeOK, CarriedIsTrue
<1>2. s.page = {} /\ UNCHANGED <<next, srv, loc>>
  BY DEF PageDone
<1>3. t1 \in Sessions /\ t2 \in Sessions /\ t3 \in Sessions
  <2>1. (IF s.confirm THEN "done" ELSE "rows") \in {"idle", "pull", "apply", "rows", "push", "done"}
    OBVIOUS
  <2> HIDE DEF s
  <2>2. t1 \in Sessions
    BY <1>1, Zenon DEF Sessions
  <2>3. t2 \in Sessions
    BY <1>1, ZeroIsId0, Zenon DEF Sessions
  <2>4. t3 \in Sessions
    BY <1>1, <2>1, Zenon DEF Sessions
  <2> QED BY <2>2, <2>3, <2>4
<1>4. \A t \in {t1, t2, t3} : t.page = s.page /\ t.acks = s.acks
  BY <1>1 DEF Sessions
<1>5. \E t \in {t1, t2, t3} : Go(c, t)
  BY DEF PageDone
<1> HIDE DEF t1, t2, t3
<1>6. PICK t \in {t1, t2, t3} : Go(c, t)
  BY <1>5
<1> QED BY <1>1, <1>2, <1>3, <1>4, <1>6, SessionStep

LEMMA TakeRowsStep ==
    ASSUME IInv, NEW c \in Clients, TakeRows(c)
    PROVE  IInv' /\ NamesKept
<1> DEFINE s == ses[c]
           offer == {e \in Entities : /\ loc[c][e].st = "active"
                                      /\ s.cmd = "force" \/ loc[c][e].rid = 0}
           tombs == IF s.archived THEN Tombs(c) ELSE {}
           t == [s EXCEPT !.pc = "push", !.offer = offer, !.tombs = tombs]
<1>1. /\ s \in Sessions
      /\ \A p \in s.page : Names(p[1], p[2])
      /\ \A a \in s.acks : Names(a[2], a[1])
  BY DEF IInv, TypeOK, CarriedIsTrue
<1>2. offer \in SUBSET Entities /\ tombs \in SUBSET Ids
  BY Constants DEF IInv, TypeOK, LocalRows, Tombs, Ids
<1>3. Go(c, t) /\ UNCHANGED <<next, srv, loc>>
  BY DEF TakeRows
<1> HIDE DEF s, offer, tombs
<1>4. t \in Sessions
  BY <1>1, <1>2, Zenon DEF Sessions
<1>5. t.page = s.page /\ t.acks = s.acks
  BY <1>1 DEF Sessions
<1> HIDE DEF t
<1> QED BY <1>1, <1>3, <1>4, <1>5, SessionStep

\* Whatever ends or interrupts a push carries nothing on.
LEMMA InterruptType ==
    ASSUME NEW s \in Sessions, NEW r \in {"ok", "interrupted", "refused"}
    PROVE  /\ Interrupt(s, r) \in Sessions
           /\ Interrupt(s, r).page = s.page /\ Interrupt(s, r).acks = s.acks
           /\ Interrupt(s, r).offer = {} /\ Interrupt(s, r).tombs = {}
           /\ Interrupt(s, r).result = r /\ Interrupt(s, r).cmd = s.cmd
           /\ Interrupt(s, r).pc = s.pc /\ Interrupt(s, r).disturbed = s.disturbed
           /\ Interrupt(s, r).archived = s.archived
<1>1. Interrupt(s, r) \in Sessions
  BY Zenon DEF Interrupt, Sessions
<1> QED BY <1>1 DEF Interrupt, Sessions

LEMMA PushUnsentStep ==
    ASSUME IInv, NEW c \in Clients, PushUnsent(c)
    PROVE  IInv' /\ NamesKept
<1>1. /\ ses[c] \in Sessions
      /\ \A p \in ses[c].page : Names(p[1], p[2])
      /\ \A a \in ses[c].acks : Names(a[2], a[1])
  BY DEF IInv, TypeOK, CarriedIsTrue
<1>2. Go(c, Interrupt(ses[c], "interrupted")) /\ UNCHANGED <<next, srv, loc>>
  BY DEF PushUnsent
<1> QED BY <1>1, <1>2, InterruptType, SessionStep

LEMMA PushDoneStep ==
    ASSUME IInv, NEW c \in Clients, PushDone(c)
    PROVE  IInv' /\ NamesKept
<1> DEFINE s == ses[c]
           t1 == [s EXCEPT !.pc = "done"]
           t2 == [s EXCEPT !.pc = "pull", !.confirm = TRUE, !.repull = FALSE,
                           !.cur = s.base, !.total = 0, !.more = FALSE]
<1>1. /\ s \in Sessions /\ s.base \in 0..MaxId
      /\ \A p \in s.page : Names(p[1], p[2])
      /\ \A a \in s.acks : Names(a[2], a[1])
  BY DEF IInv, TypeOK, CarriedIsTrue, Sessions
<1>2. /\ Go(c, t1) \/ Go(c, t2)
      /\ UNCHANGED <<next, srv, loc>>
  BY DEF PushDone
<1> HIDE DEF s
<1>3. t1 \in Sessions /\ t2 \in Sessions
  <2>1. t1 \in Sessions
    BY <1>1, Zenon DEF Sessions
  <2>2. t2 \in Sessions
    BY <1>1, ZeroIsId0, Zenon DEF Sessions
  <2> QED BY <2>1, <2>2
<1>4. \A t \in {t1, t2} : t.page = s.page /\ t.acks = s.acks
  BY <1>1 DEF Sessions
<1> HIDE DEF t1, t2
<1>5. PICK t \in {t1, t2} : Go(c, t)
  BY <1>2
<1> QED BY <1>1, <1>2, <1>3, <1>4, <1>5, SessionStep

LEMMA IdleStep ==
    ASSUME IInv, NEW c \in Clients, Go(c, Idle), UNCHANGED <<next, srv, loc>>
    PROVE  IInv' /\ NamesKept
<1>1. Idle.page = {} /\ Idle.acks = {}
  BY DEF Idle
<1> QED BY <1>1, IdleType, SessionStep

-----------------------------------------------------------------------------
(* The steps of a local store. *)

LEMMA AddStep ==
    ASSUME IInv, NEW c \in Clients, NEW e \in Entities, Add(c, e)
    PROVE  IInv' /\ NamesKept
<1> DEFINE row == [st |-> "active", rid |-> 0]
<1>1. row \in LocalRows /\ row.rid = 0
  BY ZeroIsId0 DEF LocalRows
<1>2. /\ ses' \in [Clients -> Sessions]
      /\ \A d \in Clients : /\ ses'[d].page \subseteq ses[d].page
                            /\ ses'[d].acks \subseteq ses[d].acks
  BY DisturbKeeps DEF IInv, Add
<1>3. SetRow(c, e, row) /\ UNCHANGED <<next, srv>>
  BY DEF Add
<1> HIDE DEF row
<1> QED BY <1>1, <1>2, <1>3, LocalStep

LEMMA ArchiveStep ==
    ASSUME IInv, NEW c \in Clients, NEW e \in Entities, Archive(c, e)
    PROVE  IInv' /\ NamesKept
<1> DEFINE row == [loc[c][e] EXCEPT !.st = "archived"]
<1>1. row \in LocalRows /\ row.rid = loc[c][e].rid
  BY DEF IInv, TypeOK, LocalRows
<1>2. row.rid # 0 => Names(row.rid, e)
  BY <1>1 DEF IInv, StampIsTrue, Names
<1>3. SetRow(c, e, row) /\ UNCHANGED <<next, srv, ses>>
  BY DEF Archive
<1> HIDE DEF row
<1> QED BY <1>1, <1>2, <1>3, LocalStep DEF IInv, TypeOK

LEMMA StampStep ==
    ASSUME IInv, NEW c \in Clients, Stamp(c)
    PROVE  IInv' /\ NamesKept
<1> DEFINE s == ses[c]
<1>1. PICK a \in s.acks : /\ SetRow(c, a[1], SetRemoteId(loc[c][a[1]], a[2]))
                          /\ Go(c, [s EXCEPT !.acks = @ \ {a}])
  BY DEF Stamp
<1>2. s \in Sessions /\ s.acks \in SUBSET (Entities \X Ids)
  BY DEF IInv, TypeOK, Sessions
<1>3. a[1] \in Entities /\ a[2] \in Ids /\ Names(a[2], a[1])
  BY <1>2 DEF IInv, CarriedIsTrue
<1> DEFINE t == [s EXCEPT !.acks = @ \ {a}]
           row == SetRemoteId(loc[c][a[1]], a[2])
<1>4. t \in Sessions
  <2>1. s.acks \ {a} \in SUBSET (Entities \X Ids)
    BY <1>2
  <2> HIDE DEF s
  <2> QED BY <1>2, <2>1, Zenon DEF Sessions
<1>5. t.page = s.page /\ t.acks = s.acks \ {a}
  BY <1>2 DEF Sessions
<1>6. Go(c, t) /\ SetRow(c, a[1], row) /\ UNCHANGED <<next, srv>>
  BY <1>1 DEF Stamp
<1>7. row \in LocalRows /\ (row.rid # 0 => Names(row.rid, a[1]))
  <2>1. loc[c][a[1]] \in LocalRows /\ a[2] \in 0..MaxId
    BY <1>3, Constants DEF IInv, TypeOK, Ids
  <2>2. loc[c][a[1]].rid # 0 => Names(loc[c][a[1]].rid, a[1])
    BY <1>3 DEF IInv, StampIsTrue, Names
  <2> QED BY <1>3, <2>1, <2>2 DEF SetRemoteId, LocalRows
<1> HIDE DEF t, row
<1>8. /\ ses' \in [Clients -> Sessions]
      /\ \A d \in Clients : /\ ses'[d].page \subseteq ses[d].page
                            /\ ses'[d].acks \subseteq ses[d].acks
  BY <1>4, <1>5, <1>6, GoType DEF IInv
<1> QED BY <1>3, <1>6, <1>7, <1>8, LocalStep

-----------------------------------------------------------------------------
(* A request to the server. *)

\* What a request may create: entries of its chunk that have no active row and
\* whose INSERT breaks no index; all of the missing ones if it is accepted.
LEMMA OutcomeFacts ==
    ASSUME NEW c \in Clients, NEW K, NEW sup, NEW o \in Outcomes(c, K, sup)
    PROVE  /\ o.ok \in BOOLEAN
           /\ DOMAIN o.ids \subseteq Missing(c, K)
           /\ \A e \in DOMAIN o.ids : ~Collides(c, e, sup[e])
           /\ o.ok => DOMAIN o.ids = Missing(c, K)
           /\ ~o.ok => \E e \in Missing(c, K) : Collides(c, e, sup[e])
           /\ o.ids \in Assignments(sup, DOMAIN o.ids)
<1> DEFINE bad == {e \in Missing(c, K) : Collides(c, e, sup[e])}
           done == IF bad = {} THEN {Missing(c, K)} ELSE SUBSET (Missing(c, K) \ bad)
<1>1. PICK D \in done : o \in {[ok |-> bad = {}, ids |-> f] : f \in Assignments(sup, D)}
  BY Zenon DEF Outcomes
<1>2. PICK f \in Assignments(sup, D) : o = [ok |-> bad = {}, ids |-> f]
  BY <1>1
<1>3. DOMAIN f = D
  BY <1>2 DEF Assignments
<1>4. (o.ok <=> bad = {}) /\ o.ok \in BOOLEAN /\ o.ids = f
  BY <1>2
<1>5. CASE bad = {}
  <2>1. D = Missing(c, K)
    BY <1>5
  <2> QED BY <1>2, <1>3, <1>4, <1>5, <2>1
<1>6. CASE bad # {}
  <2>1. D \subseteq Missing(c, K) /\ \A e \in D : ~Collides(c, e, sup[e])
    BY <1>6
  <2> QED BY <1>2, <1>3, <1>4, <1>6, <2>1
<1> QED BY <1>5, <1>6

\* Supplied ids are 0 or the minted id of the entry they are sent with.
TrueIds(sup) ==
    /\ sup \in [Entities -> 0..MaxId]
    /\ \A e \in Entities : sup[e] # 0 => sup[e] \in Ids /\ sup[e] <= next /\ Names(sup[e], e)

\* The ids a command sends along are true stamps.
LEMMA SuppliedFacts ==
    ASSUME IInv, NEW c \in Clients
    PROVE  TrueIds(SuppliedIds(c))
<1>1. \A e \in Entities : loc[c][e].rid \in 0..MaxId
  BY DEF IInv, TypeOK, LocalRows
<1>2. \A e \in Entities : loc[c][e].rid # 0 =>
         loc[c][e].rid \in Ids /\ Names(loc[c][e].rid, e)
  BY <1>1, Constants DEF IInv, StampIsTrue, Names, Ids
<1>3. \A i \in Ids : \A e : Names(i, e) => i <= next
  BY DEF IInv, Minted, Names
<1> QED BY <1>1, <1>2, <1>3, ZeroIsId0 DEF SuppliedIds, Supplied, TrueIds

\* How many ids are minted once the rows of D are stored under f.
NextAfter(D, f) == next + Cardinality({e \in D : f[e] > next})

\* The ids of the created rows: distinct, and each either the entry's true stamp or
\* fresh; and the fresh ones are the next ones in a row.
LEMMA AssignmentFacts ==
    ASSUME IInv, NEW sup, TrueIds(sup), NEW D \in SUBSET Entities,
           NEW f \in Assignments(sup, D)
    PROVE  /\ f \in [D -> Ids] /\ IsInjective(f)
           /\ \A e \in D : IF sup[e] = 0 THEN f[e] > next
                           ELSE /\ f[e] = sup[e]
                                /\ f[e] <= next /\ Names(f[e], e)
           /\ NextAfter(D, f) \in 0..MaxId /\ NextAfter(D, f) >= next
           /\ \A i \in Ids : i > next => (i <= NextAfter(D, f) <=> \E e \in D : f[e] = i)
<1> DEFINE M == {e \in D : sup[e] = 0}
<1>1. /\ f \in [D -> Ids] /\ IsInjective(f)
      /\ \A e \in D : IF e \in M THEN f[e] \in (next + 1)..(next + Cardinality(M))
                                 ELSE f[e] = sup[e]
  BY DEF Assignments
<1>2. \A e \in D : sup[e] # 0 => sup[e] <= next /\ Names(sup[e], e)
  BY DEF TrueIds
<1>3. IsFiniteSet(M)
  <2>1. M \in SUBSET Entities
    OBVIOUS
  <2> HIDE DEF M
  <2> QED BY <2>1, FS_Subset, Constants
<1>4. next \in 0..MaxId
  BY DEF IInv, TypeOK
<1> DEFINE g == [e \in M |-> f[e]]
<1>5. /\ g \in [M -> Ids] /\ IsInjective(g)
      /\ \A e \in M : g[e] \in (next + 1)..(next + Cardinality(M))
  <2>1. M \subseteq D
    OBVIOUS
  <2> HIDE DEF M
  <2> QED BY <1>1, <2>1 DEF IsInjective
<1> DEFINE n == next + Cardinality(M)
<1>6. /\ Cardinality(M) \in Nat /\ n \in 0..MaxId
      /\ \A i \in (next + 1)..n : \E e \in M : g[e] = i
  <2> HIDE DEF M, g
  <2> QED BY <1>3, <1>4, <1>5, FreshIdsFill
<1>7. \A e \in D : IF sup[e] = 0 THEN f[e] \in (next + 1)..n
                   ELSE f[e] = sup[e] /\ f[e] <= next /\ Names(f[e], e)
  <2> QED BY <1>1, <1>2
<1>8. {e \in D : f[e] > next} = M
  <2>1. \A e \in D : f[e] > next <=> sup[e] = 0
    <3> HIDE DEF n
    <3> QED BY <1>1, <1>4, <1>6, <1>7, Constants DEF Ids
  <2> QED BY <2>1
<1>9. \A i \in Ids : i > next => (i <= n <=> \E e \in D : f[e] = i)
  <2> SUFFICES ASSUME NEW i \in Ids, i > next
               PROVE  i <= n <=> \E e \in D : f[e] = i
    OBVIOUS
  <2>1. i \in Nat /\ next \in Nat
    BY <1>4, Constants DEF Ids
  <2>2. ASSUME i <= n PROVE \E e \in D : f[e] = i
    <3>1. i \in (next + 1)..n
      <4> HIDE DEF n
      <4> QED BY <1>6, <2>1, <2>2
    <3>2. PICK e \in M : g[e] = i
      BY <1>6, <3>1
    <3> QED BY <3>2
  <2>3. ASSUME NEW e \in D, f[e] = i PROVE i <= n
    <3> HIDE DEF n, M, g
    <3>1. sup[e] = 0
      BY <1>7, <2>1, <2>3
    <3>2. i \in (next + 1)..n
      BY <1>7, <2>3, <3>1
    <3> QED BY <1>6, <2>1, <3>2
  <2> QED BY <2>2, <2>3
<1>10. n >= next
  BY <1>4, <1>6
<1>11. \A e \in D : IF sup[e] = 0 THEN f[e] > next
                    ELSE f[e] = sup[e] /\ f[e] <= next /\ Names(f[e], e)
  <2> QED BY <1>4, <1>6, <1>7
<1>12. NextAfter(D, f) = n
  BY <1>8 DEF NextAfter
<1> HIDE DEF n
<1> QED BY <1>1, <1>6, <1>9, <1>10, <1>11, <1>12

\* The created rows carry their entry and its uuid; all others stay as they are.
LEMMA InsertFacts ==
    ASSUME IInv, NEW c \in Clients, NEW sup, TrueIds(sup), NEW D \in SUBSET Entities,
           NEW f \in Assignments(sup, D), Insert(c, D, f),
           \A e \in D : ~Collides(c, e, sup[e])
    PROVE  /\ next' \in 0..MaxId /\ srv' \in [Ids -> ServerRows]
           /\ Minted' /\ ExtIsTrue' /\ NamesKept
           /\ \A e \in D : /\ f[e] \in Ids /\ f[e] \notin Stored
                           /\ srv'[f[e]] = [st |-> "active", ent |-> e, ext |-> <<c, e>>]
           /\ \A i \in Ids : (\A e \in D : f[e] # i) => srv'[i] = srv[i]
<1>1. /\ f \in [D -> Ids] /\ \A a, b \in D : f[a] = f[b] => a = b
      /\ \A e \in D : IF sup[e] = 0 THEN f[e] > next
                      ELSE f[e] = sup[e] /\ f[e] <= next /\ Names(f[e], e)
  <2>1. /\ f \in [D -> Ids] /\ IsInjective(f)
        /\ \A e \in D : IF sup[e] = 0 THEN f[e] > next
                        ELSE f[e] = sup[e] /\ f[e] <= next /\ Names(f[e], e)
    BY AssignmentFacts
  <2> QED BY <2>1 DEF IsInjective
<1>2. /\ next' \in 0..MaxId /\ next' >= next
      /\ \A i \in Ids : i > next => (i <= next' <=> \E e \in D : f[e] = i)
  <2>1. next' = NextAfter(D, f)
    BY DEF Insert, NextAfter
  <2> QED BY <2>1, AssignmentFacts
<1>3. /\ srv \in [Ids -> ServerRows] /\ next \in 0..MaxId
      /\ \A i \in Ids : srv[i].st # "none" <=> i <= next
  BY DEF IInv, TypeOK, Minted
<1>4. /\ DOMAIN srv' = Ids
      /\ \A i \in Ids :
         srv'[i] = IF \E e \in D : f[e] = i
                   THEN [st |-> "active", ent |-> CHOOSE e \in D : f[e] = i,
                         ext |-> <<c, CHOOSE e \in D : f[e] = i>>]
                   ELSE srv[i]
  BY DEF Insert
<1>5. \A e \in D : srv'[f[e]] = [st |-> "active", ent |-> e, ext |-> <<c, e>>]
  <2> SUFFICES ASSUME NEW e \in D
               PROVE  srv'[f[e]] = [st |-> "active", ent |-> e, ext |-> <<c, e>>]
    OBVIOUS
  <2>1. (CHOOSE d \in D : f[d] = f[e]) = e
    BY <1>1
  <2> QED BY <1>1, <1>4, <2>1
<1>6. \A i \in Ids : (\A e \in D : f[e] # i) => srv'[i] = srv[i]
  BY <1>4
<1>7. srv' \in [Ids -> ServerRows]
  <2>1. \A i \in Ids : srv'[i] \in ServerRows
    <3> SUFFICES ASSUME NEW i \in Ids PROVE srv'[i] \in ServerRows
      OBVIOUS
    <3>1. CASE \E e \in D : f[e] = i
      <4>1. PICK e \in D : f[e] = i
        BY <3>1
      <4>2. [st |-> "active", ent |-> e, ext |-> <<c, e>>] \in ServerRows
        BY DEF ServerRows
      <4> QED BY <1>5, <4>1, <4>2
    <3>2. CASE ~\E e \in D : f[e] = i
      BY <1>3, <1>6, <3>2
    <3> QED BY <3>1, <3>2
  <2>2. srv' = [i \in Ids |-> srv'[i]]
    BY DEF Insert
  <2> QED BY <2>1, <2>2
<1>8. \A i \in Ids : (\E e \in D : f[e] = i) => srv'[i].st = "active"
  <2> SUFFICES ASSUME NEW i \in Ids, NEW e \in D, f[e] = i
               PROVE  srv'[i].st = "active"
    OBVIOUS
  <2>1. srv'[i] = [st |-> "active", ent |-> e, ext |-> <<c, e>>]
    BY <1>5
  <2> QED BY <2>1
<1>9. Minted'
  <2> SUFFICES ASSUME NEW i \in Ids PROVE srv'[i].st # "none" <=> i <= next'
    BY DEF Minted
  <2>1. i \in Nat /\ next \in Nat /\ next' \in Nat
    BY <1>2, <1>3, Constants DEF Ids
  <2>2. CASE \E e \in D : f[e] = i
    <3>1. srv'[i].st # "none"
      BY <1>8, <2>2
    <3>2. i > next \/ i <= next
      BY <2>1
    <3>3. i <= next'
      BY <1>2, <2>1, <2>2, <3>2
    <3> QED BY <3>1, <3>3
  <2>3. CASE ~\E e \in D : f[e] = i
    <3>1. srv'[i].st # "none" <=> i <= next
      BY <1>3, <1>6, <2>3
    <3>2. ~(i > next /\ i <= next')
      BY <1>2, <2>3
    <3> QED BY <1>2, <2>1, <3>1, <3>2
  <2> QED BY <2>2, <2>3
<1>10. NamesKept
  <2> SUFFICES ASSUME NEW i \in Ids, srv[i].st # "none"
               PROVE  srv'[i].st # "none" /\ srv'[i].ent = srv[i].ent
    BY DEF NamesKept
  <2>1. CASE \E e \in D : f[e] = i
    <3>1. PICK e \in D : f[e] = i
      BY <2>1
    <3>2. ~(f[e] > next)
      BY <1>3, <3>1, Constants DEF Ids
    <3>3. srv[i].ent = e
      BY <1>1, <3>1, <3>2 DEF Names
    <3>4. srv'[i] = [st |-> "active", ent |-> e, ext |-> <<c, e>>]
      BY <1>5, <3>1
    <3> QED BY <3>3, <3>4
  <2>2. CASE ~\E e \in D : f[e] = i
    BY <1>6, <2>2
  <2> QED BY <2>1, <2>2
<1>11. ExtIsTrue'
  <2> SUFFICES ASSUME NEW i \in Ids, NEW d \in Clients, NEW e \in Entities,
                      srv'[i].ext = <<d, e>>
               PROVE  srv'[i].st # "none" /\ srv'[i].ent = e
    BY DEF ExtIsTrue, Names
  <2>1. CASE \E g \in D : f[g] = i
    <3>1. PICK g \in D : f[g] = i
      BY <2>1
    <3>2. srv'[i] = [st |-> "active", ent |-> g, ext |-> <<c, g>>]
      BY <1>5, <3>1
    <3> QED BY <3>2
  <2>2. CASE ~\E g \in D : f[g] = i
    BY <1>6, <2>2 DEF IInv, ExtIsTrue, Names
  <2> QED BY <2>1, <2>2
<1>12. \A e \in D : f[e] \notin Stored
  <2> SUFFICES ASSUME NEW e \in D, f[e] \in Stored PROVE FALSE
    OBVIOUS
  <2>1. srv[f[e]].st # "none"
    BY DEF Stored, HasStatus
  <2>2. ~(f[e] > next)
    BY <1>1, <1>3, <2>1, Constants DEF Ids
  <2>3. f[e] = sup[e]
    BY <1>1, <2>2
  <2>4. Collides(c, e, sup[e])
    BY <2>3 DEF Collides
  <2> QED BY <2>4
<1> QED BY <1>1, <1>2, <1>5, <1>6, <1>7, <1>9, <1>10, <1>11, <1>12

\* The results of an accepted request name what the server stored, now or before.
LEMMA ResultFacts ==
    ASSUME IInv, NEW c \in Clients, NEW sup, TrueIds(sup), NEW K \in SUBSET Entities,
           NEW D, D \subseteq Missing(c, K), NEW f \in Assignments(sup, D), Insert(c, D, f),
           \A e \in D : ~Collides(c, e, sup[e])
    PROVE  /\ Results(c, K, f) \in SUBSET (Entities \X Ids)
           /\ \A a \in Results(c, K, f) :
                 /\ a[1] \in K /\ Names(a[2], a[1])'
                 /\ srv'[a[2]].st = "active"
<1>1. D \subseteq K /\ D \in SUBSET Entities
  BY DEF Missing
<1>2. /\ \A e \in D : f[e] \in Ids /\ srv'[f[e]] = [st |-> "active", ent |-> e, ext |-> <<c, e>>]
      /\ \A i \in Ids : (\A e \in D : f[e] # i) => srv'[i] = srv[i]
      /\ \A e \in D : f[e] \notin Stored
  <2>1. /\ \A e \in D : /\ f[e] \in Ids /\ f[e] \notin Stored
                       /\ srv'[f[e]] = [st |-> "active", ent |-> e, ext |-> <<c, e>>]
        /\ \A i \in Ids : (\A e \in D : f[e] # i) => srv'[i] = srv[i]
    BY <1>1, InsertFacts
  <2> QED BY <2>1
<1>3. DOMAIN f = D
  BY DEF Assignments
<1> SUFFICES ASSUME NEW a \in Results(c, K, f)
             PROVE  /\ a \in Entities \X Ids /\ a[1] \in K /\ Names(a[2], a[1])'
                    /\ srv'[a[2]].st = "active"
  BY Zenon
<1>4. CASE a \in {<<e, f[e]>> : e \in DOMAIN f}
  <2>1. PICK e \in D : a = <<e, f[e]>>
    BY <1>3, <1>4
  <2>2. srv'[f[e]].st = "active" /\ srv'[f[e]].ent = e
    <3>1. srv'[f[e]] = [st |-> "active", ent |-> e, ext |-> <<c, e>>]
      BY <1>2
    <3> QED BY <3>1
  <2>3. a[1] = e /\ a[2] = f[e]
    BY <2>1
  <2> QED BY <1>1, <1>2, <2>1, <2>2, <2>3 DEF Names
<1>5. CASE a \in {r \in (K \ DOMAIN f) \X Ids : r[2] \in FindByRemoteId(<<c, r[1]>>)}
  <2>1. /\ a[1] \in K /\ a[1] \in Entities /\ a[2] \in Ids /\ a \in Entities \X Ids
        /\ a[2] \in FindByRemoteId(<<c, a[1]>>)
    BY <1>5
  <2>2. srv[a[2]].st = "active" /\ srv[a[2]].ext = <<c, a[1]>>
    BY <2>1 DEF FindByRemoteId, ActiveIds, HasStatus
  <2>3. srv[a[2]].ent = a[1]
    BY <2>1, <2>2 DEF IInv, ExtIsTrue, Names
  <2>4. a[2] \in Stored
    BY <2>1, <2>2 DEF Stored, HasStatus
  <2>5. srv'[a[2]] = srv[a[2]]
    BY <1>2, <2>1, <2>4
  <2> QED BY <2>1, <2>2, <2>3, <2>5 DEF Names
<1> QED BY <1>4, <1>5 DEF Results

LEMMA PushAnsweredStep ==
    ASSUME IInv, NEW c \in Clients, PushAnswered(c)
    PROVE  IInv' /\ NamesKept
<1> DEFINE s == ses[c]
           sup == SuppliedIds(c)
<1>0. PICK K \in Chunks(c) : \E o \in Outcomes(c, K, sup) :
         /\ Insert(c, DOMAIN o.ids, o.ids)
         /\ Go(c, IF o.ok THEN [s EXCEPT !.offer = @ \ K, !.acks = Results(c, K, o.ids)]
                  ELSE Interrupt(s, "refused"))
  BY DEF PushAnswered
<1>1. PICK o \in Outcomes(c, K, sup) :
         /\ Insert(c, DOMAIN o.ids, o.ids)
         /\ Go(c, IF o.ok THEN [s EXCEPT !.offer = @ \ K, !.acks = Results(c, K, o.ids)]
                  ELSE Interrupt(s, "refused"))
  BY <1>0
<1> DEFINE D == DOMAIN o.ids
           t == [s EXCEPT !.offer = @ \ K, !.acks = Results(c, K, o.ids)]
<1>2. s \in Sessions /\ s.offer \in SUBSET Entities /\ s.acks = {}
  BY DEF PushAnswered, Sending, IInv, TypeOK, Sessions
<1>3. K \in SUBSET Entities
  BY <1>2 DEF Chunks
<1>4. /\ D \subseteq Missing(c, K) /\ D \in SUBSET Entities
      /\ \A e \in D : ~Collides(c, e, sup[e])
      /\ o.ids \in Assignments(sup, D)
      /\ Insert(c, D, o.ids)
  BY <1>1, <1>3, OutcomeFacts DEF Missing
<1> HIDE DEF D
<1>5. /\ next' \in 0..MaxId /\ srv' \in [Ids -> ServerRows]
      /\ Minted' /\ ExtIsTrue' /\ NamesKept
  BY <1>4, SuppliedFacts, InsertFacts
<1>6. /\ Results(c, K, o.ids) \in SUBSET (Entities \X Ids)
      /\ \A a \in Results(c, K, o.ids) : Names(a[2], a[1])'
  BY <1>3, <1>4, SuppliedFacts, ResultFacts
<1>7. t \in Sessions /\ t.page = s.page /\ t.acks = Results(c, K, o.ids)
  <2>1. s.offer \ K \in SUBSET Entities
    BY <1>2
  <2> HIDE DEF s
  <2>2. t \in Sessions
    BY <1>2, <1>6, <2>1, Zenon DEF Sessions
  <2> QED BY <1>2, <2>2 DEF Sessions
<1>8. /\ Interrupt(s, "refused") \in Sessions
      /\ Interrupt(s, "refused").page = s.page /\ Interrupt(s, "refused").acks = s.acks
  BY <1>2, InterruptType
<1> HIDE DEF t
<1>9. /\ ses' \in [Clients -> Sessions]
      /\ ses'[c] \in {t, Interrupt(s, "refused")}
      /\ \A d \in Clients \ {c} : ses'[d] = ses[d]
  <2>1. Go(c, t) \/ Go(c, Interrupt(s, "refused"))
    BY <1>1 DEF t
  <2> QED BY <1>7, <1>8, <2>1, GoType DEF IInv
<1>10. \A d \in Clients :
          /\ ses'[d].page \subseteq ses[d].page
          /\ \A a \in ses'[d].acks : a \in ses[d].acks \/ Names(a[2], a[1])'
  <2> SUFFICES ASSUME NEW d \in Clients
               PROVE  /\ ses'[d].page \subseteq ses[d].page
                      /\ \A a \in ses'[d].acks : a \in ses[d].acks \/ Names(a[2], a[1])'
    OBVIOUS
  <2>1. CASE d # c
    BY <1>9, <2>1
  <2>2. CASE d = c /\ ses'[c] = t
    BY <1>6, <1>7, <2>2
  <2>3. CASE d = c /\ ses'[c] = Interrupt(s, "refused")
    BY <1>8, <2>3
  <2> QED BY <1>9, <2>1, <2>2, <2>3
<1>11. UNCHANGED loc
  BY DEF PushAnswered
<1> QED BY <1>5, <1>9, <1>10, <1>11, ServerStep

LEMMA PushUnansweredStep ==
    ASSUME IInv, NEW c \in Clients, PushUnanswered(c)
    PROVE  IInv' /\ NamesKept
<1> DEFINE s == ses[c]
           sup == SuppliedIds(c)
<1>0. PICK K \in Chunks(c) : \E o \in Outcomes(c, K, sup) : Insert(c, DOMAIN o.ids, o.ids)
  BY DEF PushUnanswered
<1>1. PICK o \in Outcomes(c, K, sup) : Insert(c, DOMAIN o.ids, o.ids)
  BY <1>0
<1> DEFINE D == DOMAIN o.ids
<1>2. s \in Sessions /\ s.offer \in SUBSET Entities
  BY DEF IInv, TypeOK, Sessions
<1>3. /\ D \in SUBSET Entities
      /\ \A e \in D : ~Collides(c, e, sup[e])
      /\ o.ids \in Assignments(sup, D)
      /\ Insert(c, D, o.ids)
  BY <1>1, <1>2, OutcomeFacts DEF Missing, Chunks
<1> HIDE DEF D
<1>4. /\ next' \in 0..MaxId /\ srv' \in [Ids -> ServerRows]
      /\ Minted' /\ ExtIsTrue' /\ NamesKept
  BY <1>3, SuppliedFacts, InsertFacts
<1>5. /\ Interrupt(s, "interrupted") \in Sessions
      /\ Interrupt(s, "interrupted").page = s.page
      /\ Interrupt(s, "interrupted").acks = s.acks
  BY <1>2, InterruptType
<1>6. Go(c, Interrupt(s, "interrupted")) /\ UNCHANGED loc
  BY DEF PushUnanswered
<1>7. /\ ses' \in [Clients -> Sessions]
      /\ \A d \in Clients : ses'[d].page = ses[d].page /\ ses'[d].acks = ses[d].acks
  BY <1>5, <1>6, GoType DEF IInv
<1> QED BY <1>4, <1>6, <1>7, ServerStep

LEMMA TombstoneStep ==
    ASSUME IInv, NEW c \in Clients, Tombstone(c)
    PROVE  IInv' /\ NamesKept
<1> DEFINE s == ses[c]
<1>1. PICK i \in s.tombs :
         /\ srv' = IF i \in Stored THEN [srv EXCEPT ![i].st = "deleted"] ELSE srv
         /\ Go(c, [s EXCEPT !.tombs = @ \ {i}])
  BY DEF Tombstone
<1> DEFINE t == [s EXCEPT !.tombs = @ \ {i}]
<1>2. s \in Sessions /\ s.tombs \in SUBSET Ids
  BY DEF IInv, TypeOK, Sessions
<1>3. t \in Sessions /\ t.page = s.page /\ t.acks = s.acks
  <2>1. s.tombs \ {i} \in SUBSET Ids
    BY <1>2
  <2> HIDE DEF s
  <2>2. t \in Sessions
    BY <1>2, <2>1, Zenon DEF Sessions
  <2> QED BY <1>2, <2>2 DEF Sessions
<1>4. Go(c, t)
  BY <1>1
<1> HIDE DEF t
<1>5. /\ ses' \in [Clients -> Sessions]
      /\ \A d \in Clients : ses'[d].page = ses[d].page /\ ses'[d].acks = ses[d].acks
  BY <1>3, <1>4, GoType DEF IInv
<1>6. /\ srv' \in [Ids -> ServerRows] /\ UNCHANGED <<next, loc>>
      /\ \A j \in Ids : /\ srv'[j].ent = srv[j].ent /\ srv'[j].ext = srv[j].ext
                        /\ srv'[j].st # "none" <=> srv[j].st # "none"
  <2>1. i \in Ids /\ srv \in [Ids -> ServerRows]
    BY <1>2 DEF IInv, TypeOK
  <2>2. [srv[i] EXCEPT !.st = "deleted"] \in ServerRows
    BY <2>1 DEF ServerRows
  <2>3. UNCHANGED <<next, loc>>
    BY DEF Tombstone
  <2>4. CASE i \in Stored
    <3>1. srv' = [srv EXCEPT ![i] = [srv[i] EXCEPT !.st = "deleted"]]
      BY <1>1, <2>4
    <3>2. srv[i].st # "none"
      BY <2>4 DEF Stored, HasStatus
    <3>3. \A j \in Ids : srv'[j] = IF j = i THEN [srv[i] EXCEPT !.st = "deleted"] ELSE srv[j]
      BY <2>1, <3>1
    <3>4. /\ [srv[i] EXCEPT !.st = "deleted"].st = "deleted"
          /\ [srv[i] EXCEPT !.st = "deleted"].ent = srv[i].ent
          /\ [srv[i] EXCEPT !.st = "deleted"].ext = srv[i].ext
      BY <2>1 DEF ServerRows
    <3> QED BY <2>1, <2>2, <2>3, <3>1, <3>2, <3>3, <3>4
  <2>5. CASE i \notin Stored
    BY <1>1, <2>1, <2>3, <2>5
  <2> QED BY <2>4, <2>5
<1>7. next' \in 0..MaxId /\ Minted' /\ ExtIsTrue' /\ NamesKept
  BY <1>6 DEF IInv, TypeOK, Minted, ExtIsTrue, Names, NamesKept
<1> QED BY <1>5, <1>6, <1>7, ServerStep

-----------------------------------------------------------------------------
(* The server's other callers. *)

LEMMA TeamAddStep ==
    ASSUME IInv, NEW e \in Entities, TeamAdd(e)
    PROVE  IInv' /\ NamesKept
<1> DEFINE row == [st |-> "active", ent |-> e, ext |-> NoExt]
<1>1. /\ next' = next + 1 /\ UNCHANGED <<loc, ses>>
      /\ srv' = [srv EXCEPT ![next + 1] = row]
      /\ Room(1)
  BY DEF TeamAdd
<1>2. next + 1 \in Ids /\ next + 1 \in 0..MaxId /\ next \in Nat
  <2> DEFINE n == Cardinality(Clients \X Entities)
  <2>1. n \in Nat
    BY FS_Product, FS_CardinalityType, Constants
  <2>2. next + 1 + n <= MaxId
    BY <1>1 DEF Room
  <2> HIDE DEF n
  <2> QED BY <2>1, <2>2, Constants DEF IInv, TypeOK, Ids
<1>3. row \in ServerRows
  BY DEF ServerRows
<1>4. /\ srv' \in [Ids -> ServerRows]
      /\ \A i \in Ids : srv'[i] = IF i = next + 1 THEN row ELSE srv[i]
  BY <1>1, <1>2, <1>3 DEF IInv, TypeOK
<1>5. row.st = "active" /\ row.ext = NoExt
  OBVIOUS
<1> HIDE DEF row
<1>6. Minted'
  <2> SUFFICES ASSUME NEW i \in Ids PROVE srv'[i].st # "none" <=> i <= next + 1
    BY <1>1 DEF Minted
  <2>1. i \in Nat
    BY Constants DEF Ids
  <2>2. srv[i].st # "none" <=> i <= next
    BY DEF IInv, Minted
  <2> QED BY <1>2, <1>4, <1>5, <2>1, <2>2
<1>7. NamesKept
  <2>1. srv[next + 1].st = "none"
    BY <1>2 DEF IInv, Minted
  <2> QED BY <1>4, <2>1 DEF NamesKept
<1>8. ExtIsTrue'
  <2> SUFFICES ASSUME NEW i \in Ids, NEW c \in Clients, NEW f \in Entities, srv'[i].ext = <<c, f>>
               PROVE  srv'[i].st # "none" /\ srv'[i].ent = f
    BY DEF ExtIsTrue, Names
  <2>1. srv'[i] = srv[i]
    BY <1>4, <1>5, NoExtIsNoUuid
  <2> QED BY <2>1 DEF IInv, ExtIsTrue, Names
<1> QED BY <1>1, <1>2, <1>4, <1>6, <1>7, <1>8, ServerStep DEF IInv, TypeOK

\* A change of one stored row's status, or of the external_id of a row put back.
LEMMA RowStep ==
    ASSUME IInv, NEW i \in Ids, srv[i].st # "none", NEW row \in ServerRows,
           row.st # "none", row.ent = srv[i].ent, row.ext \in {srv[i].ext, NoExt},
           srv' = [srv EXCEPT ![i] = row], UNCHANGED <<next, loc, ses>>
    PROVE  IInv' /\ NamesKept
<1>1. /\ srv' \in [Ids -> ServerRows]
      /\ \A j \in Ids : srv'[j] = IF j = i THEN row ELSE srv[j]
  BY DEF IInv, TypeOK
<1>2. Minted' /\ NamesKept
  BY <1>1 DEF IInv, Minted, NamesKept
<1>3. ExtIsTrue'
  <2> SUFFICES ASSUME NEW j \in Ids, NEW c \in Clients, NEW f \in Entities, srv'[j].ext = <<c, f>>
               PROVE  srv'[j].st # "none" /\ srv'[j].ent = f
    BY DEF ExtIsTrue, Names
  <2>1. srv[j].ext = <<c, f>>
    BY <1>1, NoExtIsNoUuid
  <2>2. srv[j].st # "none" /\ srv[j].ent = f
    BY <2>1 DEF IInv, ExtIsTrue, Names
  <2> QED BY <1>1, <2>2
<1> QED BY <1>1, <1>2, <1>3, ServerStep DEF IInv, TypeOK

LEMMA TeamRestoreStep ==
    ASSUME IInv, NEW i \in Ids, TeamRestore(i)
    PROVE  IInv' /\ NamesKept
<1> DEFINE row == [srv[i] EXCEPT !.st = "active", !.ext = NoExt]
<1>1. srv[i] \in ServerRows
  BY DEF IInv, TypeOK
<1>2. row \in ServerRows /\ row.st = "active" /\ row.ent = srv[i].ent /\ row.ext = NoExt
  BY <1>1 DEF ServerRows
<1>3. /\ srv' = [srv EXCEPT ![i] = row] /\ UNCHANGED <<next, loc, ses>>
      /\ srv[i].st # "none"
  BY DEF TeamRestore, IInv, TypeOK
<1> HIDE DEF row
<1> QED BY <1>2, <1>3, RowStep

LEMMA ServerArchiveStep ==
    ASSUME IInv, NEW i \in Ids, ServerArchive(i)
    PROVE  IInv' /\ NamesKept
<1> DEFINE row == [srv[i] EXCEPT !.st = "archived"]
<1>1. srv[i] \in ServerRows
  BY DEF IInv, TypeOK
<1>2. row \in ServerRows /\ row.st = "archived" /\ row.ent = srv[i].ent /\ row.ext = srv[i].ext
  BY <1>1 DEF ServerRows
<1>3. /\ srv' = [srv EXCEPT ![i] = row] /\ UNCHANGED <<next, loc, ses>>
      /\ srv[i].st # "none"
  BY DEF ServerArchive, IInv, TypeOK
<1> HIDE DEF row
<1> QED BY <1>2, <1>3, RowStep

LEMMA ServerResetStep ==
    ASSUME IInv, ServerReset
    PROVE  IInv' /\ NamesKept
<1>1. srv' = [i \in Ids |-> IF srv[i].st = "none" THEN srv[i]
                           ELSE [srv[i] EXCEPT !.st = "lost"]]
  BY DEF ServerReset
<1>2. \A i \in Ids : LET row == [srv[i] EXCEPT !.st = "lost"] IN
         row \in ServerRows /\ row.st = "lost" /\ row.ent = srv[i].ent /\ row.ext = srv[i].ext
  BY DEF IInv, TypeOK, ServerRows
<1>3. /\ srv' \in [Ids -> ServerRows] /\ UNCHANGED <<next, loc>>
      /\ \A i \in Ids : /\ srv'[i].ent = srv[i].ent /\ srv'[i].ext = srv[i].ext
                        /\ srv'[i].st # "none" <=> srv[i].st # "none"
  BY <1>1, <1>2 DEF IInv, TypeOK, ServerReset
<1>4. next' \in 0..MaxId /\ Minted' /\ ExtIsTrue' /\ NamesKept
  BY <1>3 DEF IInv, TypeOK, Minted, ExtIsTrue, Names, NamesKept
<1>5. /\ ses' \in [Clients -> Sessions]
      /\ \A d \in Clients : ses'[d].page = ses[d].page /\ ses'[d].acks = ses[d].acks
  BY DisturbKeeps DEF IInv, ServerReset
<1> QED BY <1>3, <1>4, <1>5, ServerStep

-----------------------------------------------------------------------------
LEMMA InitIInv == Init => IInv
<1> SUFFICES ASSUME Init PROVE IInv
  OBVIOUS
<1> DEFINE row == [st |-> "none", ent |-> CHOOSE e \in Entities : TRUE, ext |-> NoExt]
<1>1. row \in ServerRows /\ row.st = "none" /\ row.ext = NoExt
  BY Constants DEF ServerRows
<1>2. srv = [i \in Ids |-> row] /\ next = 0
  BY DEF Init
<1>3. [st |-> "none", rid |-> 0] \in LocalRows
  BY ZeroIsId0 DEF LocalRows
<1>4. TypeOK
  <2> HIDE DEF row
  <2> QED BY <1>1, <1>2, <1>3, IdleType, ZeroIsId0 DEF Init, TypeOK
<1>5. Minted /\ ExtIsTrue
  <2>1. \A i \in Ids : srv[i].st = "none" /\ srv[i].ext = NoExt
    BY <1>1, <1>2
  <2>2. \A i \in Ids : ~(i <= next)
    BY <1>2, Constants DEF Ids
  <2> QED BY <2>1, <2>2, NoExtIsNoUuid DEF Minted, ExtIsTrue
<1>6. CarriedIsTrue /\ StampIsTrue
  BY DEF Init, CarriedIsTrue, StampIsTrue, Idle
<1> QED BY <1>4, <1>5, <1>6 DEF IInv

LEMMA NextIInv == IInv /\ [Next]_vars => IInv' /\ NamesKept
<1> SUFFICES ASSUME IInv, [Next]_vars PROVE IInv' /\ NamesKept
  OBVIOUS
<1>1. CASE UNCHANGED vars
  BY <1>1 DEF vars, IInv, TypeOK, Minted, ExtIsTrue, CarriedIsTrue, StampIsTrue, NamesKept, Names
<1>2. ASSUME NEW c \in Clients, NEW e \in Entities, Add(c, e) \/ Archive(c, e)
      PROVE  IInv' /\ NamesKept
  BY <1>2, AddStep, ArchiveStep
<1>3. ASSUME NEW c \in Clients, NEW archived \in BOOLEAN,
             \/ StartSync(c, archived)
             \/ \E cmd \in Commands : StartPush(c, cmd, archived)
      PROVE  IInv' /\ NamesKept
  <2>1. CASE StartSync(c, archived)
    BY <2>1, StartSyncStep
  <2>2. ASSUME NEW cmd \in Commands, StartPush(c, cmd, archived)
        PROVE  IInv' /\ NamesKept
    BY <2>2, StartPushStep, Constants
  <2> QED BY <1>3, <2>1, <2>2
<1>4. ASSUME NEW c \in Clients, Step(c) PROVE IInv' /\ NamesKept
  <2>1. CASE PullPage(c)
    BY <2>1, PullPageStep
  <2>2. CASE ApplyEntry(c)
    BY <2>2, ApplyEntryStep
  <2>3. CASE PageDone(c)
    BY <2>3, PageDoneStep
  <2>4. CASE TakeRows(c)
    BY <2>4, TakeRowsStep
  <2>5. CASE PushAnswered(c)
    BY <2>5, PushAnsweredStep
  <2>6. CASE Stamp(c)
    BY <2>6, StampStep
  <2>7. CASE Tombstone(c)
    BY <2>7, TombstoneStep
  <2>8. CASE PushDone(c)
    BY <2>8, PushDoneStep
  <2>9. CASE Return(c)
    BY <2>9, IdleStep DEF Return
  <2> QED BY <1>4, <2>1, <2>2, <2>3, <2>4, <2>5, <2>6, <2>7, <2>8, <2>9 DEF Step
<1>5. ASSUME NEW c \in Clients, Fault(c) PROVE IInv' /\ NamesKept
  <2>1. CASE PushUnanswered(c)
    BY <2>1, PushUnansweredStep
  <2>2. CASE PushUnsent(c)
    BY <2>2, PushUnsentStep
  <2>3. CASE Fail(c)
    BY <2>3, IdleStep DEF Fail
  <2> QED BY <1>5, <2>1, <2>2, <2>3 DEF Fault
<1>6. ASSUME NEW e \in Entities, TeamAdd(e) PROVE IInv' /\ NamesKept
  BY <1>6, TeamAddStep
<1>7. ASSUME NEW i \in Ids, TeamRestore(i) \/ ServerArchive(i) PROVE IInv' /\ NamesKept
  BY <1>7, TeamRestoreStep, ServerArchiveStep
<1>8. CASE ServerReset
  BY <1>8, ServerResetStep
<1> QED BY <1>1, <1>2, <1>3, <1>4, <1>5, <1>6, <1>7, <1>8 DEF Next

\* The invariant of the protocol, whatever machines, entries, page and chunk sizes,
\* losses and other callers there are.
THEOREM Invariance == Spec => []IInv
<1>1. IInv /\ [Next]_vars => IInv'
  BY NextIInv
<1> QED BY InitIInv, <1>1, PTL DEF Spec

\* Every variable keeps its type: in particular the server never mints an id beyond
\* its bound and no cursor, total or stamp leaves the range of ids.
THEOREM TypeCorrect == Spec => []TypeOK
<1>1. IInv => TypeOK
  BY DEF IInv
<1> QED BY Invariance, <1>1, PTL

\* A remote_id in a local store is the id of that same entry on the server
\* (set_remote_id, apply_remote_note).
THEOREM StampsAreTrue == Spec => []StampIsTrue
<1>1. IInv => StampIsTrue
  BY DEF IInv
<1> QED BY Invariance, <1>1, PTL

\* No step gives an id another entry (add_note_with_sync_id).
THEOREM IdsKeepTheirEntity == Spec => IdsKeepEntity
<1>1. IInv /\ [Next]_vars => [\A i \in Ids : srv[i].st # "none" => srv'[i].ent = srv[i].ent]_vars
  BY NextIInv DEF NamesKept
<1> QED BY Invariance, <1>1, PTL DEF Spec, IdsKeepEntity
=============================================================================
