------------------------ MODULE VectorRepair_proofs ------------------------
(***************************************************************************)
(* No wake-up is lost and no vector is orphaned, for any number of         *)
(* requests, rows, page size and restarts.                                 *)
(*                                                                         *)
(* Owed is not inductive: whether the write-back of a page clears its rows *)
(* depends on what the sweep carries from the read to the write.  SweepInv *)
(* says it: the page is behind the cursor, its rows exist, and every row   *)
(* of it that can be embedded has been by the time it is written.          *)
(***************************************************************************)
EXTENDS VectorRepair, FiniteSetTheorems, TLAPS

\* Rows beyond the last one inserted do not exist.
Fresh == \A i \in Rows : i > n => row[i].st = "none"

SweepInv ==
    /\ wk.pc = "read" => wk.page = {}
    /\ wk.pc \in {"embed", "write"} =>
         \A i \in wk.page : row[i].st # "none" /\ i <= wk.cursor
    /\ wk.pc = "write" => \A i \in wk.page : row[i].poison \/ i \in wk.got

IInv == TypeOK /\ Fresh /\ SweepInv /\ NoOrphanVector /\ Owed

\* The bounds are numbers (RepairAssumption), so the rows are too.
LEMMA RowsAreNat == MaxRow \in Nat /\ Rows \subseteq Nat
  BY RepairAssumption DEF Rows

\* The records the actions assign have their types.
LEMMA RecordTypes ==
  /\ NoRequest \in ReqStates
  /\ Waiting \in WorkerStates
  /\ [Waiting EXCEPT !.pc = "read"] \in WorkerStates
<1>1. 0 \in 0..MaxRow
  BY RowsAreNat
<1> QED
  BY <1>1 DEF NoRequest, ReqStates, Waiting, WorkerStates

\* An empty page means that no row is left after the cursor
\* (notes_missing_embeddings).
LEMMA EmptyPage ==
  ASSUME TypeOK, NEW c \in 0..MaxRow, IsPage({}, c), NEW i \in Missing, i > c
  PROVE  FALSE
<1> DEFINE S == {k \in Missing : k > c}
<1>1. IsFiniteSet(S)
  <2>1. IsFiniteSet(Rows)
    BY RowsAreNat, FS_Interval DEF Rows
  <2>2. S \subseteq Rows
    BY DEF Missing
  <2> QED
    BY <2>1, <2>2, FS_Subset
<1>2. i \in S
  OBVIOUS
<1>3. Cardinality(S) \in Nat /\ Cardinality(S) # 0
  BY <1>1, <1>2, FS_CardinalityType, FS_EmptySet
<1>4. Cardinality({}) = 0
  BY FS_EmptySet
<1>5. 0 = IF Cardinality(S) < PageSize THEN Cardinality(S) ELSE PageSize
  BY <1>4 DEF IsPage
<1> QED
  BY <1>3, <1>5, RepairAssumption

\* Initially nothing is stored and nothing is owed.
LEMMA InitIInv == Init => IInv
<1> SUFFICES ASSUME Init PROVE IInv
  OBVIOUS
<1>1. TypeOK
  <2>1. NoRow \in RowStates
    BY DEF NoRow, RowStates
  <2>2. row \in [Rows -> RowStates] /\ req \in [Requests -> ReqStates]
    BY <2>1, RecordTypes DEF Init
  <2>3. n \in 0..MaxRow /\ crashes \in 0..MaxCrashes
    BY RepairAssumption DEF Init
  <2>4. sig \in BOOLEAN /\ wk \in WorkerStates /\ vec \subseteq Rows
    BY RecordTypes DEF Init
  <2> QED
    BY <2>2, <2>3, <2>4 DEF Init, TypeOK
<1>2. \A i \in Rows : row[i].st = "none"
  BY DEF Init, NoRow
<1>3. wk.pc = "wait" /\ vec = {}
  BY DEF Init, Waiting
<1> QED
  BY <1>1, <1>2, <1>3 DEF IInv, Fresh, SweepInv, NoOrphanVector, Owed, Missing

\* What InsertRow does to the database.
LEMMA InsertTypes ==
  ASSUME TypeOK, NEW q \in Requests, NEW R \in SUBSET Rows, InsertRow(q, R)
  PROVE  /\ n + 1 \in Rows /\ n' \in 0..MaxRow
         /\ row' \in [Rows -> RowStates]
         /\ sup' \subseteq Rows \X Rows
<1>1. n + 1 \in Rows /\ n' \in 0..MaxRow
  BY RowsAreNat DEF TypeOK, InsertRow, Rows
<1>2. [st |-> "active", poison |-> req[q].poison, ext |-> req[q].route = "batch"] \in RowStates
  BY DEF TypeOK, RowStates, ReqStates
<1>3. \A i \in Rows : row[i] \in RowStates /\ [row[i] EXCEPT !.st = "archived"] \in RowStates
  BY DEF TypeOK, RowStates
<1>4. row' \in [Rows -> RowStates]
  BY <1>2, <1>3 DEF InsertRow
<1>5. sup' \subseteq Rows \X Rows
  BY <1>1 DEF InsertRow, TypeOK
<1> QED
  BY <1>1, <1>4, <1>5

\* Every step keeps the types.
LEMMA TypeStep == TypeOK /\ [Next]_vars => TypeOK'
<1> SUFFICES ASSUME TypeOK, [Next]_vars PROVE TypeOK'
  OBVIOUS
<1> USE RepairAssumption, RowsAreNat DEF TypeOK, db
<1>1. CASE SetReady \/ RaiseReady \/ SetUnavailable
  BY <1>1 DEF SetReady, RaiseReady, SetUnavailable
<1>2. CASE Restart
  <2>1. req' \in [Requests -> ReqStates] /\ wk' \in WorkerStates
    BY <1>2, RecordTypes DEF Restart
  <2>2. crashes' \in 0..MaxCrashes
    BY <1>2 DEF Restart
  <2> QED
    BY <1>2, <2>1, <2>2 DEF Restart
<1>3. ASSUME NEW q \in Requests, NEW route \in {"single", "batch"}, NEW poison \in BOOLEAN,
             NEW pushed \in BOOLEAN, NEW spoiled \in BOOLEAN,
             Embed(q, route, poison, pushed, spoiled)
      PROVE  TypeOK'
  <2> DEFINE v == pushed \/ (Available /\ ~poison /\ ~spoiled)
             r == [pc |-> "embedded", route |-> route, poison |-> poison,
                   vector |-> v]
  <2>1. v \in BOOLEAN
    BY DEF Available
  <2>2. req' = [req EXCEPT ![q] = r]
    BY <1>3 DEF Embed
  <2> HIDE DEF v
  <2>3. r \in ReqStates
    BY <2>1 DEF ReqStates
  <2> HIDE DEF r
  <2> QED
    BY <1>3, <2>2, <2>3 DEF Embed
<1>4. ASSUME NEW q \in Requests,
             (\E R \in SUBSET Rows : AddNote(q, R)) \/ PushEntry(q) \/ BatchFails(q)
      PROVE  TypeOK'
  <2>1. \E R \in SUBSET Rows : InsertRow(q, R)
    BY <1>4 DEF AddNote, PushEntry, BatchFails
  <2>2. /\ n + 1 \in Rows /\ n' \in 0..MaxRow
        /\ row' \in [Rows -> RowStates]
        /\ sup' \subseteq Rows \X Rows
    BY <2>1, InsertTypes
  <2>3. vec' \subseteq Rows /\ dim' \in {0, 1} /\ dropped' \subseteq Rows
    BY <1>4, <2>2 DEF AddNote, PushEntry, BatchFails, RegisterDim, IncomingDim
  <2>4. req' \in [Requests -> ReqStates]
    <3>1. [req[q] EXCEPT !.pc = "stored"] \in ReqStates
      BY DEF ReqStates
    <3>2. req' = [req EXCEPT ![q] = NoRequest] \/
          req' = [req EXCEPT ![q] = [req[q] EXCEPT !.pc = "stored"]]
      BY <1>4 DEF AddNote, PushEntry, BatchFails
    <3> QED
      BY <3>1, <3>2, RecordTypes
  <2>5. sig' \in BOOLEAN
    BY <1>4 DEF AddNote, PushEntry, BatchFails
  <2>6. UNCHANGED <<slot, wk, crashes>>
    BY <1>4 DEF AddNote, PushEntry, BatchFails
  <2> QED
    BY <2>2, <2>3, <2>4, <2>5, <2>6
<1>5. ASSUME NEW q \in Requests, Refuse(q) \/ Raise(q) PROVE TypeOK'
  <2>1. req' \in [Requests -> ReqStates]
    BY <1>5, RecordTypes DEF Refuse, Raise
  <2>2. sig' \in BOOLEAN
    BY <1>5 DEF Refuse, Raise
  <2> QED
    BY <1>5, <2>1, <2>2 DEF Refuse, Raise
<1>6. ASSUME NEW q \in Requests, NEW i \in Rows, SkipEntry(q, i) PROVE TypeOK'
  <2>1. [req[q] EXCEPT !.pc = "stored", !.vector = i \in vec] \in ReqStates
    <3>1. \A b \in BOOLEAN : [req[q] EXCEPT !.pc = "stored", !.vector = b] \in ReqStates
      BY DEF ReqStates
    <3>2. (i \in vec) \in BOOLEAN
      OBVIOUS
    <3> QED
      BY <3>1, <3>2
  <2>2. req' = [req EXCEPT ![q] = [req[q] EXCEPT !.pc = "stored", !.vector = i \in vec]]
    BY <1>6 DEF SkipEntry
  <2>3. dim' \in {0, 1}
    BY <1>6 DEF SkipEntry, RegisterDim, IncomingDim
  <2> QED
    BY <1>6, <2>1, <2>2, <2>3 DEF SkipEntry
<1>9. ASSUME NEW i \in Rows, NEW k \in Rows,
             ArchiveNote(i) \/ SupersedeNote(i, k) \/ DeleteNote(i) \/ DeleteFails(i)
      PROVE  TypeOK'
  <2>1. [row[i] EXCEPT !.st = "archived"] \in RowStates /\
        [row[i] EXCEPT !.st = "deleted"] \in RowStates
    BY DEF RowStates
  <2>2. row' \in [Rows -> RowStates]
    BY <1>9, <2>1 DEF ArchiveNote, SupersedeNote, DeleteNote, DeleteFails
  <2>3. sup' \subseteq Rows \X Rows /\ vec' \subseteq Rows /\ dropped' \subseteq Rows
    BY <1>9 DEF ArchiveNote, SupersedeNote, DeleteNote, DeleteFails
  <2> QED
    BY <1>9, <2>2, <2>3 DEF ArchiveNote, SupersedeNote, DeleteNote, DeleteFails
<1>7. CASE Worker
  <2>1. CASE Wake \/ StopNotReady \/ StopSaturated
    <3>1. wk' \in WorkerStates
      BY <2>1, RecordTypes DEF Wake, StopNotReady, StopSaturated
    <3>2. sig' \in BOOLEAN
      BY <2>1 DEF Wake, StopNotReady, StopSaturated
    <3> QED
      BY <2>1, <3>1, <3>2 DEF Wake, StopNotReady, StopSaturated
  <2>2. CASE ReadPage
    <3>1. wk' \in WorkerStates
      <4>1. ASSUME NEW P \in SUBSET Rows, NEW last \in P
            PROVE  [pc |-> "embed", cursor |-> last, page |-> P, got |-> {}] \in WorkerStates
        <5>1. last \in 0..MaxRow
          BY DEF Rows
        <5> QED
          BY <5>1 DEF WorkerStates
      <4> QED
        BY <2>2, <4>1, RecordTypes DEF ReadPage
    <3> QED
      BY <2>2, <3>1 DEF ReadPage
  <2>3. CASE EmbedPage \/ WritePage
    <3>1. wk.page \subseteq Rows /\ wk.got \subseteq Rows
      BY DEF WorkerStates
    <3>2. Embeddable(wk.page) \subseteq Rows
      BY <3>1 DEF Embeddable
    <3>3. wk' \in WorkerStates
      BY <2>3, <3>2 DEF EmbedPage, WritePage, WorkerStates
    <3>4. vec' \subseteq Rows
      BY <2>3, <3>1 DEF EmbedPage, WritePage
    <3> QED
      BY <2>3, <3>3, <3>4 DEF EmbedPage, WritePage
  <2>4. CASE SweepFails
    <3>1. wk' \in WorkerStates
      BY <2>4, RecordTypes DEF SweepFails
    <3>2. wk.got \subseteq Rows
      BY DEF WorkerStates
    <3>3. vec' \subseteq Rows /\ dropped' \subseteq Rows
      BY <2>4, <3>2 DEF SweepFails, Missing
    <3> QED
      BY <2>4, <3>1, <3>3 DEF SweepFails
  <2> QED
    BY <1>7, <2>1, <2>2, <2>3, <2>4 DEF Worker
<1>8. CASE UNCHANGED vars
  BY <1>8 DEF vars
<1> QED
  BY <1>1, <1>2, <1>3, <1>4, <1>5, <1>6, <1>7, <1>8, <1>9 DEF Next

\* Every step keeps the inductive invariant: one step per action.
LEMMA NextIInv == IInv /\ [Next]_vars => IInv'
<1> SUFFICES ASSUME IInv, [Next]_vars PROVE IInv'
  OBVIOUS
<1>0. TypeOK /\ TypeOK'
  BY TypeStep DEF IInv
<1> USE RowsAreNat DEF IInv, db
<1>1. CASE SetReady \/ RaiseReady \/ SetUnavailable
  BY <1>0, <1>1 DEF SetReady, RaiseReady, SetUnavailable, Fresh, SweepInv, NoOrphanVector,
                    Owed, Missing, TypeOK
<1>2. CASE Restart
  BY <1>0, <1>2 DEF Restart, Fresh, SweepInv, NoOrphanVector, Owed, Missing, Waiting
<1>3. ASSUME NEW q \in Requests, NEW route \in {"single", "batch"}, NEW poison \in BOOLEAN,
             NEW pushed \in BOOLEAN, NEW spoiled \in BOOLEAN,
             Embed(q, route, poison, pushed, spoiled)
      PROVE  IInv'
  <2>1. UNCHANGED <<n, row, vec, slot, sig, wk, dropped>>
    BY <1>3 DEF Embed
  <2>2. \A p \in Requests : req[p].pc = "stored" => req'[p] = req[p]
    BY <1>0, <1>3 DEF Embed, TypeOK
  <2>3. Owed'
    BY <2>1, <2>2 DEF Owed, Missing
  <2> QED
    BY <1>0, <2>1, <2>3 DEF Fresh, SweepInv, NoOrphanVector
<1>4. ASSUME NEW q \in Requests, NEW R \in SUBSET Rows, InsertRow(q, R),
             \A i \in R : row[i].st = "active",
             AddNote(q, R) \/ PushEntry(q) \/ BatchFails(q)
      PROVE  IInv'
  <2>1. /\ n \in Nat /\ n < MaxRow /\ n' = n + 1 /\ n + 1 \in Rows
        /\ UNCHANGED <<slot, wk>>
        /\ req[q].pc = "embedded"
    BY <1>0, <1>4 DEF AddNote, PushEntry, BatchFails, InsertRow, TypeOK, Rows
  <2>2. /\ row'[n + 1].st = "active"
        /\ \A i \in Rows : i # n + 1 => /\ row'[i].poison = row[i].poison
                                        /\ (row'[i].st = "none") <=> (row[i].st = "none")
                                        /\ row'[i].st = "active" => row[i].st = "active"
                                        /\ row[i].st \in {"active", "archived"} =>
                                             row'[i].st \in {"active", "archived"}
        /\ row[n + 1].st = "none"
    <3>1. \A i \in R : row[i].st = "active"
      BY <1>4
    <3>2. \A i \in Rows : [row[i] EXCEPT !.st = "archived"].st = "archived" /\
                          [row[i] EXCEPT !.st = "archived"].poison = row[i].poison
      BY <1>0 DEF TypeOK, RowStates
    <3>3. row'[n + 1].st = "active"
      BY <1>4, <2>1 DEF InsertRow
    <3>4. \A i \in Rows : i # n + 1 =>
            row'[i] = row[i] \/ (i \in R /\ row'[i] = [row[i] EXCEPT !.st = "archived"])
      BY <1>4 DEF InsertRow
    <3>5. row[n + 1].st = "none"
      BY <2>1 DEF Fresh
    <3> QED
      BY <3>1, <3>2, <3>3, <3>4, <3>5
  <2>3. Fresh'
    BY <2>1, <2>2 DEF Fresh, Rows
  <2>4. SweepInv'
    <3>1. wk.pc \in {"embed", "write"} => \A i \in wk.page : i \in Rows /\ i # n + 1
      BY <1>0, <2>2 DEF SweepInv, TypeOK, WorkerStates
    <3> QED
      BY <2>1, <2>2, <3>1 DEF SweepInv
  <2>5. vec \subseteq vec' /\ vec' \subseteq vec \cup {n + 1}
    BY <1>4 DEF AddNote, PushEntry, BatchFails
  <2>6. NoOrphanVector'
    BY <1>0, <2>1, <2>2, <2>5 DEF NoOrphanVector, TypeOK
  <2>7. Owed'
    <3> SUFFICES ASSUME NEW i \in Missing', i \notin dropped'
                 PROVE  \/ row'[i].poison
                        \/ sig'
                        \/ slot' # "ready"
                        \/ \E p \in Requests : req'[p].pc = "stored" /\ ~req'[p].vector
                        \/ wk'.pc # "wait" /\ (i > wk'.cursor \/ i \in wk'.page)
      BY DEF Owed
    <3>0. i \in Rows /\ row'[i].st = "active" /\ i \notin vec'
      BY DEF Missing
    <3>1. \A p \in Requests : req[p].pc = "stored" => p # q /\ req'[p] = req[p]
      BY <1>0, <1>4, <2>1 DEF AddNote, PushEntry, BatchFails, TypeOK
    <3>2. sig => sig'
      <4>1. CASE AddNote(q, R)
        BY <4>1 DEF AddNote
      <4>2. CASE PushEntry(q) \/ BatchFails(q)
        BY <4>2 DEF PushEntry, BatchFails
      <4> QED
        BY <1>4, <4>1, <4>2
    <3>3. CASE i = n + 1
      <4>1. CASE AddNote(q, R)
        <5>1. ~req[q].vector
          BY <3>0, <3>3, <4>1 DEF AddNote
        <5> QED
          BY <4>1, <5>1 DEF AddNote
      <4>2. CASE PushEntry(q)
        <5>1. ~req[q].vector
          BY <3>0, <3>3, <4>2 DEF PushEntry
        <5>2. req'[q].pc = "stored" /\ req'[q].vector = req[q].vector
          BY <1>0, <4>2 DEF PushEntry, TypeOK, ReqStates
        <5> QED
          BY <5>1, <5>2
      <4>3. CASE BatchFails(q)
        BY <3>0, <3>3, <4>3 DEF BatchFails
      <4> QED
        BY <1>4, <4>1, <4>2, <4>3
    <3>4. CASE i # n + 1
      <4>1. i \in Missing
        BY <2>2, <2>5, <3>0, <3>4 DEF Missing
      <4>2. i \notin dropped
        BY <1>4 DEF AddNote, PushEntry, BatchFails
      <4> QED
        BY <2>1, <2>2, <3>0, <3>1, <3>2, <3>4, <4>1, <4>2 DEF Owed
    <3> QED
      BY <3>3, <3>4
  <2> QED
    BY <1>0, <2>3, <2>4, <2>6, <2>7
<1>5. ASSUME NEW q \in Requests, Refuse(q) \/ Raise(q) PROVE IInv'
  <2>1. UNCHANGED <<n, row, vec, slot, wk, dropped>>
    BY <1>5 DEF Refuse, Raise
  <2>2. \A p \in Requests : p # q => req'[p] = req[p]
    BY <1>0, <1>5 DEF Refuse, Raise, TypeOK
  <2>3. (sig => sig') /\ (req[q].pc = "stored" /\ ~req[q].vector => sig')
    <3>1. CASE Refuse(q)
      BY <3>1 DEF Refuse
    <3>2. CASE Raise(q)
      BY <3>2 DEF Raise
    <3> QED
      BY <1>5, <3>1, <3>2
  <2>4. Owed'
    BY <2>1, <2>2, <2>3 DEF Owed, Missing
  <2> QED
    BY <1>0, <2>1, <2>4 DEF Fresh, SweepInv, NoOrphanVector
<1>6. ASSUME NEW q \in Requests, NEW i \in Rows, SkipEntry(q, i) PROVE IInv'
  <2>1. UNCHANGED <<n, row, vec, slot, sig, wk, dropped>>
    BY <1>6 DEF SkipEntry
  <2>2. \A p \in Requests : req[p].pc = "stored" => req'[p] = req[p]
    BY <1>0, <1>6 DEF SkipEntry, TypeOK
  <2>3. Owed'
    BY <2>1, <2>2 DEF Owed, Missing
  <2> QED
    BY <1>0, <2>1, <2>3 DEF Fresh, SweepInv, NoOrphanVector
<1>7. ASSUME NEW i \in Rows, NEW k \in Rows,
             ArchiveNote(i) \/ SupersedeNote(i, k) \/ DeleteNote(i)
      PROVE  IInv'
  <2>1. /\ UNCHANGED <<n, slot, sig, req, wk, dropped>>
        /\ vec \ {i} \subseteq vec' /\ vec' \subseteq vec
    BY <1>7 DEF ArchiveNote, SupersedeNote, DeleteNote
  <2>2. /\ row[i].st # "none" /\ row'[i].st # "none" /\ row'[i].st # "active"
        /\ row'[i].poison = row[i].poison
        /\ \A j \in Rows : j # i => row'[j] = row[j]
    BY <1>0, <1>7 DEF ArchiveNote, SupersedeNote, DeleteNote, TypeOK, RowStates
  <2>3. Fresh' /\ SweepInv'
    <3>1. wk.page \subseteq Rows
      BY <1>0 DEF TypeOK, WorkerStates
    <3> QED
      BY <2>1, <2>2, <3>1 DEF Fresh, SweepInv
  <2>4. NoOrphanVector'
    <3>1. CASE ArchiveNote(i) \/ SupersedeNote(i, k)
      <4>1. row'[i].st = "archived"
        BY <1>0, <3>1 DEF ArchiveNote, SupersedeNote, TypeOK, RowStates
      <4> QED
        BY <1>0, <2>1, <2>2, <4>1 DEF NoOrphanVector, TypeOK
    <3>2. CASE DeleteNote(i)
      BY <1>0, <3>2, <2>2 DEF DeleteNote, NoOrphanVector, TypeOK
    <3> QED
      BY <1>7, <3>1, <3>2
  <2>5. Owed'
    <3>1. Missing' \subseteq Missing
      BY <2>1, <2>2 DEF Missing
    <3>2. \A j \in Missing' : row'[j].poison = row[j].poison
      BY <2>2 DEF Missing
    <3> QED
      BY <2>1, <3>1, <3>2 DEF Owed
  <2> QED
    BY <1>0, <2>3, <2>4, <2>5
<1>8. ASSUME NEW i \in Rows, DeleteFails(i) PROVE IInv'
  <2>1. /\ UNCHANGED <<n, row, slot, sig, req, wk>>
        /\ vec' = vec \ {i} /\ dropped' = dropped \cup {i}
    BY <1>8 DEF DeleteFails
  <2> QED
    BY <1>0, <2>1 DEF Fresh, SweepInv, NoOrphanVector, Owed, Missing
<1>9. CASE Worker
  <2>0. UNCHANGED <<n, row, slot, req>>
    BY <1>9 DEF Worker, Wake, ReadPage, EmbedPage, StopNotReady, StopSaturated,
                   WritePage, SweepFails
  <2>1. CASE Wake
    BY <1>0, <2>0, <2>1 DEF Wake, Waiting, Fresh, SweepInv, NoOrphanVector, Owed, Missing, Rows
  <2>2. CASE StopNotReady
    BY <1>0, <2>0, <2>2 DEF StopNotReady, Available, Waiting, Fresh, SweepInv,
                            NoOrphanVector, Owed, Missing
  <2>3. CASE StopSaturated
    BY <1>0, <2>0, <2>3 DEF StopSaturated, Waiting, Fresh, SweepInv, NoOrphanVector,
                            Owed, Missing
  <2>4. CASE EmbedPage
    <3>1. wk.pc = "embed" /\ wk'.pc = "write" /\ wk'.page = wk.page
          /\ wk'.cursor = wk.cursor /\ wk'.got = Embeddable(wk.page)
      BY <1>0, <2>4 DEF EmbedPage, TypeOK, WorkerStates
    <3>2. UNCHANGED <<vec, sig, dropped>>
      BY <2>4 DEF EmbedPage
    <3> QED
      BY <1>0, <2>0, <3>1, <3>2 DEF Embeddable, Fresh, SweepInv, NoOrphanVector, Owed, Missing
  <2>5. CASE WritePage
    <3>1. wk.pc = "write" /\ wk'.pc = "read" /\ wk'.page = {} /\ wk'.cursor = wk.cursor
      BY <1>0, <2>5 DEF WritePage, TypeOK, WorkerStates
    <3>2. vec' = vec \cup {i \in wk.got : Qualifies(i)} /\ UNCHANGED <<sig, dropped>>
      BY <2>5 DEF WritePage
    <3>3. NoOrphanVector'
      BY <2>0, <3>2 DEF NoOrphanVector, Qualifies
    <3>4. Owed'
      <4>1. \A i \in Missing' : i \in Missing /\ (i \in wk.page => row[i].poison)
        BY <2>0, <3>1, <3>2 DEF Missing, Qualifies, SweepInv
      <4> QED
        BY <2>0, <3>1, <3>2, <4>1 DEF Owed
    <3> QED
      BY <1>0, <2>0, <3>1, <3>3, <3>4 DEF Fresh, SweepInv
  <2>6. CASE ReadPage
    <3>1. wk.pc = "read" /\ wk.page = {} /\ wk.cursor \in 0..MaxRow /\ UNCHANGED <<vec, sig, dropped>>
      BY <1>0, <2>6 DEF ReadPage, SweepInv, TypeOK, WorkerStates
    <3>2. PICK P \in SUBSET Rows :
            /\ IsPage(P, wk.cursor)
            /\ \/ P = {} /\ wk' = Waiting
               \/ \E last \in P :
                    /\ \A i \in P : i <= last
                    /\ wk' = [pc |-> "embed", cursor |-> last, page |-> P, got |-> {}]
      BY <2>6 DEF ReadPage
    <3>3. CASE P = {} /\ wk' = Waiting
      <4>1. \A i \in Missing : ~(i > wk.cursor)
        BY <1>0, <3>1, <3>2, <3>3, EmptyPage
      <4>2. Owed'
        BY <2>0, <3>1, <4>1 DEF Owed, Missing
      <4> QED
        BY <1>0, <2>0, <3>1, <3>3, <4>2 DEF Waiting, Fresh, SweepInv, NoOrphanVector
    <3>4. ASSUME NEW last \in P, \A i \in P : i <= last,
                 wk' = [pc |-> "embed", cursor |-> last, page |-> P, got |-> {}]
          PROVE  IInv'
      <4>1. /\ \A i \in P : i \in Missing
            /\ \A k \in Missing : k > wk.cursor /\ k <= last => k \in P
        BY <3>2 DEF IsPage
      <4>2. SweepInv'
        BY <2>0, <3>4, <4>1 DEF SweepInv, Missing
      <4>3. \A k \in Missing : k > wk.cursor => k > last \/ k \in P
        BY <4>1 DEF Missing
      <4>4. Owed'
        BY <2>0, <3>1, <3>4, <4>3 DEF Owed, Missing
      <4> QED
        BY <1>0, <2>0, <3>1, <4>2, <4>4 DEF Fresh, NoOrphanVector
    <3> QED
      BY <3>2, <3>3, <3>4
  <2>7. CASE SweepFails
    <3>1. PICK D \in SUBSET {i \in wk.got : Qualifies(i)} :
            vec' = vec \cup D /\ dropped' = dropped \cup (Missing \ D)
      BY <2>7 DEF SweepFails
    <3>2. wk'.pc = "wait"
      BY <2>7 DEF SweepFails, Waiting
    <3>3. NoOrphanVector'
      BY <2>0, <3>1 DEF NoOrphanVector, Qualifies
    <3>4. Missing' \subseteq dropped'
      BY <2>0, <3>1 DEF Missing
    <3> QED
      BY <1>0, <2>0, <3>2, <3>3, <3>4 DEF Fresh, SweepInv, Owed
  <2> QED
    BY <1>9, <2>1, <2>2, <2>3, <2>4, <2>5, <2>6, <2>7 DEF Worker
<1>10. CASE UNCHANGED vars
  BY <1>0, <1>10 DEF vars, Fresh, SweepInv, NoOrphanVector, Owed, Missing
<1> QED
  <2>1. ASSUME NEW q \in Requests,
               (\E R \in SUBSET Rows : AddNote(q, R)) \/ PushEntry(q) \/ BatchFails(q)
        PROVE  IInv'
    <3>1. \A R \in SUBSET Rows : AddNote(q, R) =>
            InsertRow(q, R) /\ \A i \in R : row[i].st = "active"
      BY DEF AddNote
    <3>2. PushEntry(q) \/ BatchFails(q) => InsertRow(q, {}) /\ {} \in SUBSET Rows
      BY DEF PushEntry, BatchFails
    <3> QED
      BY <1>4, <2>1, <3>1, <3>2
  <2> QED
    BY <1>1, <1>2, <1>3, <2>1, <1>5, <1>6, <1>7, <1>8, <1>9, <1>10 DEF Next

\* The inductive invariant holds in every reachable state.
THEOREM Invariance == Spec => []IInv
  BY InitIInv, NextIInv, PTL DEF Spec

\* The module's variables keep their types (VectorRepair!TypeOK).
THEOREM TypeCorrect == Spec => []TypeOK
<1>1. IInv => TypeOK
  BY DEF IInv
<1> QED
  BY <1>1, Invariance, PTL

\* insert_embedding_if_missing never leaves a vector without a row.
THEOREM VectorsHaveRows == Spec => []NoOrphanVector
<1>1. IInv => NoOrphanVector
  BY DEF IInv
<1> QED
  BY <1>1, Invariance, PTL

\* No wake-up of the repair worker is lost: as long as a repairable row lacks
\* its vector, a signal, a request or a sweep is on its way to it.
THEOREM NoLostWakeup == Spec => []Owed
<1>1. IInv => Owed
  BY DEF IInv
<1> QED
  BY <1>1, Invariance, PTL
=============================================================================
