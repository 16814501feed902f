-------------------------- MODULE LocalMemory_proofs --------------------------
(***************************************************************************)
(* The local memory store for every set of entities, of lines a fetch can  *)
(* bring and of rows of a server.db: TypeOK, MarkerIsTrue, FetchedIsRead,  *)
(* ReconcileCompletes and ArchiveSticks.                                   *)
(*                                                                         *)
(* The argument for the marker: whatever reaches the working ref while an  *)
(* import is under way comes from a local command, which wrote its row and *)
(* its edge to the store before it left the line to append (Backed).  So   *)
(* at every stage of the import a line of the OID it will record is either *)
(* one it has listed, or backed; and the edges it reads are those of a ref *)
(* that has all lines of the OID.                                          *)
(***************************************************************************)
EXTENDS LocalMemory, TLAPS

Reads == [pc : Stages, cmd : {"read", "init"}, trk : Oids, wrk : Oids,
          mark : [track : Oids, work : Oids], moved : BOOLEAN, listed : Oids, oid : Oids,
          carried : SUBSET Edges, ok : BOOLEAN]

Reconciles == [pc : {"idle", "import", "link", "done"}, fresh : SUBSET Entities,
               links : SUBSET ServerLinks, unresolved : SUBSET ServerLinks]

RecOK == rd \in Reads /\ rc \in Reconciles /\ marks \in [track : Oids, work : Oids]

\* The store has what the line says.
Backed(l) ==
    /\ l.ent \in Present
    /\ l.rel # NoEntity => <<l.ent, l.rel, "relates_to">> \in edges
    /\ l.succ \notin {NoEntity, l.ent} => <<l.succ, l.ent, "supersedes">> \in edges

\* A command writes the store before the carrier.
OutOK == \A l \in out : Backed(l)

Calm == exposed \cap {"list", "head", "others"} = {}

\* The marker is true, and the stages of an import keep it so.
CarrierOK ==
    Calm =>
        /\ merged
        /\ marks.work \subseteq work /\ Holds(marks.work)
        /\ rd.pc = "oid" => rd.listed \subseteq work /\ \A l \in work \ rd.listed : Backed(l)
        /\ rd.pc = "existing" => rd.oid \subseteq work /\ \A l \in rd.oid \ rd.listed : Backed(l)
        /\ rd.pc \in {"carried", "import"} =>
              rd.oid \subseteq work /\ \A l \in rd.oid : l \in rd.listed \/ l.ent \in Present
        /\ rd.pc = "import" =>
              \A l \in rd.oid :
                 /\ l.rel # NoEntity => <<l.ent, l.rel, "relates_to">> \in rd.carried
                 /\ l.succ # NoEntity =>
                       \E k \in work : /\ k.ent = l.ent /\ k.succ # NoEntity
                                       /\ <<k.succ, l.ent, "supersedes">> \in rd.carried

Quiet == exposed \subseteq {"reconcile"}

\* A read merges what was fetched before it, and what it imports has that.
FetchOK ==
    Quiet =>
        /\ marks.track \subseteq work
        /\ rd.trk \subseteq track
        /\ rd.pc = "marker" => marks.track \subseteq rd.wrk /\ rd.wrk \subseteq work
        /\ rd.pc = "merge" => rd.cmd = "init" \/ rd.mark \in {marks, NoMarks}
        /\ rd.pc \notin {"idle", "marker", "merge"} => rd.trk \subseteq work
        /\ rd.pc \in {"existing", "carried", "import"} => rd.trk \subseteq rd.oid
        /\ rd.pc \in {"mark", "done"} /\ rd.ok => Holds(rd.trk)

\* What a reconcile has yet to bring and to link.
ReconcileOK ==
    /\ rc.pc = "import" => Candidates \subseteq Present \cup rc.fresh
    /\ rc.pc \in {"link", "done"} => Candidates \subseteq Present
    /\ rc.pc \in {"link", "done"} =>
          \A x \in ServerLinks : x[1] \in rc.fresh /\ Status(ServerNotes, x[1]) = "archived" =>
              succ[x[1]] # NoEntity \/ x \in rc.unresolved \/ (rc.pc = "link" /\ x \in rc.links)
    /\ rc.pc \in {"import", "link"} => db
    /\ rd.pc \in {"carried", "import"} => db

IInv == TypeOK /\ RecOK /\ OutOK /\ CarrierOK /\ FetchOK /\ ReconcileOK

-----------------------------------------------------------------------------
(* Constants and what only grows. *)

LEMMA Constants ==
    /\ NoEntity \notin Entities /\ TeamLines \subseteq Lines /\ MaxLocal \in Nat
    /\ Candidates \subseteq Entities
    /\ \A x \in ServerLinks : x[1] \in Candidates /\ x[2] \in Candidates
    /\ LocalEntities \subseteq Entities
<1>1. /\ NoEntity \notin Entities /\ TeamLines \subseteq Lines /\ MaxLocal \in Nat
      /\ ServerNotes \subseteq [ent : Entities, arch : BOOLEAN, succ : MaybeEntity]
      /\ LocalEntities \subseteq Entities
  BY MemoryAssumption DEF MemoryAssumption
<1> QED BY <1>1 DEF Candidates, Ents, ServerLinks

LEMMA HoldsSubset ==
    ASSUME NEW L, NEW M, M \subseteq L, L \subseteq work, Holds(L)
    PROVE  Holds(M)
<1>1. Ents(M) \subseteq Ents(L)
  BY DEF Ents
<1>2. ASSUME NEW l \in M, l.succ \in Ents(M) \ {l.ent}
      PROVE  \E k \in M \cup work :
                 /\ k.ent = l.ent /\ k.succ # NoEntity
                 /\ \/ k.succ \notin Ents(M) \ {l.ent}
                    \/ <<k.succ, l.ent, "supersedes">> \in edges
  <2>1. l \in L /\ l.succ \in Ents(L) \ {l.ent}
    BY <1>1, <1>2
  <2>2. PICK k \in L \cup work :
                 /\ k.ent = l.ent /\ k.succ # NoEntity
                 /\ \/ k.succ \notin Ents(L) \ {l.ent}
                    \/ <<k.succ, l.ent, "supersedes">> \in edges
    BY <2>1 DEF Holds
  <2> QED BY <1>1, <2>2
<1> QED BY <1>1, <1>2 DEF Holds

\* Present, the edges and the working ref never shrink.
LEMMA HoldsKept ==
    ASSUME NEW L, Holds(L), Present \subseteq Present', edges \subseteq edges', work \subseteq work'
    PROVE  Holds(L)'
<1>1. Ents(L)' = Ents(L)
  BY DEF Ents
<1>2. ASSUME NEW l \in L, l.succ \in Ents(L) \ {l.ent}
      PROVE  \E k \in L \cup work' :
                 /\ k.ent = l.ent /\ k.succ # NoEntity
                 /\ \/ k.succ \notin Ents(L) \ {l.ent}
                    \/ <<k.succ, l.ent, "supersedes">> \in edges'
  <2>1. PICK k \in L \cup work :
                 /\ k.ent = l.ent /\ k.succ # NoEntity
                 /\ \/ k.succ \notin Ents(L) \ {l.ent}
                    \/ <<k.succ, l.ent, "supersedes">> \in edges
    BY <1>2 DEF Holds
  <2> QED BY <2>1
<1>3. /\ Ents(L) \subseteq Present'
      /\ \A l \in L : l.rel \in Ents(L) => <<l.ent, l.rel, "relates_to">> \in edges'
  BY DEF Holds
<1> QED BY <1>1, <1>2, <1>3 DEF Holds

LEMMA BackedKept ==
    ASSUME NEW l, Backed(l), Present \subseteq Present', edges \subseteq edges'
    PROVE  Backed(l)'
BY DEF Backed

\* Lines that are backed need no import.
LEMMA BackedHolds ==
    ASSUME NEW L \in SUBSET Lines, \A l \in L : Backed(l)
    PROVE  Holds(L)
<1>1. NoEntity \notin Ents(L)
  BY Constants DEF Ents, Lines
<1>2. ASSUME NEW l \in L, l.succ \in Ents(L) \ {l.ent}
      PROVE  <<l.succ, l.ent, "supersedes">> \in edges /\ l.succ # NoEntity
  BY <1>1, <1>2 DEF Backed
<1> QED BY <1>1, <1>2 DEF Holds, Backed, Ents

\* A store that grows while no read step is taken: only backed lines are appended.
LEMMA StoreFrame ==
    ASSUME IInv, UNCHANGED <<exposed, rd, marks>>, Present \subseteq Present', edges \subseteq edges',
           track \subseteq track',
           Calm => merged' /\ work \subseteq work' /\ \A l \in work' \ work : Backed(l)'
    PROVE  CarrierOK' /\ FetchOK'
<1>1. PICK W, T : W = marks.work /\ T = rd.trk
  OBVIOUS
<1>2. Calm' = Calm /\ Quiet' = Quiet /\ (Quiet => Calm)
  BY DEF Calm, Quiet
<1>3. \A l : Backed(l) => Backed(l)'
  BY BackedKept
<1>4. CASE ~Calm
  BY <1>2, <1>4 DEF CarrierOK, FetchOK
<1>5. CASE Calm
  <2>1. Holds(W) => Holds(W)'
    BY <1>5, HoldsKept
  <2>2. Holds(T) => Holds(T)'
    BY <1>5, HoldsKept
  <2>3. Holds(marks.work) => Holds(marks.work)'
    BY <1>1, <2>1 DEF Holds
  <2>4. Holds(rd.trk) => Holds(rd.trk)'
    BY <1>1, <2>2 DEF Holds
  <2>5. CarrierOK'
    <3>1. (marks.work \subseteq work /\ Holds(marks.work))' /\ merged'
      BY <1>5, <2>3 DEF IInv, CarrierOK
    <3>2. (rd.pc = "oid" => rd.listed \subseteq work /\ \A l \in work \ rd.listed : Backed(l))'
      BY <1>3, <1>5 DEF IInv, CarrierOK
    <3>3. (rd.pc = "existing" => rd.oid \subseteq work /\ \A l \in rd.oid \ rd.listed : Backed(l))'
      BY <1>3, <1>5 DEF IInv, CarrierOK
    <3>4. (rd.pc \in {"carried", "import"} =>
              rd.oid \subseteq work /\ \A l \in rd.oid : l \in rd.listed \/ l.ent \in Present)'
      BY <1>5 DEF IInv, CarrierOK
    <3>5. (rd.pc = "import" =>
              \A l \in rd.oid :
                 /\ l.rel # NoEntity => <<l.ent, l.rel, "relates_to">> \in rd.carried
                 /\ l.succ # NoEntity =>
                       \E k \in work : /\ k.ent = l.ent /\ k.succ # NoEntity
                                       /\ <<k.succ, l.ent, "supersedes">> \in rd.carried)'
      BY <1>5 DEF IInv, CarrierOK
    <3> QED BY <3>1, <3>2, <3>3, <3>4, <3>5 DEF CarrierOK
  <2>6. FetchOK'
    BY <1>2, <1>5, <2>4 DEF IInv, FetchOK
  <2> QED BY <2>5, <2>6
<1> QED BY <1>4, <1>5

-----------------------------------------------------------------------------
(* A read. *)

\* A step of a read that writes no row; what it has to show is the last line.
LEMMA ReadFrame ==
    ASSUME IInv, UNCHANGED <<exposed, track, merged, out, locals, rows, succ, edges, rc>>, db' \in BOOLEAN, db => db',
           rd' \in Reads, marks' \in [track : Oids, work : Oids], work' \subseteq Lines,
           db' \/ marks' = NoMarks, rd'.pc \in {"carried", "import"} => db',
           CarrierOK', FetchOK'
    PROVE  IInv'
<1>1. TypeOK /\ OutOK /\ ReconcileOK /\ RecOK
  BY DEF IInv
<1>2. TypeOK'
  <2>1. rd'.pc \in Stages /\ marks'.track \subseteq Lines /\ marks'.work \subseteq Lines
    BY DEF Reads, Oids
  <2>2. ~db' => marks' = NoMarks /\ \A e \in Entities : rows'[e] = "none"
    BY <1>1 DEF TypeOK
  <2>3. /\ exposed' \in Exposures /\ track' \subseteq TeamLines /\ out' \subseteq Lines
        /\ merged' \in BOOLEAN /\ db' \in BOOLEAN /\ locals' \in 0..MaxLocal
        /\ rows' \in [Entities -> {"none", "active", "archived"}]
        /\ succ' \in [Entities -> MaybeEntity] /\ rc'.pc \in {"idle", "import", "link", "done"}
    BY <1>1 DEF TypeOK
  <2>4. \A x \in edges' : x \in Edges /\ rows'[x[1]] # "none" /\ rows'[x[2]] # "none"
    BY <1>1 DEF TypeOK
  <2>5. \A e \in Entities : succ'[e] # NoEntity => rows'[succ'[e]] # "none"
    BY <1>1 DEF TypeOK
  <2> QED BY <2>1, <2>2, <2>3, <2>4, <2>5 DEF TypeOK
<1>3. OutOK'
  BY <1>1 DEF OutOK, Backed, Present
<1>4. ReconcileOK'
  BY <1>1 DEF ReconcileOK, Present
<1>5. RecOK'
  BY <1>1 DEF RecOK, Reconciles
<1> QED BY <1>2, <1>3, <1>4, <1>5 DEF IInv

\* With the rows and the working ref as they were, what was true of lines still is.
LEMMA SameHolds ==
    ASSUME UNCHANGED <<work, rows, edges>>
    PROVE  /\ \A L : Holds(L) => Holds(L)'
           /\ \A l : Backed(l) => Backed(l)'
           /\ Present' = Present
<1>1. Present' = Present
  BY DEF Present
<1>2. \A L : Holds(L) => Holds(L)'
  BY <1>1, HoldsKept
<1>3. \A l : Backed(l) => Backed(l)'
  BY <1>1, BackedKept
<1> QED BY <1>1, <1>2, <1>3

LEMMA ReadTyped ==
    ASSUME IInv
    PROVE  /\ rd \in Reads /\ marks \in [track : Oids, work : Oids] /\ Idle \in Reads
           /\ NoMarks \in [track : Oids, work : Oids] /\ track \subseteq Lines /\ work \subseteq Lines
           /\ (db \/ marks = NoMarks) /\ (Quiet => Calm) /\ db \in BOOLEAN
<1>1. db \in BOOLEAN /\ track \subseteq Lines /\ work \subseteq Lines /\ (db \/ marks = NoMarks)
  BY Constants DEF IInv, TypeOK
<1>2. NoMarks \in [track : Oids, work : Oids]
  BY DEF NoMarks, Oids
<1>3. Idle \in Reads
  BY <1>2 DEF Idle, Reads, Stages, Oids
<1> QED BY <1>1, <1>2, <1>3 DEF IInv, RecOK, Quiet, Calm

\* A step that changes rd only and leaves nothing to be shown of an import.
LEMMA PlainStep ==
    ASSUME IInv, UNCHANGED <<exposed, refs, local, store, marks, rc>>, rd' \in Reads,
           rd'.pc \notin {"oid", "existing", "carried", "import"},
           Quiet => /\ rd'.trk \subseteq track
                    /\ rd'.pc = "marker" => marks.track \subseteq rd'.wrk /\ rd'.wrk \subseteq work
                    /\ rd'.pc = "merge" => rd'.cmd = "init" \/ rd'.mark \in {marks, NoMarks}
                    /\ rd'.pc \notin {"idle", "marker", "merge"} => rd'.trk \subseteq work
                    /\ rd'.pc \in {"mark", "done"} /\ rd'.ok => Holds(rd'.trk)
    PROVE  IInv'
<1>1. /\ \A L : Holds(L) => Holds(L)' /\ \A l : Backed(l) => Backed(l)' /\ Present' = Present
  BY SameHolds DEF refs, store
<1>2. PICK W, T : W = marks.work /\ T = rd'.trk
  OBVIOUS
<1>3. Holds(W) => Holds(W)'
  BY <1>1
<1>4. Holds(T) => Holds(T)'
  BY <1>1
<1>5. CarrierOK'
  <2>1. Holds(marks.work) => Holds(marks.work)'
    BY <1>2, <1>3 DEF Holds
  <2> QED BY <2>1 DEF IInv, CarrierOK, Calm, refs
<1>6. FetchOK'
  <2>1. Holds(rd'.trk) => Holds(rd.trk)'
    BY <1>2, <1>4 DEF Holds
  <2> QED BY <2>1 DEF IInv, FetchOK, Quiet, refs
<1> QED BY <1>5, <1>6, ReadTyped, ReadFrame DEF refs, local, store

LEMMA BeginInv ==
    ASSUME IInv, Begin
    PROVE  IInv'
<1>1. /\ rd' = [Idle EXCEPT !.pc = "marker", !.trk = track, !.wrk = work]
      /\ UNCHANGED <<exposed, refs, local, store, marks, rc>>
  BY DEF Begin, Go
<1>2. rd' \in Reads /\ rd'.pc = "marker" /\ rd'.trk = track /\ rd'.wrk = work
  BY <1>1, ReadTyped DEF Idle, Reads, Stages, Oids
<1>3. Quiet => marks.track \subseteq work
  BY DEF IInv, FetchOK
<1> QED BY <1>1, <1>2, <1>3, PlainStep

LEMMA BeginInitInv ==
    ASSUME IInv, BeginInit
    PROVE  IInv'
<1>1. /\ rd' = [Idle EXCEPT !.pc = "merge", !.cmd = "init", !.trk = track]
      /\ UNCHANGED <<exposed, refs, local, store, marks, rc>>
  BY DEF BeginInit, Go
<1>2. rd' \in Reads /\ rd'.pc = "merge" /\ rd'.trk = track /\ rd'.cmd = "init"
  BY <1>1, ReadTyped DEF Idle, Reads, Stages, Oids
<1> QED BY <1>1, <1>2, PlainStep

\* Where the comparison of the working ref with the imported one leads.
LEMMA ComparedFields ==
    ASSUME IInv, NEW r \in Reads, NEW w
    PROVE  /\ Compared(r, w) \in Reads /\ Compared(r, w).pc \in {"list", "mark"}
           /\ Compared(r, w).trk = r.trk
           /\ Compared(r, w).pc = "mark" => w = r.mark.work
           /\ Compared(r, w).ok = r.ok
BY ReadTyped DEF Compared, Reads, Stages, Oids

\* A read that finds the working ref as it was imported holds what it has merged.
LEMMA AlreadyHeld ==
    ASSUME IInv, Calm, NEW T, NEW m \in {marks, NoMarks}, T \subseteq m.work
    PROVE  Holds(T)
<1>1. CASE m = marks
  BY <1>1, HoldsSubset DEF IInv, CarrierOK
<1>2. CASE m = NoMarks
  <2>1. T = {}
    BY <1>2 DEF NoMarks
  <2> QED BY <2>1 DEF Holds, Ents
<1> QED BY <1>1, <1>2

LEMMA ReadMarkerInv ==
    ASSUME IInv, ReadMarker
    PROVE  IInv'
<1>1. /\ rd.pc = "marker" /\ rd \in Reads
      /\ UNCHANGED <<exposed, refs, local, store, marks, rc>>
      /\ marks \in [track : Oids, work : Oids] /\ NoMarks \in [track : Oids, work : Oids]
  BY ReadTyped DEF ReadMarker
<1>2. PICK mk \in {marks, NoMarks} :
        LET r == [rd EXCEPT !.mark = mk, !.moved = rd.trk # mk.track]
        IN  rd' = IF r.moved THEN [r EXCEPT !.pc = "merge"] ELSE Compared(r, r.wrk)
  BY DEF ReadMarker, Go
<1> DEFINE b == rd.trk # mk.track
           r == [rd EXCEPT !.mark = mk, !.moved = b]
<1>3. b \in BOOLEAN
  OBVIOUS
<1>4. rd' = IF r.moved THEN [r EXCEPT !.pc = "merge"] ELSE Compared(r, r.wrk)
  BY <1>2
<1> HIDE DEF b
<1>5. /\ r \in Reads /\ r.trk = rd.trk /\ r.wrk = rd.wrk /\ r.mark = mk /\ r.moved = b
  BY <1>1, <1>2, <1>3 DEF Reads
<1> HIDE DEF r
<1>6. Quiet => /\ Calm /\ rd.trk \subseteq track /\ rd.wrk \subseteq work
               /\ marks.track \subseteq rd.wrk
  BY <1>1, ReadTyped DEF IInv, FetchOK
<1>7. CASE b
  <2>1. rd' \in Reads /\ rd'.pc = "merge" /\ rd'.trk = rd.trk /\ rd'.mark = mk
    BY <1>4, <1>5, <1>7 DEF Reads, Stages
  <2> QED BY <1>1, <1>2, <1>6, <2>1, PlainStep
<1>8. CASE ~b
  <2>1. /\ rd' \in Reads /\ rd'.pc \in {"list", "mark"} /\ rd'.trk = rd.trk
        /\ rd'.pc = "mark" => rd.wrk = mk.work
    BY <1>4, <1>5, <1>8, ComparedFields
  <2>2. rd.trk = mk.track
    BY <1>8 DEF b
  <2>3. Quiet => rd.trk \subseteq rd.wrk
    BY <1>2, <1>6, <2>2 DEF NoMarks
  <2>4. Quiet /\ rd'.pc = "mark" => Holds(rd'.trk)
    BY <1>2, <1>6, <2>1, <2>3, AlreadyHeld
  <2> QED BY <1>1, <1>6, <2>1, <2>3, <2>4, PlainStep
<1> QED BY <1>7, <1>8

LEMMA ReturnInv ==
    ASSUME IInv, Return \/ Crash
    PROVE  IInv'
<1>1. rd' = Idle /\ UNCHANGED <<exposed, refs, local, store, marks, rc>>
  BY DEF Return, Crash, Go
<1>2. rd' \in Reads /\ rd'.pc = "idle" /\ rd'.trk = {}
  BY <1>1, ReadTyped DEF Idle
<1> QED BY <1>1, <1>2, PlainStep

\* A merge is not skipped in a quiet behaviour.
LEMMA MergeSkippedInv ==
    ASSUME IInv, MergeSkipped
    PROVE  IInv'
<1>1. /\ rd' = Compared(rd, work) /\ ~Quiet
      /\ UNCHANGED <<exposed, refs, local, store, marks, rc>>
  BY DEF MergeSkipped, Go, Quiet
<1>2. rd' \in Reads /\ rd'.pc \in {"list", "mark"}
  BY <1>1, ReadTyped, ComparedFields
<1> QED BY <1>1, <1>2, PlainStep

LEMMA MergeInv ==
    ASSUME IInv, Merge
    PROVE  IInv'
<1>1. /\ rd.pc = "merge" /\ rd \in Reads /\ work' = work \cup track /\ rd' = Compared(rd, work')
      /\ UNCHANGED <<exposed, track, merged, local, store, marks, rc>>
  BY ReadTyped DEF Merge, Go
<1>2. /\ rd' \in Reads /\ rd'.pc \in {"list", "mark"} /\ rd'.trk = rd.trk
      /\ rd'.pc = "mark" => work' = rd.mark.work
  BY <1>1, ComparedFields
<1>3. Present' = Present /\ edges' = edges
  BY <1>1 DEF Present, store
<1>4. PICK W, T : W = marks.work /\ T = rd'.trk
  OBVIOUS
<1>5. (Holds(W) => Holds(W)') /\ (Holds(T) => Holds(T)')
  BY <1>1, <1>3, HoldsKept
<1>6. CarrierOK'
  <2>1. Holds(marks.work) => Holds(marks.work)'
    BY <1>1, <1>4, <1>5 DEF Holds
  <2> QED BY <1>1, <1>2, <2>1 DEF IInv, CarrierOK, Calm
<1>7. FetchOK'
  <2>1. Quiet => Calm /\ rd'.trk \subseteq track /\ rd'.trk \subseteq work'
    BY <1>1, <1>2, ReadTyped DEF IInv, FetchOK
  <2>2. Quiet /\ rd'.pc = "mark" => Holds(rd'.trk)
    <3> SUFFICES ASSUME Quiet, rd'.pc = "mark" PROVE Holds(T)
      BY <1>4
    <3>1. T \subseteq rd.mark.work /\ rd.cmd # "init"
      BY <1>1, <1>2, <1>4, <2>1 DEF Compared, Reads
    <3>2. rd.mark \in {marks, NoMarks}
      BY <1>1, <3>1 DEF IInv, FetchOK
    <3> QED BY <2>1, <3>1, <3>2, AlreadyHeld
  <2>3. Holds(rd'.trk) => Holds(rd.trk)'
    BY <1>4, <1>5 DEF Holds
  <2> QED BY <1>1, <1>2, <2>1, <2>2, <2>3 DEF IInv, FetchOK, Quiet
<1>8. work' \subseteq Lines
  BY <1>1, ReadTyped
<1> QED BY <1>1, <1>2, <1>6, <1>7, <1>8, ReadTyped, ReadFrame DEF local, store

-----------------------------------------------------------------------------
(* The import of a read. *)

LEMMA ImportedFields ==
    ASSUME IInv, NEW ok \in BOOLEAN
    PROVE  LET r == Imported(rd, ok) IN
           /\ r \in Reads /\ r.pc \in {"mark", "done"} /\ r.trk = rd.trk /\ r.ok = ok
           /\ r.listed = {} /\ r.oid = {} /\ r.carried = {}
BY ReadTyped DEF Imported, Reads, Stages, Oids

\* A stage of the import that is not its last.
LEMMA StageStep ==
    ASSUME IInv, UNCHANGED <<exposed, refs, local, rows, succ, edges, marks, rc>>,
           db' \in BOOLEAN, db => db', rd' \in Reads,
           rd'.pc \in {"oid", "existing", "carried", "import"}, rd.pc \notin {"idle", "marker", "merge"},
           rd'.pc \in {"carried", "import"} => db', rd'.trk = rd.trk,
           Calm =>
              /\ rd'.pc = "oid" => rd'.listed \subseteq work /\ \A l \in work \ rd'.listed : Backed(l)
              /\ rd'.pc = "existing" =>
                    rd'.oid \subseteq work /\ \A l \in rd'.oid \ rd'.listed : Backed(l)
              /\ rd'.pc \in {"carried", "import"} =>
                    rd'.oid \subseteq work /\ \A l \in rd'.oid : l \in rd'.listed \/ l.ent \in Present
              /\ rd'.pc = "import" =>
                    \A l \in rd'.oid :
                       /\ l.rel # NoEntity => <<l.ent, l.rel, "relates_to">> \in rd'.carried
                       /\ l.succ # NoEntity =>
                             \E k \in work : /\ k.ent = l.ent /\ k.succ # NoEntity
                                             /\ <<k.succ, l.ent, "supersedes">> \in rd'.carried,
           Quiet /\ rd'.pc # "oid" => rd.trk \subseteq rd'.oid
    PROVE  IInv'
<1> UNCHANGED <<track, work, merged>>
  BY DEF refs
<1>1. (\A L : Holds(L) => Holds(L)') /\ Present' = Present
  BY SameHolds
<1>2. \A l : Backed(l) => Backed(l)'
  BY SameHolds
<1>3. PICK W : W = marks.work
  OBVIOUS
<1>4. Holds(marks.work) => Holds(marks.work)'
  <2>1. Holds(W) => Holds(W)'
    BY <1>1
  <2> QED BY <1>3, <2>1 DEF Holds
<1>5. CarrierOK'
  <2> SUFFICES ASSUME Calm PROVE CarrierOK'
    BY DEF CarrierOK, Calm
  <2>1. (merged /\ marks.work \subseteq work /\ Holds(marks.work))'
    BY <1>4 DEF IInv, CarrierOK, refs
  <2>2. (rd.pc = "oid" => rd.listed \subseteq work /\ \A l \in work \ rd.listed : Backed(l))'
    BY <1>2
  <2>3. (rd.pc = "existing" => rd.oid \subseteq work /\ \A l \in rd.oid \ rd.listed : Backed(l))'
    BY <1>2
  <2>4. (rd.pc \in {"carried", "import"} =>
            rd.oid \subseteq work /\ \A l \in rd.oid : l \in rd.listed \/ l.ent \in Present)'
    BY <1>1
  <2>5. (rd.pc = "import" =>
            \A l \in rd.oid :
               /\ l.rel # NoEntity => <<l.ent, l.rel, "relates_to">> \in rd.carried
               /\ l.succ # NoEntity =>
                     \E k \in work : /\ k.ent = l.ent /\ k.succ # NoEntity
                                     /\ <<k.succ, l.ent, "supersedes">> \in rd.carried)'
    BY DEF refs
  <2> QED BY <2>1, <2>2, <2>3, <2>4, <2>5 DEF CarrierOK
<1>6. FetchOK'
  BY DEF IInv, FetchOK, Quiet, refs
<1> QED BY <1>5, <1>6, ReadTyped, ReadFrame DEF refs, local

\* The end of an import that writes no row.
LEMMA ImportedStep ==
    ASSUME IInv, UNCHANGED <<exposed, refs, local, rows, succ, edges, rc, db>>,
           rd.pc \notin {"idle", "marker", "merge"},
           NEW o \in Oids, NEW ok \in BOOLEAN, rd' = Imported(rd, ok),
           marks' = marks \/ (db /\ marks' = [marks EXCEPT !.work = o]),
           Calm => Holds(o) /\ o \subseteq work, Quiet /\ ok => rd.trk \subseteq o
    PROVE  IInv'
<1>1. /\ rd' \in Reads /\ rd'.pc \in {"mark", "done"} /\ rd'.trk = rd.trk /\ rd'.ok = ok
  BY ImportedFields
<1>2. /\ \A L : Holds(L) => Holds(L)' /\ Present' = Present
  BY SameHolds DEF refs
<1>3. /\ marks' \in [track : Oids, work : Oids] /\ marks'.track = marks.track
      /\ marks'.work \in {marks.work, o} /\ (db' \/ marks' = NoMarks)
  BY ReadTyped DEF Oids
<1>4. PICK W, T : W = marks'.work /\ T = rd'.trk
  OBVIOUS
<1>5. CarrierOK'
  <2>1. Calm => marks'.work \subseteq work /\ Holds(W)
    BY <1>3, <1>4 DEF IInv, CarrierOK
  <2>2. Holds(W) => Holds(W)'
    BY <1>2
  <2>3. Calm => Holds(marks.work)'
    BY <1>4, <2>1, <2>2 DEF Holds
  <2> QED BY <1>1, <2>1, <2>3 DEF IInv, CarrierOK, Calm, refs
<1>6. FetchOK'
  <2>1. Quiet /\ ok => Holds(T)
    BY <1>1, <1>4, ReadTyped, HoldsSubset
  <2>2. Holds(T) => Holds(T)'
    BY <1>2
  <2>3. Quiet /\ ok => Holds(rd.trk)'
    BY <1>4, <2>1, <2>2 DEF Holds
  <2> QED BY <1>1, <1>3, <2>3 DEF IInv, FetchOK, Quiet, refs
<1>7. db' \/ marks' = NoMarks
  BY <1>3, ReadTyped
<1> QED BY <1>1, <1>3, <1>5, <1>6, <1>7, ReadTyped, ReadFrame DEF refs, local

LEMMA ListInv ==
    ASSUME IInv, List \/ ListFails
    PROVE  IInv'
<1>1. PICK V \in SUBSET work : /\ rd' = [rd EXCEPT !.pc = "oid", !.listed = V]
                               /\ Calm => V = work
  <2>1. CASE List
    <3>1. Visible \in SUBSET work /\ (Calm => Visible = work)
      BY DEF Visible, IInv, CarrierOK
    <3>2. rd' = [rd EXCEPT !.pc = "oid", !.listed = Visible]
      BY <2>1 DEF List, Go
    <3> HIDE DEF Visible
    <3> QED BY <3>1, <3>2
  <2>2. CASE ListFails
    <3>1. rd' = [rd EXCEPT !.pc = "oid", !.listed = {}] /\ ~Calm
      BY <2>2 DEF ListFails, Go, Calm
    <3>2. {} \in SUBSET work
      OBVIOUS
    <3> QED BY <3>1, <3>2
  <2> QED BY <2>1, <2>2
<1>2. rd.pc = "list" /\ UNCHANGED <<exposed, refs, local, store, marks, rc>>
  BY DEF List, ListFails
<1>3. V \in Oids
  BY <1>1, ReadTyped DEF Oids
<1>4. rd' \in Reads /\ rd'.pc = "oid" /\ rd'.listed = V /\ rd'.trk = rd.trk
  BY <1>1, <1>3, ReadTyped DEF Reads, Stages
<1> QED BY <1>1, <1>2, <1>4, ReadTyped, StageStep DEF store

LEMMA ReadOidInv ==
    ASSUME IInv, ReadOid
    PROVE  IInv'
<1>1. rd.pc = "oid" /\ UNCHANGED <<exposed, refs, local, store, rc>>
  BY DEF ReadOid
<1>2. Calm => rd.listed \subseteq work /\ \A l \in work \ rd.listed : Backed(l)
  BY <1>1 DEF IInv, CarrierOK
<1>3. Quiet => rd.trk \subseteq work
  BY <1>1 DEF IInv, FetchOK
<1>4. ASSUME rd.listed = {}, (db /\ SetImported(work)) \/ UNCHANGED marks, Go(Imported(rd, TRUE))
      PROVE  IInv'
  <2>1. Calm => Holds(work)
    BY <1>2, <1>4, ReadTyped, BackedHolds
  <2>2. work \in Oids
    BY ReadTyped DEF Oids
  <2> QED BY <1>1, <1>3, <1>4, <2>1, <2>2, ImportedStep DEF SetImported, Go, store
<1>5. ASSUME Go([rd EXCEPT !.pc = "existing", !.oid = work]), UNCHANGED marks PROVE IInv'
  <2>1. rd' \in Reads /\ rd'.pc = "existing" /\ rd'.listed = rd.listed /\ rd'.oid = work /\ rd'.trk = rd.trk
    BY <1>5, ReadTyped DEF Go, Reads, Stages, Oids
  <2> QED BY <1>1, <1>2, <1>3, <1>5, <2>1, ReadTyped, StageStep DEF store
<1> QED BY <1>4, <1>5 DEF ReadOid

LEMMA ReadExistingInv ==
    ASSUME IInv, ReadExisting
    PROVE  IInv'
<1>1. /\ rd.pc = "existing" /\ db' = TRUE
      /\ UNCHANGED <<exposed, refs, local, rows, succ, edges, marks, rc>>
  BY DEF ReadExisting
<1> DEFINE K == {l \in rd.listed : l.ent \notin Present}
<1>2. rd' = [rd EXCEPT !.pc = "carried", !.listed = K] /\ K \in Oids
  BY ReadTyped DEF ReadExisting, Go, Reads, Oids
<1> HIDE DEF K
<1>3. rd' \in Reads /\ rd'.pc = "carried" /\ rd'.listed = K /\ rd'.oid = rd.oid /\ rd'.trk = rd.trk
  BY <1>2, ReadTyped DEF Reads, Stages
<1>4. Calm => rd.oid \subseteq work /\ \A l \in rd.oid : l \in K \/ l.ent \in Present
  BY <1>1 DEF IInv, CarrierOK, Backed, K
<1>5. Quiet => rd.trk \subseteq rd.oid
  BY <1>1 DEF IInv, FetchOK
<1> QED BY <1>1, <1>3, <1>4, <1>5, StageStep

\* The edges of a ref.
LEMMA CarriedTyped ==
    ASSUME IInv, NEW C \in CarriedEdges(Visible)
    PROVE  /\ C \subseteq Edges
           /\ \A l \in Visible : l.rel # NoEntity => <<l.ent, l.rel, "relates_to">> \in C
           /\ \A l \in Visible : l.succ # NoEntity =>
                 \E k \in Visible : /\ k.ent = l.ent /\ k.succ # NoEntity
                                    /\ <<k.succ, l.ent, "supersedes">> \in C
<1>1. Visible \subseteq Lines
  BY ReadTyped DEF Visible
<1>2. PICK f \in [Superseded(Visible) -> Entities] :
         /\ \A e \in Superseded(Visible) : \E l \in Visible : l.ent = e /\ l.succ = f[e]
         /\ C = {<<l.ent, l.rel, "relates_to">> : l \in {k \in Visible : k.rel # NoEntity}} \cup
                {<<f[e], e, "supersedes">> : e \in Superseded(Visible)}
  BY DEF CarriedEdges
<1>3. Superseded(Visible) \subseteq Entities
  BY <1>1 DEF Superseded, Ents, Lines
<1>4. C \subseteq Edges
  <2>1. \A l \in {k \in Visible : k.rel # NoEntity} : <<l.ent, l.rel, "relates_to">> \in Edges
    BY <1>1 DEF Lines, MaybeEntity, Edges, EdgeKinds
  <2>2. \A e \in Superseded(Visible) : <<f[e], e, "supersedes">> \in Edges
    BY <1>2, <1>3 DEF Edges, EdgeKinds
  <2> QED BY <1>2, <2>1, <2>2
<1>5. ASSUME NEW l \in Visible, l.succ # NoEntity
      PROVE  \E k \in Visible : /\ k.ent = l.ent /\ k.succ # NoEntity
                                /\ <<k.succ, l.ent, "supersedes">> \in C
  <2>1. l.ent \in Superseded(Visible)
    BY <1>5 DEF Superseded, Ents
  <2>2. PICK k \in Visible : k.ent = l.ent /\ k.succ = f[l.ent]
    BY <1>2, <2>1
  <2>3. k.succ \in Entities
    BY <1>2, <2>1, <2>2
  <2> QED BY <1>2, <2>1, <2>2, <2>3, Constants
<1> QED BY <1>2, <1>4, <1>5

LEMMA ReadCarriedInv ==
    ASSUME IInv, ReadCarried \/ ReadCarriedFails
    PROVE  IInv'
<1>1. rd.pc = "carried" /\ UNCHANGED <<exposed, refs, local, store, rc>> /\ db
  BY DEF ReadCarried, ReadCarriedFails, IInv, ReconcileOK
<1>2. PICK C : /\ Decide(C) /\ C \subseteq Edges
               /\ Calm => C \in CarriedEdges(Visible)
  <2>1. CASE ReadCarried
    BY <2>1, CarriedTyped DEF ReadCarried
  <2>2. CASE ReadCarriedFails
    BY <2>2 DEF ReadCarriedFails, Calm
  <2> QED BY <2>1, <2>2
<1>3. Calm => /\ rd.oid \subseteq work /\ \A l \in rd.oid : l \in rd.listed \/ l.ent \in Present
              /\ Visible = work
  BY <1>1 DEF IInv, CarrierOK, Visible
<1>4. Calm => \A l \in work :
        /\ l.rel # NoEntity => <<l.ent, l.rel, "relates_to">> \in C
        /\ l.succ # NoEntity => \E k \in work : /\ k.ent = l.ent /\ k.succ # NoEntity
                                               /\ <<k.succ, l.ent, "supersedes">> \in C
  BY <1>2, <1>3, CarriedTyped
<1>5. Quiet => rd.trk \subseteq rd.oid
  BY <1>1 DEF IInv, FetchOK
<1>6. ASSUME rd.listed = {}, C = {}, SetImported(rd.oid) \/ UNCHANGED marks, Go(Imported(rd, TRUE))
      PROVE  IInv'
  <2>1. Calm => Holds(rd.oid)
    <3> SUFFICES ASSUME Calm PROVE Holds(rd.oid)
      OBVIOUS
    <3>1. rd.oid \subseteq Lines /\ \A l \in rd.oid : l.rel = NoEntity /\ l.succ = NoEntity /\ l.ent \in Present
      BY <1>3, <1>4, <1>6, ReadTyped
    <3> QED BY <3>1, BackedHolds DEF Backed
  <2>2. rd.oid \in Oids
    BY ReadTyped DEF Reads
  <2> QED BY <1>1, <1>3, <1>5, <1>6, <2>1, <2>2, ImportedStep DEF SetImported, Go, store
<1>7. ASSUME Go([rd EXCEPT !.pc = "import", !.carried = C]), UNCHANGED marks PROVE IInv'
  <2>1. /\ rd' \in Reads /\ rd'.pc = "import" /\ rd'.listed = rd.listed /\ rd'.oid = rd.oid
        /\ rd'.trk = rd.trk /\ rd'.carried = C
    BY <1>2, <1>7, ReadTyped DEF Go, Reads, Stages
  <2> QED BY <1>1, <1>3, <1>4, <1>5, <1>7, <2>1, ReadTyped, StageStep DEF store
<1> QED BY <1>2, <1>6, <1>7 DEF Decide

\* A failed import changes no row and no marker.
LEMMA ImportFailsInv ==
    ASSUME IInv, ImportFails
    PROVE  IInv'
<1>1. /\ rd.pc \in {"list", "existing", "carried", "import"} /\ rd' = Imported(rd, FALSE)
      /\ UNCHANGED <<exposed, refs, local, store, marks, rc>>
  BY DEF ImportFails, Go
<1>2. Holds({}) /\ {} \in Oids /\ {} \subseteq work
  BY DEF Holds, Ents, Oids
<1> QED BY <1>1, <1>2, ImportedStep DEF store

\* The marker of the merge: a quiet read has merged what it read as fetched.
LEMMA MarkInv ==
    ASSUME IInv, Mark
    PROVE  IInv'
<1>1. /\ rd.pc = "mark" /\ UNCHANGED <<exposed, refs, local, rows, succ, edges, rc>>
      /\ rd' = [rd EXCEPT !.pc = "done"]
      /\ \/ db' = TRUE /\ marks' = [marks EXCEPT !.track = rd.trk]
         \/ UNCHANGED <<db, marks>>
  BY DEF Mark, Go
<1> UNCHANGED <<track, work, merged, out, locals>>
  BY <1>1 DEF refs, local
<1>2. /\ rd' \in Reads /\ rd'.pc = "done" /\ rd'.trk = rd.trk /\ rd'.ok = rd.ok
  BY <1>1, ReadTyped DEF Reads, Stages
<1>3. /\ marks' \in [track : Oids, work : Oids] /\ marks'.work = marks.work
      /\ marks'.track \in {marks.track, rd.trk}
  BY <1>1, ReadTyped DEF Reads
<1>4. db' \in BOOLEAN /\ (db => db') /\ (db' \/ marks' = NoMarks)
  <2>1. db \in BOOLEAN /\ (db \/ marks = NoMarks)
    BY ReadTyped
  <2>2. CASE db' = TRUE
    BY <2>2
  <2>3. CASE UNCHANGED <<db, marks>>
    BY <2>1, <2>3
  <2> QED BY <1>1, <2>2, <2>3
<1>5. (\A L : Holds(L) => Holds(L)') /\ Present' = Present
  BY SameHolds, <1>1
<1>6. PICK W, T : W = marks.work /\ T = rd.trk
  OBVIOUS
<1>7. (Holds(W) => Holds(W)') /\ (Holds(T) => Holds(T)')
  BY <1>5
<1>8. CarrierOK'
  <2>1. Holds(marks.work) => Holds(marks.work)'
    BY <1>3, <1>6, <1>7 DEF Holds
  <2> QED BY <1>1, <1>2, <1>3, <2>1 DEF IInv, CarrierOK, Calm
<1>9. FetchOK'
  <2>1. Holds(rd.trk) => Holds(rd.trk)'
    BY <1>2, <1>6, <1>7 DEF Holds
  <2> QED BY <1>1, <1>2, <1>3, <2>1 DEF IInv, FetchOK, Quiet
<1> QED BY <1>1, <1>2, <1>3, <1>4, <1>8, <1>9, ReadTyped, ReadFrame

-----------------------------------------------------------------------------
(* The store grows. *)

LEMMA InsertMissingRows ==
    ASSUME IInv, NEW status, InsertMissing(status),
           \A e \in DOMAIN status : status[e] \in {"active", "archived"}
    PROVE  /\ rows' \in [Entities -> {"none", "active", "archived"}]
           /\ \A e \in Entities : rows[e] # "none" => rows'[e] = rows[e]
           /\ \A e \in Entities : e \in DOMAIN status => rows'[e] # "none"
           /\ Present \subseteq Present'
<1>1. rows \in [Entities -> {"none", "active", "archived"}]
  BY DEF IInv, TypeOK
<1>2. /\ rows' \in [Entities -> {"none", "active", "archived"}]
      /\ \A e \in Entities : rows[e] # "none" => rows'[e] = rows[e]
      /\ \A e \in Entities : e \in DOMAIN status => rows'[e] # "none"
  BY <1>1 DEF InsertMissing
<1> QED BY <1>2 DEF Present

\* The import: every line of the OID it records has its row and its edges now.
LEMMA ImportInv ==
    ASSUME IInv, Import
    PROVE  IInv'
<1>1. /\ rd.pc = "import" /\ InsertMissing([e \in Ents(rd.listed) |-> Status(rd.listed, e)])
      /\ edges' = edges \cup Resolved(rd.carried)
      /\ marks' = [marks EXCEPT !.work = rd.oid] /\ rd' = Imported(rd, TRUE)
      /\ UNCHANGED <<exposed, refs, local, db, succ, rc>>
  BY DEF Import, SetImported, Go
<1> UNCHANGED <<track, work, merged, out, locals>>
  BY <1>1 DEF refs, local
<1>2. /\ TypeOK /\ RecOK /\ OutOK /\ CarrierOK /\ FetchOK /\ ReconcileOK /\ db
      /\ rd \in Reads /\ marks \in [track : Oids, work : Oids]
  BY <1>1, ReadTyped DEF IInv, ReconcileOK
<1>3. /\ rd' \in Reads /\ rd'.pc \in {"mark", "done"} /\ rd'.trk = rd.trk /\ rd'.ok = TRUE
  BY <1>1, ImportedFields
<1>4. /\ rows' \in [Entities -> {"none", "active", "archived"}]
      /\ \A e \in Entities : rows[e] # "none" => rows'[e] = rows[e]
      /\ \A e \in Entities : e \in Ents(rd.listed) => rows'[e] # "none"
      /\ Present \subseteq Present'
  <2>1. \A e : Status(rd.listed, e) \in {"active", "archived"}
    BY DEF Status
  <2> DEFINE status == [e \in Ents(rd.listed) |-> Status(rd.listed, e)]
  <2>2. DOMAIN status = Ents(rd.listed) /\ \A e \in DOMAIN status : status[e] \in {"active", "archived"}
    BY <2>1
  <2>3. InsertMissing(status)
    BY <1>1
  <2> HIDE DEF status
  <2> QED BY <2>2, <2>3, InsertMissingRows
<1>5. /\ marks' \in [track : Oids, work : Oids] /\ marks'.work = rd.oid /\ marks'.track = marks.track
  BY <1>1, <1>2 DEF Reads
<1>6. TypeOK'
  <2>1. \A x \in edges' : x \in Edges /\ rows'[x[1]] # "none" /\ rows'[x[2]] # "none"
    <3>1. ASSUME NEW x \in edges PROVE x \in Edges /\ rows'[x[1]] # "none" /\ rows'[x[2]] # "none"
      <4>1. x \in Edges /\ rows[x[1]] # "none" /\ rows[x[2]] # "none"
        BY <1>2 DEF TypeOK
      <4>2. x[1] \in Entities /\ x[2] \in Entities
        BY <4>1 DEF Edges
      <4> QED BY <1>4, <4>1, <4>2
    <3>2. ASSUME NEW x \in Resolved(rd.carried)
          PROVE  x \in Edges /\ rows'[x[1]] # "none" /\ rows'[x[2]] # "none"
      BY <1>2 DEF Resolved, Reads
    <3> QED BY <1>1, <3>1, <3>2
  <2>2. \A e \in Entities : succ'[e] # NoEntity => rows'[succ'[e]] # "none"
    <3> SUFFICES ASSUME NEW e \in Entities, succ[e] # NoEntity PROVE rows'[succ[e]] # "none"
      BY <1>1
    <3>1. rows[succ[e]] # "none" /\ succ[e] \in Entities
      BY <1>2 DEF TypeOK, MaybeEntity
    <3> QED BY <1>4, <3>1
  <2>3. rd'.pc \in Stages /\ marks'.track \subseteq Lines /\ marks'.work \subseteq Lines
    BY <1>3, <1>5 DEF Reads, Oids
  <2> QED BY <1>1, <1>2, <1>4, <2>1, <2>2, <2>3 DEF TypeOK
<1>7. OutOK'
  <2>1. \A l : Backed(l) => Backed(l)'
    BY <1>1, <1>4, BackedKept
  <2> QED BY <1>2, <2>1 DEF OutOK
<1>8. PICK O : O = rd.oid
  OBVIOUS
<1>9. Calm => Holds(O)'
  <2> SUFFICES ASSUME Calm PROVE Holds(O)'
    OBVIOUS
  <2>1. /\ O \subseteq work /\ O \subseteq Lines
        /\ \A l \in O : l \in rd.listed \/ l.ent \in Present
    BY <1>1, <1>2, <1>8 DEF CarrierOK, Reads, Oids
  <2>2. \A l \in O :
           /\ l.rel # NoEntity => <<l.ent, l.rel, "relates_to">> \in rd.carried
           /\ l.succ # NoEntity => \E k \in work : /\ k.ent = l.ent /\ k.succ # NoEntity
                                                  /\ <<k.succ, l.ent, "supersedes">> \in rd.carried
    BY <1>1, <1>2, <1>8 DEF CarrierOK
  <2>3. Ents(O) \subseteq Present' /\ NoEntity \notin Ents(O) /\ Ents(O) \subseteq Entities
    <3>1. Ents(O) \subseteq Entities
      BY <2>1 DEF Ents, Lines
    <3>2. ASSUME NEW l \in O PROVE l.ent \in Present'
      <4>1. CASE l \in rd.listed
        <5>1. l.ent \in Ents(rd.listed) /\ l.ent \in Entities
          BY <2>1, <4>1 DEF Ents, Lines
        <5> QED BY <1>4, <5>1 DEF Present
      <4>2. CASE l.ent \in Present
        BY <1>4, <4>2
      <4> QED BY <2>1, <4>1, <4>2
    <3> QED BY <3>1, <3>2, Constants DEF Ents
  <2>4. \A e \in Ents(O) : rows'[e] # "none"
    BY <2>3 DEF Present
  <2>5. ASSUME NEW l \in O, l.rel \in Ents(O) PROVE <<l.ent, l.rel, "relates_to">> \in edges'
    <3>1. <<l.ent, l.rel, "relates_to">> \in rd.carried
      BY <2>2, <2>3, <2>5
    <3>2. rows'[l.ent] # "none" /\ rows'[l.rel] # "none"
      BY <2>4, <2>5 DEF Ents
    <3>3. <<l.ent, l.rel, "relates_to">> \in Resolved(rd.carried)
      BY <3>1, <3>2 DEF Resolved
    <3> QED BY <1>1, <3>3
  <2>6. ASSUME NEW l \in O, l.succ \in Ents(O) \ {l.ent}
        PROVE  \E k \in O \cup work :
                  /\ k.ent = l.ent /\ k.succ # NoEntity
                  /\ \/ k.succ \notin Ents(O) \ {l.ent}
                     \/ <<k.succ, l.ent, "supersedes">> \in edges'
    <3>1. PICK k \in work : /\ k.ent = l.ent /\ k.succ # NoEntity
                            /\ <<k.succ, l.ent, "supersedes">> \in rd.carried
      BY <2>2, <2>3, <2>6
    <3>2. CASE k.succ \notin Ents(O) \ {l.ent}
      BY <3>1, <3>2
    <3>3. CASE k.succ \in Ents(O) \ {l.ent}
      <4>1. rows'[l.ent] # "none" /\ rows'[k.succ] # "none" /\ k.succ # l.ent
        BY <2>4, <3>3 DEF Ents
      <4>2. <<k.succ, l.ent, "supersedes">> \in Resolved(rd.carried)
        BY <3>1, <4>1 DEF Resolved
      <4> QED BY <1>1, <3>1, <4>2
    <3> QED BY <3>2, <3>3
  <2>7. Ents(O)' = Ents(O)
    BY DEF Ents
  <2> QED BY <2>3, <2>5, <2>6, <2>7 DEF Holds
<1>10. CarrierOK'
  <2>1. Calm => Holds(marks.work)' /\ marks'.work \subseteq work
    BY <1>1, <1>2, <1>5, <1>8, <1>9 DEF Holds, CarrierOK
  <2> QED BY <1>1, <1>2, <1>3, <2>1 DEF CarrierOK, Calm
<1>11. FetchOK'
  <2>1. PICK T : T = rd.trk
    OBVIOUS
  <2>2. ASSUME Quiet PROVE Holds(T)'
    <3>1. T \subseteq O /\ Calm /\ O \subseteq work
      BY <1>1, <1>2, <1>8, <2>1, <2>2, ReadTyped DEF FetchOK, CarrierOK
    <3>2. Holds(O)'
      BY <1>9, <3>1
    <3>3. Ents(T) \subseteq Ents(O) /\ Ents(T)' = Ents(T) /\ Ents(O)' = Ents(O)
      BY <3>1 DEF Ents
    <3>4. ASSUME NEW l \in T, l.succ \in Ents(T) \ {l.ent}
          PROVE  \E k \in T \cup work :
                    /\ k.ent = l.ent /\ k.succ # NoEntity
                    /\ \/ k.succ \notin Ents(T) \ {l.ent}
                       \/ <<k.succ, l.ent, "supersedes">> \in edges'
      <4>1. l \in O /\ l.succ \in Ents(O) \ {l.ent}
        BY <3>1, <3>3, <3>4
      <4>2. PICK k \in O \cup work :
                    /\ k.ent = l.ent /\ k.succ # NoEntity
                    /\ \/ k.succ \notin Ents(O) \ {l.ent}
                       \/ <<k.succ, l.ent, "supersedes">> \in edges'
        BY <3>2, <3>3, <4>1 DEF Holds
      <4> QED BY <3>1, <3>3, <4>2
    <3> QED BY <3>1, <3>2, <3>3, <3>4 DEF Holds
  <2>3. Quiet => Holds(rd.trk)'
    BY <1>3, <2>1, <2>2 DEF Holds
  <2> QED BY <1>1, <1>2, <1>3, <1>5, <2>3 DEF FetchOK, Quiet
<1>12. ReconcileOK' /\ RecOK'
  BY <1>1, <1>2, <1>3, <1>4, <1>5 DEF ReconcileOK, RecOK, Reconciles
<1> QED BY <1>6, <1>7, <1>10, <1>11, <1>12 DEF IInv

-----------------------------------------------------------------------------
(* Steps outside a read: git, the local commands, a reconcile. *)

\* The types after a step that takes nothing out of the store.
LEMMA TypedStep ==
    ASSUME IInv, UNCHANGED <<exposed, rd, marks>>,
           track' \subseteq TeamLines, work' \subseteq Lines, out' \subseteq Lines,
           merged' \in BOOLEAN, locals' \in 0..MaxLocal, rc' \in Reconciles,
           db' \in BOOLEAN, db => db', db' \/ rows' = rows,
           rows' \in [Entities -> {"none", "active", "archived"}], Present \subseteq Present',
           succ' \in [Entities -> MaybeEntity],
           \A e \in Entities : succ'[e] = succ[e] \/ succ'[e] \in Present',
           \A x \in edges' : x \in edges \/ (x \in Edges /\ x[1] \in Present' /\ x[2] \in Present')
    PROVE  TypeOK' /\ RecOK'
<1>1. TypeOK /\ RecOK
  BY DEF IInv
<1>2. \A e \in Present' : e \in Entities /\ rows'[e] # "none"
  BY DEF Present
<1>3. \A e \in Entities : rows[e] # "none" => rows'[e] # "none"
  BY DEF Present
<1>4. ASSUME NEW x \in edges' PROVE x \in Edges /\ rows'[x[1]] # "none" /\ rows'[x[2]] # "none"
  <2>1. CASE x \in edges
    <3>1. x \in Edges /\ rows[x[1]] # "none" /\ rows[x[2]] # "none"
      BY <1>1, <2>1 DEF TypeOK
    <3>2. x[1] \in Entities /\ x[2] \in Entities
      BY <3>1 DEF Edges
    <3> QED BY <1>3, <3>1, <3>2
  <2>2. CASE x \in Edges /\ x[1] \in Present' /\ x[2] \in Present'
    BY <1>2, <2>2
  <2> QED BY <2>1, <2>2
<1>5. ASSUME NEW e \in Entities, succ'[e] # NoEntity PROVE rows'[succ'[e]] # "none"
  <2>1. CASE succ'[e] = succ[e]
    <3>1. rows[succ[e]] # "none" /\ succ[e] \in Entities
      BY <1>1, <1>5, <2>1 DEF TypeOK, MaybeEntity
    <3> QED BY <1>3, <2>1, <3>1
  <2>2. CASE succ'[e] \in Present'
    BY <1>2, <2>2
  <2> QED BY <2>1, <2>2
<1>6. ~db' => marks' = NoMarks /\ \A e \in Entities : rows'[e] = "none"
  BY <1>1 DEF TypeOK
<1>7. /\ exposed' \in Exposures /\ marks'.track \subseteq Lines /\ marks'.work \subseteq Lines
      /\ rd'.pc \in Stages /\ rc'.pc \in {"idle", "import", "link", "done"}
  BY <1>1 DEF TypeOK, Reconciles
<1>8. TypeOK'
  BY <1>4, <1>5, <1>6, <1>7 DEF TypeOK
<1>9. RecOK'
  <2>1. Reconciles' = Reconciles /\ Reads' = Reads
    BY DEF Reconciles, Reads
  <2> QED BY <1>1, <2>1 DEF RecOK
<1> QED BY <1>8, <1>9

\* A reconcile under way is told of nothing that others write.
LEMMA ReconcileKept ==
    ASSUME IInv, UNCHANGED <<rd, rc>>, Present \subseteq Present', db => db',
           \A e \in Entities : succ'[e] = succ[e] \/ succ'[e] \in Present'
    PROVE  ReconcileOK'
<1>1. \A e \in Entities : succ[e] # NoEntity => succ'[e] # NoEntity
  BY Constants DEF Present
<1>2. ReconcileOK
  BY DEF IInv
<1>3. (rc.pc = "import" => Candidates \subseteq Present \cup rc.fresh)'
  BY <1>2 DEF ReconcileOK
<1>4. (rc.pc \in {"link", "done"} => Candidates \subseteq Present)'
  BY <1>2 DEF ReconcileOK
<1>5. (rc.pc \in {"link", "done"} =>
          \A x \in ServerLinks : x[1] \in rc.fresh /\ Status(ServerNotes, x[1]) = "archived" =>
              succ[x[1]] # NoEntity \/ x \in rc.unresolved \/ (rc.pc = "link" /\ x \in rc.links))'
  <2> SUFFICES ASSUME rc.pc \in {"link", "done"}, NEW x \in ServerLinks, x[1] \in rc.fresh,
                      Status(ServerNotes, x[1]) = "archived"
               PROVE  succ'[x[1]] # NoEntity \/ x \in rc.unresolved \/ (rc.pc = "link" /\ x \in rc.links)
    OBVIOUS
  <2>1. succ[x[1]] # NoEntity \/ x \in rc.unresolved \/ (rc.pc = "link" /\ x \in rc.links)
    BY <1>2 DEF ReconcileOK
  <2>2. x[1] \in Entities
    BY Constants
  <2> QED BY <1>1, <2>1, <2>2
<1>6. (rc.pc \in {"import", "link"} => db)' /\ (rd.pc \in {"carried", "import"} => db)'
  BY <1>2 DEF ReconcileOK
<1> QED BY <1>3, <1>4, <1>5, <1>6 DEF ReconcileOK

\* git moves a ref or HEAD: the store stays as it is.
LEMMA GitInv ==
    ASSUME IInv, OtherMerge \/ (\E l \in TeamLines : Fetch(l)) \/ HeadMoves
    PROVE  IInv'
<1>1. UNCHANGED <<exposed, rd, marks, rc, out, locals, db, rows, succ, edges>>
  BY DEF OtherMerge, Fetch, HeadMoves, local, store
<1>2. /\ track \subseteq track' /\ track' \subseteq TeamLines /\ work' \subseteq Lines /\ merged' \in BOOLEAN
      /\ Calm => merged' /\ work' = work
  <2>1. /\ track \subseteq TeamLines /\ work \subseteq Lines /\ merged \in BOOLEAN /\ (Calm => merged)
        /\ TeamLines \subseteq Lines
    BY Constants DEF IInv, TypeOK, CarrierOK
  <2>2. CASE OtherMerge
    BY <2>1, <2>2 DEF OtherMerge, Calm
  <2>3. CASE \E l \in TeamLines : Fetch(l)
    BY <2>1, <2>3 DEF Fetch
  <2>4. CASE HeadMoves
    BY <2>1, <2>4 DEF HeadMoves
  <2> QED BY <2>2, <2>3, <2>4
<1>3. TypeOK /\ RecOK /\ OutOK
  BY DEF IInv
<1>4. Present' = Present
  BY <1>1 DEF Present
<1>5. TypeOK' /\ RecOK'
  <2>1. /\ out' \subseteq Lines /\ locals' \in 0..MaxLocal /\ rc' \in Reconciles /\ db' \in BOOLEAN
        /\ rows' \in [Entities -> {"none", "active", "archived"}] /\ succ' \in [Entities -> MaybeEntity]
    BY <1>1, <1>3 DEF TypeOK, RecOK
  <2>2. db => db'
    BY <1>1
  <2>3. /\ \A e \in Entities : succ'[e] = succ[e] \/ succ'[e] \in Present'
        /\ \A x \in edges' : x \in edges \/ (x \in Edges /\ x[1] \in Present' /\ x[2] \in Present')
        /\ db' \/ rows' = rows
    BY <1>1
  <2> QED BY <1>1, <1>2, <1>4, <2>1, <2>2, <2>3, TypedStep
<1>6. CarrierOK' /\ FetchOK'
  BY <1>1, <1>2, <1>4, StoreFrame
<1>7. OutOK'
  BY <1>1, <1>3, <1>4 DEF OutOK, Backed
<1>8. ReconcileOK'
  BY <1>1, <1>4, ReconcileKept
<1> QED BY <1>5, <1>6, <1>7, <1>8 DEF IInv

\* A line is appended whose row and edges are in the store already.
LEMMA AppendInv ==
    ASSUME IInv, NEW l \in out, Append(l) \/ AppendFails(l)
    PROVE  IInv'
<1>1. /\ UNCHANGED <<exposed, rd, marks, rc, locals, track, merged, db, rows, succ, edges>>
      /\ out' = out \ {l} /\ work' \in {work, work \cup {l}}
  BY DEF Append, AppendFails, refs, local, store
<1>2. TypeOK /\ RecOK /\ OutOK
  BY DEF IInv
<1>3. Present' = Present
  BY <1>1 DEF Present
<1>4. \A k : Backed(k) => Backed(k)'
  BY <1>1, <1>3, BackedKept
<1>5. TypeOK' /\ RecOK'
  <2>1. /\ out' \subseteq Lines /\ locals' \in 0..MaxLocal /\ rc' \in Reconciles /\ db' \in BOOLEAN
        /\ rows' \in [Entities -> {"none", "active", "archived"}] /\ succ' \in [Entities -> MaybeEntity]
        /\ track' \subseteq TeamLines /\ merged' \in BOOLEAN
    BY <1>1, <1>2 DEF TypeOK, RecOK
  <2>2. work' \subseteq Lines
    BY <1>1, <1>2 DEF TypeOK
  <2>3. db => db'
    BY <1>1
  <2>4. /\ \A e \in Entities : succ'[e] = succ[e] \/ succ'[e] \in Present'
        /\ \A x \in edges' : x \in edges \/ (x \in Edges /\ x[1] \in Present' /\ x[2] \in Present')
        /\ db' \/ rows' = rows
    BY <1>1
  <2> QED BY <1>1, <1>3, <2>1, <2>2, <2>3, <2>4, TypedStep
<1>6. CarrierOK' /\ FetchOK'
  <2>1. work \subseteq work' /\ \A k \in work' \ work : Backed(k)'
    BY <1>1, <1>2, <1>4 DEF OutOK
  <2>2. Calm => merged'
    BY <1>1 DEF IInv, CarrierOK
  <2>3. Present \subseteq Present' /\ edges \subseteq edges' /\ track \subseteq track'
    BY <1>1, <1>3
  <2> QED BY <1>1, <2>1, <2>2, <2>3, StoreFrame
<1>7. OutOK'
  BY <1>1, <1>2, <1>4 DEF OutOK
<1>8. ReconcileOK'
  BY <1>1, <1>3, ReconcileKept
<1> QED BY <1>5, <1>6, <1>7, <1>8 DEF IInv

\* A local command: the lines it leaves to append are backed by what it wrote.
LEMMA CommandStep ==
    ASSUME IInv, NEW L \in SUBSET Lines, Carry(L),
           rows' \in [Entities -> {"none", "active", "archived"}], Present \subseteq Present',
           succ' \in [Entities -> MaybeEntity],
           \A e \in Entities : succ'[e] = succ[e] \/ succ'[e] \in Present',
           edges \subseteq edges',
           \A x \in edges' : x \in edges \/ (x \in Edges /\ x[1] \in Present' /\ x[2] \in Present'),
           \A l \in L : Backed(l)'
    PROVE  IInv'
<1>1. /\ UNCHANGED <<exposed, rd, marks, rc, track, work, merged>>
      /\ out' = out \cup L /\ db' = TRUE /\ locals < MaxLocal /\ locals' = locals + 1
  BY DEF Carry, refs
<1>2. TypeOK /\ RecOK /\ OutOK
  BY DEF IInv
<1>3. TypeOK' /\ RecOK'
  <2>1. locals' \in 0..MaxLocal
    BY <1>1, <1>2, Constants DEF TypeOK
  <2>2. /\ out' \subseteq Lines /\ rc' \in Reconciles /\ db' \in BOOLEAN
        /\ track' \subseteq TeamLines /\ work' \subseteq Lines /\ merged' \in BOOLEAN
    BY <1>1, <1>2 DEF TypeOK, RecOK
  <2>3. (db => db') /\ (db' \/ rows' = rows)
    BY <1>1
  <2> QED BY <1>1, <2>1, <2>2, <2>3, TypedStep
<1>4. CarrierOK' /\ FetchOK'
  <2>1. Calm => merged'
    BY <1>1 DEF IInv, CarrierOK
  <2> QED BY <1>1, <2>1, StoreFrame
<1>5. OutOK'
  <2>1. \A l : Backed(l) => Backed(l)'
    BY BackedKept
  <2> QED BY <1>1, <1>2, <2>1 DEF OutOK
<1>6. ReconcileOK'
  BY <1>1, ReconcileKept
<1> QED BY <1>3, <1>4, <1>5, <1>6 DEF IInv

LEMMA StoreTyped ==
    ASSUME IInv
    PROVE  /\ rows \in [Entities -> {"none", "active", "archived"}]
           /\ succ \in [Entities -> MaybeEntity]
           /\ edges \subseteq Edges /\ NoEntity \in MaybeEntity /\ Entities \subseteq MaybeEntity
BY DEF IInv, TypeOK, MaybeEntity

LEMMA LocalAddInv ==
    ASSUME IInv, NEW e \in LocalEntities, NEW rel \in (Present \ {e}) \cup {NoEntity}, LocalAdd(e, rel)
    PROVE  IInv'
<1>1. /\ InsertMissing([x \in {e} |-> "active"]) /\ UNCHANGED succ
      /\ edges' = edges \cup (IF rel = NoEntity THEN {} ELSE {<<e, rel, "relates_to">>})
      /\ Carry({Line(e, FALSE, NoEntity, rel)})
  BY DEF LocalAdd
<1> DEFINE status == [x \in {e} |-> "active"]
           l == Line(e, FALSE, NoEntity, rel)
<1>2. e \in Entities /\ rel \in MaybeEntity /\ NoEntity \in MaybeEntity
  BY Constants, StoreTyped DEF Present
<1>3. l \in Lines /\ l.ent = e /\ l.succ = NoEntity /\ l.rel = rel
  BY <1>2 DEF Line, Lines
<1>4. DOMAIN status = {e} /\ \A x \in DOMAIN status : status[x] \in {"active", "archived"}
  OBVIOUS
<1>5. InsertMissing(status) /\ Carry({l})
  BY <1>1
<1> HIDE DEF status, l
<1>6. /\ rows' \in [Entities -> {"none", "active", "archived"}]
      /\ \A x \in Entities : x \in DOMAIN status => rows'[x] # "none"
      /\ Present \subseteq Present'
  BY <1>4, <1>5, InsertMissingRows
<1>7. e \in Present'
  BY <1>2, <1>4, <1>6 DEF Present
<1>8. \A x \in edges' : x \in edges \/ (x \in Edges /\ x[1] \in Present' /\ x[2] \in Present')
  <2> SUFFICES ASSUME rel # NoEntity
               PROVE  <<e, rel, "relates_to">> \in Edges /\ e \in Present' /\ rel \in Present'
    BY <1>1
  <2>1. rel \in Present /\ rel \in Entities
    BY DEF Present
  <2> QED BY <1>2, <1>6, <1>7, <2>1 DEF Edges, EdgeKinds
<1>9. Backed(l)'
  <2>1. l.rel # NoEntity => <<e, rel, "relates_to">> \in edges'
    BY <1>1, <1>3
  <2> QED BY <1>3, <1>7, <2>1 DEF Backed
<1>10. edges \subseteq edges'
  BY <1>1
<1>11. /\ succ' \in [Entities -> MaybeEntity]
       /\ \A x \in Entities : succ'[x] = succ[x] \/ succ'[x] \in Present'
  BY <1>1, StoreTyped
<1>12. {l} \in SUBSET Lines /\ \A k \in {l} : Backed(k)'
  BY <1>3, <1>9
<1> QED BY <1>5, <1>6, <1>8, <1>10, <1>11, <1>12, CommandStep

\* What a supersede writes.
LEMMA SupersedeFacts ==
    ASSUME IInv, NEW old \in Entities, NEW new \in Entities, Supersede(old, new),
           old \in Present', new \in Present'
    PROVE  /\ succ' \in [Entities -> MaybeEntity]
           /\ \A e \in Entities : succ'[e] = succ[e] \/ succ'[e] \in Present'
           /\ edges \subseteq edges' /\ <<new, old, "supersedes">> \in edges'
           /\ \A x \in edges' : x \in edges \/ (x \in Edges /\ x[1] \in Present' /\ x[2] \in Present')
<1>1. succ' = [succ EXCEPT ![old] = new] /\ edges' = edges \cup {<<new, old, "supersedes">>}
  BY DEF Supersede
<1>2. succ \in [Entities -> MaybeEntity] /\ new \in MaybeEntity
  BY StoreTyped
<1>3. /\ succ' \in [Entities -> MaybeEntity]
      /\ \A e \in Entities : succ'[e] = succ[e] \/ succ'[e] \in Present'
  BY <1>1, <1>2
<1>4. <<new, old, "supersedes">> \in Edges
  BY DEF Edges, EdgeKinds
<1> QED BY <1>1, <1>3, <1>4

\* Archiving an entry takes no row away.
LEMMA ArchivedRows ==
    ASSUME IInv, NEW e \in Entities, rows' = [rows EXCEPT ![e] = "archived"]
    PROVE  /\ rows' \in [Entities -> {"none", "active", "archived"}]
           /\ Present \subseteq Present' /\ e \in Present'
<1>1. rows \in [Entities -> {"none", "active", "archived"}]
  BY StoreTyped
<1>2. /\ rows' \in [Entities -> {"none", "active", "archived"}]
      /\ \A x \in Entities : rows[x] # "none" => rows'[x] # "none"
      /\ rows'[e] # "none"
  BY <1>1
<1> QED BY <1>2 DEF Present

LEMMA LocalSupersedeInv ==
    ASSUME IInv, NEW old \in Entities, NEW new \in Entities, LocalSupersede(old, new)
    PROVE  IInv'
<1>1. /\ rows' = [rows EXCEPT ![old] = "archived"] /\ new \in Present
      /\ Supersede(old, new) /\ Carry({Line(old, TRUE, new, NoEntity)})
  BY DEF LocalSupersede
<1>2. PICK l : l = Line(old, TRUE, new, NoEntity)
  OBVIOUS
<1>3. l \in Lines /\ l.ent = old /\ l.succ = new /\ l.rel = NoEntity
  BY <1>2, StoreTyped DEF Line, Lines
<1>4. /\ rows' \in [Entities -> {"none", "active", "archived"}]
      /\ Present \subseteq Present' /\ old \in Present' /\ new \in Present'
  BY <1>1, ArchivedRows
<1>5. /\ succ' \in [Entities -> MaybeEntity]
      /\ \A e \in Entities : succ'[e] = succ[e] \/ succ'[e] \in Present'
      /\ edges \subseteq edges' /\ <<new, old, "supersedes">> \in edges'
      /\ \A x \in edges' : x \in edges \/ (x \in Edges /\ x[1] \in Present' /\ x[2] \in Present')
  BY <1>1, <1>4, SupersedeFacts
<1>6. Backed(l)'
  BY <1>3, <1>4, <1>5 DEF Backed
<1>7. Carry({l}) /\ {l} \in SUBSET Lines /\ \A k \in {l} : Backed(k)'
  BY <1>1, <1>2, <1>3, <1>6
<1> QED BY <1>4, <1>5, <1>7, CommandStep

LEMMA LocalArchiveInv ==
    ASSUME IInv, NEW e \in Entities, LocalArchive(e)
    PROVE  IInv'
<1>1. /\ rows' = [rows EXCEPT ![e] = "archived"] /\ UNCHANGED <<succ, edges>>
      /\ Carry({Line(e, TRUE, NoEntity, NoEntity)})
  BY DEF LocalArchive
<1>2. PICK l : l = Line(e, TRUE, NoEntity, NoEntity)
  OBVIOUS
<1>3. l \in Lines /\ l.ent = e /\ l.succ = NoEntity /\ l.rel = NoEntity
  BY <1>2, StoreTyped DEF Line, Lines
<1>4. /\ rows' \in [Entities -> {"none", "active", "archived"}]
      /\ Present \subseteq Present' /\ e \in Present'
  BY <1>1, ArchivedRows
<1>5. Backed(l)'
  BY <1>3, <1>4 DEF Backed
<1>6. Carry({l}) /\ {l} \in SUBSET Lines /\ \A k \in {l} : Backed(k)'
  BY <1>1, <1>2, <1>3, <1>5
<1>7. succ' \in [Entities -> MaybeEntity]
  BY <1>1, StoreTyped
<1> QED BY <1>1, <1>4, <1>6, <1>7, CommandStep

LEMMA LocalAddSupersedingInv ==
    ASSUME IInv, NEW e \in LocalEntities, NEW old \in Entities, LocalAddSuperseding(e, old)
    PROVE  IInv'
<1>1. /\ rows[old] = "active"
      /\ Carry({Line(e, FALSE, NoEntity, NoEntity), Line(old, TRUE, e, NoEntity)})
  BY DEF LocalAddSuperseding
<1>2. PICK l, k : l = Line(e, FALSE, NoEntity, NoEntity) /\ k = Line(old, TRUE, e, NoEntity)
  OBVIOUS
<1>3. /\ e \in Entities /\ NoEntity \notin Entities
      /\ rows \in [Entities -> {"none", "active", "archived"}] /\ succ \in [Entities -> MaybeEntity]
  BY Constants, StoreTyped
<1>4. /\ l \in Lines /\ l.ent = e /\ l.succ = NoEntity /\ l.rel = NoEntity
      /\ k \in Lines /\ k.ent = old /\ k.succ = e /\ k.rel = NoEntity
  BY <1>2, <1>3, StoreTyped DEF Line, Lines
<1>5. Carry({l, k}) /\ {l, k} \in SUBSET Lines
  BY <1>1, <1>2, <1>4
<1>6. CASE e = old /\ UNCHANGED <<rows, succ, edges>>
  <2>1. Present' = Present /\ old \in Present
    BY <1>1, <1>6 DEF Present
  <2>2. \A x \in {l, k} : Backed(x)'
    BY <1>4, <1>6, <2>1 DEF Backed
  <2> QED BY <1>3, <1>5, <1>6, <2>1, <2>2, CommandStep
<1>7. CASE /\ e # old
           /\ rows' = [rows EXCEPT ![e] = IF @ = "none" THEN "active" ELSE @, ![old] = "archived"]
           /\ Supersede(old, e)
  <2>1. /\ rows' \in [Entities -> {"none", "active", "archived"}]
        /\ \A x \in Entities : rows[x] # "none" => rows'[x] # "none"
        /\ rows'[e] # "none" /\ rows'[old] # "none"
    BY <1>3, <1>7
  <2>2. Present \subseteq Present' /\ e \in Present' /\ old \in Present'
    BY <1>3, <2>1 DEF Present
  <2>3. /\ succ' \in [Entities -> MaybeEntity]
        /\ \A x \in Entities : succ'[x] = succ[x] \/ succ'[x] \in Present'
        /\ edges \subseteq edges' /\ <<e, old, "supersedes">> \in edges'
        /\ \A x \in edges' : x \in edges \/ (x \in Edges /\ x[1] \in Present' /\ x[2] \in Present')
    BY <1>3, <1>7, <2>2, SupersedeFacts
  <2>4. \A x \in {l, k} : Backed(x)'
    BY <1>4, <2>2, <2>3 DEF Backed
  <2> QED BY <1>5, <2>1, <2>2, <2>3, <2>4, CommandStep
<1> QED BY <1>6, <1>7 DEF LocalAddSuperseding

\* A step of a reconcile: what it has to show of itself is ReconcileOK'.
LEMMA ReconcileStep ==
    ASSUME IInv, UNCHANGED <<exposed, refs, local, edges, marks, rd>>, rc' \in Reconciles, ReconcileOK',
           db' \in BOOLEAN, db => db', db' \/ rows' = rows,
           rows' \in [Entities -> {"none", "active", "archived"}], Present \subseteq Present',
           succ' \in [Entities -> MaybeEntity],
           \A e \in Entities : succ'[e] = succ[e] \/ succ'[e] \in Present'
    PROVE  IInv'
<1> UNCHANGED <<track, work, merged, out, locals>>
  BY DEF refs, local
<1>1. TypeOK /\ RecOK /\ OutOK
  BY DEF IInv
<1>2. TypeOK' /\ RecOK'
  <2>1. /\ track' \subseteq TeamLines /\ work' \subseteq Lines /\ out' \subseteq Lines
        /\ merged' \in BOOLEAN /\ locals' \in 0..MaxLocal
    BY <1>1 DEF TypeOK
  <2> QED BY <2>1, TypedStep
<1>3. CarrierOK' /\ FetchOK'
  <2>1. Calm => merged'
    BY DEF IInv, CarrierOK
  <2> QED BY <2>1, StoreFrame
<1>4. OutOK'
  <2>1. \A l : Backed(l) => Backed(l)'
    BY BackedKept
  <2> QED BY <1>1, <2>1 DEF OutOK
<1> QED BY <1>2, <1>3, <1>4 DEF IInv

LEMMA ReconcileStartInv ==
    ASSUME IInv, ReconcileStart
    PROVE  IInv'
<1> DEFINE fresh == Candidates \ Present
<1>1. /\ db' = TRUE /\ UNCHANGED <<exposed, refs, local, rows, succ, edges, marks, rd>>
      /\ rc' = [NoReconcile EXCEPT !.pc = IF fresh = {} THEN "done" ELSE "import", !.fresh = fresh]
  BY DEF ReconcileStart
<1>2. PICK F : F = fresh
  OBVIOUS
<1>3. F \in SUBSET Entities /\ Candidates \subseteq Present \cup F
  BY <1>2, Constants
<1>4. /\ rc' \in Reconciles /\ rc'.pc \in {"import", "done"} /\ rc'.fresh = F
      /\ rc'.pc = "done" => F = {}
  BY <1>1, <1>2, <1>3 DEF NoReconcile, Reconciles
<1>5. Present' = Present
  BY <1>1 DEF Present
<1>6. ReconcileOK'
  BY <1>1, <1>3, <1>4, <1>5 DEF ReconcileOK
<1>7. /\ rows' \in [Entities -> {"none", "active", "archived"}] /\ succ' \in [Entities -> MaybeEntity]
  BY <1>1, StoreTyped
<1>8. db' \in BOOLEAN /\ (db => db')
  BY <1>1
<1> QED BY <1>1, <1>4, <1>5, <1>6, <1>7, <1>8, ReconcileStep

LEMMA ReconcileImportInv ==
    ASSUME IInv, ReconcileImport
    PROVE  IInv'
<1> DEFINE status == [e \in rc.fresh |-> Status(ServerNotes, e)]
           links == {x \in ServerLinks : x[1] \in rc.fresh /\ Status(ServerNotes, x[1]) = "archived"}
<1>1. /\ rc.pc = "import" /\ InsertMissing(status)
      /\ rc' = [rc EXCEPT !.pc = "link", !.links = links]
      /\ UNCHANGED <<exposed, refs, local, db, succ, edges, marks, rd>>
  BY DEF ReconcileImport
<1>2. DOMAIN status = rc.fresh /\ \A e \in DOMAIN status : status[e] \in {"active", "archived"}
  BY DEF Status
<1> HIDE DEF status
<1>3. /\ rows' \in [Entities -> {"none", "active", "archived"}]
      /\ \A e \in Entities : e \in DOMAIN status => rows'[e] # "none"
      /\ Present \subseteq Present'
  BY <1>1, <1>2, InsertMissingRows
<1>4. /\ rc \in Reconciles /\ db = TRUE /\ db \in BOOLEAN
      /\ Candidates \subseteq Present \cup rc.fresh /\ succ \in [Entities -> MaybeEntity]
  <2>1. rc \in Reconciles /\ db /\ Candidates \subseteq Present \cup rc.fresh
    BY <1>1 DEF IInv, RecOK, ReconcileOK
  <2>2. db \in BOOLEAN
    BY ReadTyped
  <2> QED BY <2>1, <2>2, StoreTyped
<1>5. Candidates \subseteq Present'
  <2> SUFFICES ASSUME NEW e \in Candidates PROVE e \in Present'
    OBVIOUS
  <2>1. CASE e \in Present
    BY <1>3, <2>1
  <2>2. CASE e \in rc.fresh
    BY <1>2, <1>3, <2>2, Constants DEF Present
  <2> QED BY <1>4, <2>1, <2>2
<1>6. PICK M : M = links
  OBVIOUS
<1>7. /\ M \in SUBSET ServerLinks
      /\ \A x \in ServerLinks : x[1] \in rc.fresh /\ Status(ServerNotes, x[1]) = "archived" => x \in M
  BY <1>6
<1>8. rc' \in Reconciles /\ rc'.pc = "link" /\ rc'.fresh = rc.fresh /\ rc'.links = M
  BY <1>1, <1>4, <1>6, <1>7 DEF Reconciles
<1>9. ReconcileOK'
  <2>1. \A x \in ServerLinks : x[1] \in rc'.fresh /\ Status(ServerNotes, x[1]) = "archived" => x \in rc'.links
    BY <1>7, <1>8
  <2> QED BY <1>1, <1>4, <1>5, <1>8, <2>1 DEF ReconcileOK
<1>10. db' \in BOOLEAN /\ (db => db') /\ db' /\ succ' \in [Entities -> MaybeEntity]
  BY <1>1, <1>4
<1> QED BY <1>1, <1>3, <1>8, <1>9, <1>10, ReconcileStep

\* A link that is not written is reported.
LEMMA ReconcileLinkInv ==
    ASSUME IInv, ReconcileLink
    PROVE  IInv'
<1>1. PICK x \in rc.links :
         \/ /\ succ' = [succ EXCEPT ![x[1]] = x[2]]
            /\ rc' = [rc EXCEPT !.links = @ \ {x}]
         \/ /\ UNCHANGED succ
            /\ rc' = [rc EXCEPT !.links = @ \ {x}, !.unresolved = @ \cup {x}]
  BY DEF ReconcileLink
<1>2. rc.pc = "link" /\ UNCHANGED <<exposed, refs, local, db, rows, edges, marks, rd>>
  BY DEF ReconcileLink
<1>3. /\ rc \in Reconciles /\ db \in BOOLEAN /\ succ \in [Entities -> MaybeEntity] /\ ReconcileOK /\ db
      /\ rows \in [Entities -> {"none", "active", "archived"}]
  BY <1>2, StoreTyped, ReadTyped DEF IInv, RecOK, ReconcileOK
<1>4. /\ Candidates \subseteq Present
      /\ \A y \in ServerLinks : y[1] \in rc.fresh /\ Status(ServerNotes, y[1]) = "archived" =>
              succ[y[1]] # NoEntity \/ y \in rc.unresolved \/ y \in rc.links
  BY <1>2, <1>3 DEF ReconcileOK
<1>5. /\ x \in ServerLinks /\ x[1] \in Entities /\ x[2] \in Entities /\ x[2] \in Present
      /\ NoEntity \notin Entities
  BY <1>3, <1>4, Constants DEF Reconciles
<1>6. Present' = Present
  BY <1>2 DEF Present
<1>7. /\ rc' \in Reconciles /\ rc'.pc = "link" /\ rc'.fresh = rc.fresh /\ rc'.links = rc.links \ {x}
      /\ \/ succ' = [succ EXCEPT ![x[1]] = x[2]] /\ rc'.unresolved = rc.unresolved
         \/ succ' = succ /\ rc'.unresolved = rc.unresolved \cup {x}
  <2>1. /\ rc.links \ {x} \in SUBSET ServerLinks /\ rc.unresolved \cup {x} \in SUBSET ServerLinks
    BY <1>2, <1>3, <1>5 DEF Reconciles
  <2>2. CASE succ' = [succ EXCEPT ![x[1]] = x[2]] /\ rc' = [rc EXCEPT !.links = rc.links \ {x}]
    <3>1. /\ rc' \in Reconciles /\ rc'.pc = "link" /\ rc'.fresh = rc.fresh /\ rc'.links = rc.links \ {x}
          /\ rc'.unresolved = rc.unresolved
      BY <1>2, <1>3, <2>1, <2>2 DEF Reconciles
    <3> QED BY <2>2, <3>1
  <2>3. CASE /\ succ' = succ
             /\ rc' = [rc EXCEPT !.links = rc.links \ {x}, !.unresolved = rc.unresolved \cup {x}]
    <3>1. /\ rc' \in Reconciles /\ rc'.pc = "link" /\ rc'.fresh = rc.fresh /\ rc'.links = rc.links \ {x}
          /\ rc'.unresolved = rc.unresolved \cup {x}
      BY <1>2, <1>3, <2>1, <2>3 DEF Reconciles
    <3> QED BY <2>3, <3>1
  <2> QED BY <1>1, <2>2, <2>3
<1>8. /\ succ' \in [Entities -> MaybeEntity]
      /\ \A e \in Entities : succ'[e] = succ[e] \/ succ'[e] \in Present'
      /\ \A e \in Entities : succ[e] # NoEntity => succ'[e] # NoEntity
  BY <1>3, <1>5, <1>6, <1>7 DEF MaybeEntity
<1>9. \A y \in ServerLinks : y[1] \in rc'.fresh /\ Status(ServerNotes, y[1]) = "archived" =>
              succ'[y[1]] # NoEntity \/ y \in rc'.unresolved \/ y \in rc'.links
  <2> SUFFICES ASSUME NEW y \in ServerLinks, y[1] \in rc.fresh, Status(ServerNotes, y[1]) = "archived"
               PROVE  succ'[y[1]] # NoEntity \/ y \in rc'.unresolved \/ y \in rc'.links
    BY <1>7
  <2>1. succ[y[1]] # NoEntity \/ y \in rc.unresolved \/ y \in rc.links
    BY <1>4
  <2>2. y[1] \in Entities
    BY Constants
  <2>3. CASE y = x
    BY <1>3, <1>5, <1>7, <2>3
  <2>4. CASE y # x
    BY <1>7, <1>8, <2>1, <2>2, <2>4
  <2> QED BY <2>3, <2>4
<1>10. ReconcileOK'
  BY <1>2, <1>3, <1>4, <1>6, <1>7, <1>9 DEF ReconcileOK
<1>11. db' \in BOOLEAN /\ (db => db')
  BY <1>2, <1>3
<1>12. rows' \in [Entities -> {"none", "active", "archived"}] /\ rows' = rows
  BY <1>2, <1>3
<1> QED BY <1>2, <1>6, <1>7, <1>8, <1>10, <1>11, <1>12, ReconcileStep

LEMMA ReconcileEndInv ==
    ASSUME IInv, ReconcileDone \/ ReconcileEnds
    PROVE  IInv'
<1>1. /\ UNCHANGED <<exposed, refs, local, store, marks, rd>>
      /\ \/ rc.pc = "link" /\ rc.links = {} /\ rc' = [rc EXCEPT !.pc = "done"]
         \/ rc' = NoReconcile
  BY DEF ReconcileDone, ReconcileEnds
<1>2. /\ rc \in Reconciles /\ db \in BOOLEAN /\ succ \in [Entities -> MaybeEntity] /\ ReconcileOK
      /\ rows \in [Entities -> {"none", "active", "archived"}]
  BY StoreTyped, ReadTyped DEF IInv, RecOK
<1>3. Present' = Present /\ UNCHANGED <<db, rows, succ, edges>>
  BY <1>1 DEF Present, store
<1>4. rc' \in Reconciles /\ ReconcileOK'
  <2>1. CASE rc' = NoReconcile
    <3>1. rc' \in Reconciles /\ rc'.pc = "idle"
      BY <2>1 DEF NoReconcile, Reconciles
    <3> QED BY <1>1, <1>2, <1>3, <3>1 DEF ReconcileOK
  <2>2. CASE rc.pc = "link" /\ rc.links = {} /\ rc' = [rc EXCEPT !.pc = "done"]
    <3>1. /\ rc' \in Reconciles /\ rc'.pc = "done" /\ rc'.fresh = rc.fresh
          /\ rc'.unresolved = rc.unresolved
      BY <1>2, <2>2 DEF Reconciles
    <3>2. \A x \in ServerLinks : x[1] \in rc.fresh /\ Status(ServerNotes, x[1]) = "archived" =>
              succ[x[1]] # NoEntity \/ x \in rc.unresolved
      BY <1>2, <2>2 DEF ReconcileOK
    <3> QED BY <1>1, <1>2, <1>3, <2>2, <3>1, <3>2 DEF ReconcileOK
  <2> QED BY <1>1, <2>1, <2>2
<1>5. /\ db' \in BOOLEAN /\ (db => db') /\ rows' = rows
      /\ rows' \in [Entities -> {"none", "active", "archived"}] /\ succ' \in [Entities -> MaybeEntity]
      /\ \A e \in Entities : succ'[e] = succ[e]
  BY <1>2, <1>3
<1> QED BY <1>1, <1>3, <1>4, <1>5, ReconcileStep

-----------------------------------------------------------------------------
(* The invariant. *)

LEMMA InitIInv == Init => IInv
<1> SUFFICES ASSUME Init PROVE IInv
  OBVIOUS
<1>1. /\ exposed \in Exposures /\ track = {} /\ work = {} /\ merged = ("head" \notin exposed)
      /\ out = {} /\ locals = 0 /\ db = FALSE /\ rows = [e \in Entities |-> "none"]
      /\ succ = [e \in Entities |-> NoEntity] /\ edges = {} /\ marks = NoMarks /\ rd = Idle
      /\ rc = NoReconcile
  BY DEF Init
<1>2. /\ NoMarks \in [track : Oids, work : Oids] /\ NoMarks.track = {} /\ NoMarks.work = {}
  BY DEF NoMarks, Oids
<1>3. Idle \in Reads /\ Idle.pc = "idle" /\ Idle.trk = {}
  BY <1>2 DEF Idle, Reads, Stages, Oids
<1>4. NoReconcile \in Reconciles /\ NoReconcile.pc = "idle"
  BY DEF NoReconcile, Reconciles
<1>5. merged \in BOOLEAN /\ (Calm => merged)
  BY <1>1 DEF Calm
<1>6. TypeOK
  <2>1. \A e \in Entities : rows[e] = "none" /\ succ[e] = NoEntity
    BY <1>1
  <2>2. rows \in [Entities -> {"none", "active", "archived"}] /\ succ \in [Entities -> MaybeEntity]
    BY <1>1 DEF MaybeEntity
  <2>3. locals \in 0..MaxLocal
    BY <1>1, Constants
  <2> QED BY <1>1, <1>2, <1>3, <1>4, <1>5, <2>1, <2>2, <2>3 DEF TypeOK, Stages
<1>7. Holds({}) /\ Holds(marks.work) /\ Holds(rd.trk)
  BY <1>1, <1>2, <1>3 DEF Holds, Ents
<1>8. CarrierOK /\ FetchOK
  BY <1>1, <1>2, <1>3, <1>5, <1>7 DEF CarrierOK, FetchOK
<1>9. OutOK /\ ReconcileOK /\ RecOK
  BY <1>1, <1>2, <1>3, <1>4 DEF OutOK, ReconcileOK, RecOK
<1> QED BY <1>6, <1>8, <1>9 DEF IInv

LEMMA StutterIInv ==
    ASSUME IInv, UNCHANGED vars
    PROVE  IInv'
<1>1. UNCHANGED <<exposed, refs, local, store, marks, rd, rc>>
  BY DEF vars
<1> USE <1>1
<1>2. /\ rd' \in Reads
      /\ db' \in BOOLEAN /\ (db => db') /\ rows' = rows
      /\ rows' \in [Entities -> {"none", "active", "archived"}] /\ succ' \in [Entities -> MaybeEntity]
  BY ReadTyped, StoreTyped DEF store
<1>3. rc' \in Reconciles
  BY DEF IInv, RecOK
<1>4. Present' = Present /\ edges' = edges
  BY DEF Present, store
<1>5. \A e \in Entities : succ'[e] = succ[e] \/ succ'[e] \in Present'
  BY DEF store
<1>6. ReconcileOK'
  BY <1>2, <1>4, <1>5, ReconcileKept
<1> QED BY <1>2, <1>3, <1>4, <1>5, <1>6, ReconcileStep

LEMMA NextIInv ==
    ASSUME IInv, Next
    PROVE  IInv'
<1>1. CASE Begin \/ BeginInit
  BY <1>1, BeginInv, BeginInitInv
<1>2. CASE ReadStep
  <2>1. CASE ReadMarker \/ Merge \/ List \/ ReadOid
    BY <2>1, ReadMarkerInv, MergeInv, ListInv, ReadOidInv
  <2>2. CASE ReadExisting \/ ReadCarried \/ Import \/ Mark \/ Return
    BY <2>2, ReadExistingInv, ReadCarriedInv, ImportInv, MarkInv, ReturnInv
  <2> QED BY <1>2, <2>1, <2>2 DEF ReadStep
<1>3. CASE ReadFault
  BY <1>3, MergeSkippedInv, ListInv, ReadCarriedInv, ImportFailsInv, ReturnInv DEF ReadFault
<1>4. CASE OtherMerge \/ (\E l \in TeamLines : Fetch(l)) \/ HeadMoves
  BY <1>4, GitInv
<1>5. CASE LocalCommand
  <2>1. ASSUME NEW e \in LocalEntities, NEW rel \in (Present \ {e}) \cup {NoEntity}, LocalAdd(e, rel)
        PROVE  IInv'
    BY <2>1, LocalAddInv
  <2>2. ASSUME NEW e \in LocalEntities, NEW old \in Entities, LocalAddSuperseding(e, old)
        PROVE  IInv'
    BY <2>2, LocalAddSupersedingInv
  <2>3. ASSUME NEW e \in Entities, LocalArchive(e) PROVE IInv'
    BY <2>3, LocalArchiveInv
  <2>4. ASSUME NEW e \in Entities, NEW new \in Entities, LocalSupersede(e, new) PROVE IInv'
    BY <2>4, LocalSupersedeInv
  <2> QED BY <1>5, <2>1, <2>2, <2>3, <2>4 DEF LocalCommand
<1>6. CASE \E l \in out : Append(l) \/ AppendFails(l)
  BY <1>6, AppendInv
<1>7. CASE Reconcile
  BY <1>7, ReconcileStartInv, ReconcileImportInv, ReconcileLinkInv, ReconcileEndInv DEF Reconcile
<1> QED BY <1>1, <1>2, <1>3, <1>4, <1>5, <1>6, <1>7 DEF Next

-----------------------------------------------------------------------------
(* The theorems. *)

\* What a read of the carrier, an import under way, a local command and a
\* reconcile rely on (read_path.rs, import.rs, reconcile.rs) holds for every set
\* of entities, lines and server rows.
THEOREM Invariance == Spec => []IInv
<1>1. IInv /\ [Next]_vars => IInv'
  BY NextIInv, StutterIInv
<1> QED BY InitIInv, <1>1, PTL DEF Spec

\* The store's foreign keys, its superseded_by column and the OIDs it records
\* are of their types, and a store that does not exist has neither row nor OID.
THEOREM TypeCorrect == Spec => []TypeOK
<1>1. IInv => TypeOK
  BY DEF IInv
<1> QED BY Invariance, <1>1, PTL

\* Whatever the local commands, reads and reconciles do between the listing and
\* the transaction of an import, the OID it records is one whose lines the store
\* has, with their edges (set_notes_imported_working_oid in the transaction of
\* import_git_notes_into_memory).
THEOREM MarkerStaysTrue == Spec => []MarkerIsTrue
<1>1. IInv => MarkerIsTrue
  BY DEF IInv, CarrierOK, Calm, MarkerIsTrue
<1> QED BY Invariance, <1>1, PTL

\* A read that could merge and import returns a store with every line fetched
\* before it began (refresh_read_path_from_git_notes).
THEOREM FetchedIsHeld == Spec => []FetchedIsRead
<1>1. IInv => FetchedIsRead
  BY DEF IInv, FetchOK, Quiet, FetchedIsRead
<1> QED BY Invariance, <1>1, PTL

\* A reconcile that gets to its end has brought every entry and has linked or
\* reported every archived one it inserted (reconcile_project).
THEOREM ReconcileBringsAll == Spec => []ReconcileCompletes
<1>1. IInv => ReconcileCompletes
  <2> SUFFICES ASSUME ReconcileOK, rc.pc = "done" PROVE ReconcileCompletes
    BY DEF IInv, ReconcileCompletes
  <2>1. /\ Candidates \subseteq Present
        /\ \A x \in ServerLinks : x[1] \in rc.fresh /\ Status(ServerNotes, x[1]) = "archived" =>
              succ[x[1]] # NoEntity \/ x \in rc.unresolved
    BY DEF ReconcileOK
  <2> QED BY <2>1 DEF ReconcileCompletes
<1> QED BY Invariance, <1>1, PTL

\* No step takes a row out of the store or makes an archived one active: an
\* import and a reconcile insert what is missing and touch nothing else
\* (add_note_with_created_at), and the other writes archive.
THEOREM ArchivesStick == Spec => ArchiveSticks
<1> DEFINE Sticks == \A e \in Entities : /\ rows[e] # "none" => rows'[e] # "none"
                                         /\ rows[e] = "archived" => rows'[e] = "archived"
<1>1. ASSUME IInv, Next PROVE Sticks
  <2>1. rows \in [Entities -> {"none", "active", "archived"}]
    BY <1>1, StoreTyped
  <2>2. ASSUME NEW status, InsertMissing(status) PROVE Sticks
    BY <2>1, <2>2 DEF InsertMissing
  <2>3. ASSUME UNCHANGED rows PROVE Sticks
    BY <2>3
  <2>4. CASE Begin \/ BeginInit \/ ReadFault \/ OtherMerge \/ HeadMoves
    <3>1. UNCHANGED rows
      BY <2>4 DEF Begin, BeginInit, ReadFault, MergeSkipped, ListFails, ReadCarriedFails, ImportFails,
                  Crash, OtherMerge, HeadMoves, store
    <3> QED BY <2>3, <3>1
  <2>5. CASE ReadStep
    <3>1. CASE Import
      <4>1. InsertMissing([e \in Ents(rd.listed) |-> Status(rd.listed, e)])
        BY <3>1 DEF Import
      <4> QED BY <2>2, <4>1
    <3>2. CASE ReadMarker \/ Merge \/ List \/ ReadOid \/ ReadExisting \/ ReadCarried \/ Mark \/ Return
      <4>1. UNCHANGED rows
        BY <3>2 DEF ReadMarker, Merge, List, ReadOid, ReadExisting, ReadCarried, Mark, Return, store
      <4> QED BY <2>3, <4>1
    <3> QED BY <2>5, <3>1, <3>2 DEF ReadStep
  <2>6. CASE (\E l \in TeamLines : Fetch(l)) \/ \E l \in out : Append(l) \/ AppendFails(l)
    <3>1. UNCHANGED rows
      BY <2>6 DEF Fetch, Append, AppendFails, store
    <3> QED BY <2>3, <3>1
  <2>7. CASE LocalCommand
    <3>1. ASSUME NEW e \in LocalEntities, NEW rel, LocalAdd(e, rel) PROVE Sticks
      <4>1. InsertMissing([x \in {e} |-> "active"])
        BY <3>1 DEF LocalAdd
      <4> QED BY <2>2, <4>1
    <3>2. ASSUME NEW e \in LocalEntities, NEW old \in Entities, LocalAddSuperseding(e, old) PROVE Sticks
      BY <2>1, <3>2, Constants DEF LocalAddSuperseding
    <3>3. ASSUME NEW e \in Entities, LocalArchive(e) PROVE Sticks
      BY <2>1, <3>3 DEF LocalArchive
    <3>4. ASSUME NEW e \in Entities, NEW new \in Entities, LocalSupersede(e, new) PROVE Sticks
      BY <2>1, <3>4 DEF LocalSupersede
    <3> QED BY <2>7, <3>1, <3>2, <3>3, <3>4 DEF LocalCommand
  <2>8. CASE Reconcile
    <3>1. CASE ReconcileImport
      <4>1. InsertMissing([e \in rc.fresh |-> Status(ServerNotes, e)])
        BY <3>1 DEF ReconcileImport
      <4> QED BY <2>2, <4>1
    <3>2. CASE ReconcileStart \/ ReconcileLink \/ ReconcileDone \/ ReconcileEnds
      <4>1. UNCHANGED rows
        BY <3>2 DEF ReconcileStart, ReconcileLink, ReconcileDone, ReconcileEnds, store
      <4> QED BY <2>3, <4>1
    <3> QED BY <2>8, <3>1, <3>2 DEF Reconcile
  <2> QED BY <1>1, <2>4, <2>5, <2>6, <2>7, <2>8 DEF Next
<1>2. IInv /\ [Next]_vars => [Sticks]_vars
  BY <1>1
<1> QED BY Invariance, <1>2, PTL DEF Spec, ArchiveSticks
=============================================================================
