-------------------------- MODULE LocalServer_proofs --------------------------
(***************************************************************************)
(* Tracked and TrustedIsOurs for every number of commands, pids, ports,    *)
(* databases, stops and faults.  The argument: server.lock makes the       *)
(* starting commands exclusive, so the record that one of them found dead, *)
(* killed or removed stays no daemon's record until it writes its own,     *)
(* whatever a stop, which takes no lock, does in between; and an instance  *)
(* id of one of our databases is only ever answered by one of our daemons. *)
(***************************************************************************)
EXTENDS LocalServer, TLAPS

\* Overwriting or removing server.pid would lose no daemon.
Loose == file.pid \in Pids /\ Daemon(file.pid) => file.pid \in lost

\* Where each kind of command can be, and with what.
StageOK(c, s) ==
    /\ s.op \in Starting =>
          /\ lock = c /\ s.db \in Dbs
          /\ s.pc \in {"read", "classify", "ps", "term", "clean", "bind", "spawn", "record",
                       "health", "save"}
    /\ s.op = "stop" => s.pc \in {"read", "classify", "ps", "term", "clean"}
    /\ s.op = "find" => s.pc \in {"port", "probe", "pid", "id", "trusted"}
    /\ s.op = "none" => s.pc = "idle"
    /\ s.pc \notin {"clean", "record"} => s.left = 1
    /\ s.pc \in {"classify", "ps", "term"} => s.pid \in Pids
    /\ s.pc = "record" => s.child \in Pids

\* What a starting command, which holds the lock, knows of the record it will replace.
RecordOK(s) ==
    s.op \in Starting =>
        /\ s.pc \in {"classify", "ps", "term"} => file.pid \in {None, s.pid}
        /\ s.pc = "clean" /\ s.left = 1 =>
              Loose \/ s.foreign \/ (s.op = "ensure" /\ os[file.pid].st = "stuck")
        /\ s.pc = "clean" /\ s.left # 1 => file.pid = None
        /\ s.pc \in {"bind", "spawn"} => Loose
        /\ s.pc = "record" /\ s.left = 1 => Loose \/ file.pid = s.child

\* A health answer is ours exactly when the id in it is one of our databases.
AnswerOK(s) ==
    /\ s.pc \in {"save", "pid", "id"} => (s.ours <=> s.id \in Dbs)
    /\ s.pc = "trusted" => s.ours \/ adopted

IdsOK ==
    /\ \A p \in Pids : Daemon(p) <=> os[p].id \in Dbs
    /\ adopted \/ file.id \in Dbs \cup {None}

IInv ==
    /\ ServerTypeOK
    /\ \A c \in Cmds : StageOK(c, cmd[c]) /\ RecordOK(cmd[c]) /\ AnswerOK(cmd[c])
    /\ IdsOK
    /\ Tracked

-----------------------------------------------------------------------------
(* Constants and records. *)

LEMMA Constants ==
    /\ DefaultPort \in Ports /\ StartPorts \subseteq Ports /\ HomeDb \in Dbs
    /\ OtherId \notin Dbs /\ None \notin Dbs /\ OtherId # None
    /\ None \notin Cmds /\ None \notin Pids /\ None \notin Ports
    /\ MaxStops \in Nat /\ MaxFaults \in Nat
BY ConstantsOK DEF ConstantsOK

LEMMA NoProcessFacts ==
    NoProcess \in Process /\ NoProcess.kind = "none" /\ NoProcess.port = None /\ NoProcess.id = None
BY DEF NoProcess, Process

LEMMA IdleFacts ==
    Idle \in Command /\ Idle.op = "none" /\ Idle.pc = "idle" /\ Idle.left = 1
<1>1. 1 \in 1 .. 3
  OBVIOUS
<1>2. Idle \in Command
  BY <1>1, Zenon DEF Idle, Command
<1> QED BY <1>2 DEF Idle

\* The stages a command can be in.
Stages == {"idle", "read", "classify", "ps", "term", "clean", "bind", "spawn",
           "record", "health", "save", "port", "probe", "pid", "id", "trusted"}

LEMMA GotoFacts ==
    ASSUME cmd \in [Cmds -> Command], NEW c \in Cmds, NEW pc \in Stages
    PROVE  LET s == [cmd[c] EXCEPT !.pc = pc] IN
           /\ s \in Command /\ Goto(c, pc) = (cmd' = [cmd EXCEPT ![c] = s])
           /\ s.pc = pc /\ s.op = cmd[c].op /\ s.pid = cmd[c].pid /\ s.child = cmd[c].child
           /\ s.port = cmd[c].port /\ s.db = cmd[c].db /\ s.id = cmd[c].id /\ s.left = cmd[c].left
           /\ s.ours = cmd[c].ours
<1> DEFINE r == cmd[c]
           s == [r EXCEPT !.pc = pc]
<1>1. r \in Command
  OBVIOUS
<1>2. Goto(c, pc) = (cmd' = [cmd EXCEPT ![c] = s])
  BY DEF Goto
<1> HIDE DEF r
<1>3. s \in Command
  BY <1>1, Zenon DEF Command, Stages
<1>4. /\ s.pc = pc /\ s.op = r.op /\ s.pid = r.pid /\ s.child = r.child
      /\ s.port = r.port /\ s.db = r.db /\ s.id = r.id /\ s.left = r.left
  BY <1>1 DEF Command
<1>5. s.ours = r.ours
  BY <1>1 DEF Command
<1> QED BY <1>2, <1>3, <1>4, <1>5 DEF r

LEMMA FreeIsFree == FreePids \subseteq {p \in Pids : ~Alive(p)} /\ FreePorts \subseteq {q \in Ports : PortFree(q)}
<1>1. \A S, R : OneFresh(S, R) \subseteq S
  BY DEF OneFresh
<1> QED BY <1>1 DEF FreePids, FreePorts

-----------------------------------------------------------------------------
(* Frames. *)

Recording(c) == At(c, "record") /\ cmd[c].left = 1

PortsDiffer ==
    \A p, r \in Pids : os[p].port # None /\ os[p].port = os[r].port /\ p # r
                         => "starting" \in {os[p].st, os[r].st}

\* A step that starts no daemon and rescues no stuck one.
OsKept ==
    /\ os' \in [Pids -> Process] /\ PortsDiffer'
    /\ \A p \in Pids : /\ Daemon(p)' <=> os'[p].id \in Dbs
                       /\ Daemon(p)' => Daemon(p)
                       /\ Daemon(p)' /\ os[p].st = "stuck" => os'[p].st = "stuck"

LEMMA SameOs ==
    ASSUME IInv, UNCHANGED os PROVE OsKept
<1>1. PortsDiffer
  BY DEF IInv, ServerTypeOK, PortsDiffer
<1> QED BY <1>1 DEF IInv, ServerTypeOK, IdsOK, OsKept, PortsDiffer, Daemon

LEMMA DieKeeps ==
    ASSUME IInv, NEW p \in Pids, Die(p) PROVE OsKept
<1>1. \A r \in Pids : os'[r] = IF r = p THEN NoProcess ELSE os[r]
  BY DEF Die, IInv, ServerTypeOK
<1>2. os' \in [Pids -> Process]
  BY NoProcessFacts DEF Die, IInv, ServerTypeOK
<1>3. PortsDiffer'
  BY <1>1, NoProcessFacts DEF IInv, ServerTypeOK, PortsDiffer
<1> QED BY <1>1, <1>2, <1>3, NoProcessFacts, Constants DEF IInv, IdsOK, OsKept, Daemon

LEMMA Exclusive ==
    ASSUME IInv, NEW c \in Cmds, cmd[c].op \in Starting, NEW d \in Cmds, cmd[d].op \in Starting
    PROVE  d = c
BY DEF IInv, StageOK

LEMMA RecordKept ==
    ASSUME IInv, NEW s, RecordOK(s), OsKept, lost \subseteq lost', file'.pid \in {file.pid, None}
    PROVE  RecordOK(s)'
<1>1. Loose => Loose'
  BY Constants DEF Loose, OsKept
<1>2. Loose \/ os[file.pid].st = "stuck" => Loose' \/ os'[file'.pid].st = "stuck"
  BY <1>1, Constants DEF Loose, OsKept
<1>3. file'.pid = None => Loose'
  BY Constants DEF Loose
<1> QED BY <1>1, <1>2, <1>3 DEF RecordOK

\* Command c moves to s; it may take or give up the lock and replace the record.
LEMMA CommandStep ==
    ASSUME IInv, NEW c \in Cmds, NEW s \in Command, cmd' = [cmd EXCEPT ![c] = s], OsKept,
           file' \in [pid : Pids \cup {None}, port : Ports \cup {None}, id : Dbs \cup {OtherId, None}],
           lost \subseteq lost', lost' \subseteq Pids, adopted' \in BOOLEAN, adopted => adopted',
           adopted' \/ file'.id \in Dbs \cup {None},
           stops' \in 0 .. MaxStops, faults' \in 0 .. MaxFaults,
           \/ file'.pid \in {file.pid, None}
           \/ cmd[c].op \in Starting,
           file'.pid = file.pid \/ \A p \in Pids : p = file.pid /\ Daemon(p)' => p \in lost',
           lock' = lock \/ (lock = c /\ lock' = None) \/ (lock = None /\ lock' = c),
           lock' = c => s.op \in Starting,
           Recording(c) => cmd[c].child \in lost' \cup {file'.pid},
           StageOK(c, s)', RecordOK(s)', AnswerOK(s)'
    PROVE  IInv'
<1>1. /\ cmd' \in [Cmds -> Command]
      /\ cmd'[c] = s /\ \A d \in Cmds \ {c} : cmd'[d] = cmd[d]
  BY DEF IInv, ServerTypeOK
<1>2. ServerTypeOK'
  <2>1. lock' # None => lock' \in Cmds /\ cmd'[lock'].op \in Starting
    BY <1>1 DEF IInv, ServerTypeOK
  <2> QED BY <1>1, <2>1 DEF ServerTypeOK, OsKept, PortsDiffer
<1>3. ASSUME NEW d \in Cmds, d # c
      PROVE  StageOK(d, cmd[d])' /\ RecordOK(cmd[d])' /\ AnswerOK(cmd[d])'
  <2>1. StageOK(d, cmd[d]) /\ RecordOK(cmd[d]) /\ AnswerOK(cmd[d]) /\ cmd'[d] = cmd[d]
    BY <1>1, <1>3 DEF IInv
  <2>2. lock = d => lock' = d
    BY <1>3, Constants
  <2>3. StageOK(d, cmd[d])'
    BY <2>1, <2>2 DEF StageOK
  <2>4. AnswerOK(cmd[d])'
    BY <2>1 DEF AnswerOK
  <2>5. RecordOK(cmd[d])'
    <3>1. CASE file'.pid \in {file.pid, None}
      <4>1. \A u : RecordOK(u) => RecordOK(u)'
        BY <3>1, RecordKept
      <4>2. RecordOK(cmd'[d])
        BY <2>1
      <4> QED BY <4>1, <4>2, Zenon DEF RecordOK
    <3>2. CASE cmd[c].op \in Starting
      <4>1. cmd[d].op \notin Starting
        BY <1>3, <3>2, Exclusive
      <4> QED BY <2>1, <4>1 DEF RecordOK
    <3> QED BY <3>1, <3>2
  <2> QED BY <2>3, <2>4, <2>5
<1>4. StageOK(c, cmd[c])' /\ RecordOK(cmd[c])' /\ AnswerOK(cmd[c])'
  BY <1>1 DEF StageOK, RecordOK, AnswerOK
<1>5. IdsOK'
  BY DEF IdsOK, OsKept
<1>6. Tracked'
  <2> SUFFICES ASSUME NEW p \in Pids, Daemon(p)', p \notin lost', file'.pid # p
               PROVE  \E d \in Cmds : Recording(d)' /\ cmd'[d].child = p
    BY DEF Tracked, Recording, At
  <2>1. Daemon(p) /\ p \notin lost
    BY DEF OsKept
  <2>2. file.pid # p
    OBVIOUS
  <2>3. PICK d \in Cmds : Recording(d) /\ cmd[d].child = p
    BY <2>1, <2>2 DEF IInv, Tracked, Recording, At
  <2>4. d # c
    BY <2>3
  <2> QED BY <1>1, <2>3, <2>4 DEF Recording, At
<1> QED BY <1>2, <1>3, <1>4, <1>5, <1>6 DEF IInv

\* A running command goes on, and nothing but processes and counters change.
LEMMA MoveStep ==
    ASSUME IInv, NEW c \in Cmds, NEW s \in Command, cmd' = [cmd EXCEPT ![c] = s], OsKept,
           UNCHANGED <<file, lock, lost, adopted>>,
           stops' \in 0 .. MaxStops, faults' \in 0 .. MaxFaults,
           s.op = cmd[c].op, ~Recording(c), StageOK(c, s), RecordOK(s)', AnswerOK(s)
    PROVE  IInv'
<1>1. lock' = c => s.op \in Starting
  BY Constants DEF IInv, ServerTypeOK
<1>2. StageOK(c, s)' /\ AnswerOK(s)'
  BY DEF StageOK, AnswerOK
<1> QED BY <1>1, <1>2, CommandStep DEF IInv, ServerTypeOK, IdsOK

\* A command ends.
LEMMA EndStep ==
    ASSUME IInv, NEW c \in Cmds, End(c), OsKept,
           file' \in [pid : Pids \cup {None}, port : Ports \cup {None}, id : Dbs \cup {OtherId, None}],
           file'.pid = file.pid, adopted' \/ file'.id \in Dbs \cup {None},
           lost \subseteq lost', lost' \subseteq Pids, adopted' \in BOOLEAN, adopted => adopted',
           stops' \in 0 .. MaxStops, faults' \in 0 .. MaxFaults,
           Recording(c) => cmd[c].child \in lost'
    PROVE  IInv'
<1>1. cmd' = [cmd EXCEPT ![c] = Idle] /\ lock' = IF lock = c THEN None ELSE lock
  BY DEF End, Released
<1>2. lock' # c
  BY <1>1, Constants
<1>3. StageOK(c, Idle)' /\ RecordOK(Idle)' /\ AnswerOK(Idle)'
  BY IdleFacts DEF StageOK, RecordOK, AnswerOK, Starting
<1> QED BY <1>1, <1>2, <1>3, IdleFacts, CommandStep

LEMMA QuietEnd ==
    ASSUME IInv, NEW c \in Cmds, End(c), OsKept, UNCHANGED <<file, lost, adopted>>,
           stops' \in 0 .. MaxStops, faults' \in 0 .. MaxFaults, ~Recording(c)
    PROVE  IInv'
BY EndStep DEF IInv, ServerTypeOK, IdsOK

\* The same for a step that is a Goto.
LEMMA GotoStep ==
    ASSUME IInv, NEW c \in Cmds, NEW pc \in Stages, Goto(c, pc), OsKept,
           UNCHANGED <<file, lock, lost, adopted>>,
           stops' \in 0 .. MaxStops, faults' \in 0 .. MaxFaults, ~Recording(c),
           \A s \in Command :
               s.pc = pc /\ s.op = cmd[c].op /\ s.pid = cmd[c].pid /\ s.db = cmd[c].db
               /\ s.id = cmd[c].id /\ s.left = cmd[c].left /\ s.ours = cmd[c].ours
                  => StageOK(c, s) /\ RecordOK(s)' /\ AnswerOK(s)
    PROVE  IInv'
<1>1. cmd \in [Cmds -> Command]
  BY DEF IInv, ServerTypeOK
<1>2. PICK s \in Command :
         /\ cmd' = [cmd EXCEPT ![c] = s]
         /\ s.pc = pc /\ s.op = cmd[c].op /\ s.pid = cmd[c].pid /\ s.db = cmd[c].db
         /\ s.id = cmd[c].id /\ s.left = cmd[c].left /\ s.ours = cmd[c].ours
  BY <1>1, GotoFacts
<1>3. StageOK(c, s) /\ RecordOK(s)' /\ AnswerOK(s)
  BY <1>2
<1> QED BY <1>2, <1>3, MoveStep

\* What is known of a command at work.
LEMMA AtWork ==
    ASSUME IInv, NEW c \in Cmds
    PROVE  /\ cmd[c] \in Command /\ StageOK(c, cmd[c]) /\ RecordOK(cmd[c]) /\ AnswerOK(cmd[c])
           /\ stops \in 0 .. MaxStops /\ faults \in 0 .. MaxFaults
           /\ cmd[c].op \in Starting \cup {"stop", "find", "none"}
           /\ cmd[c].pc \in Stages
<1>1. cmd[c] \in Command /\ stops \in 0 .. MaxStops /\ faults \in 0 .. MaxFaults
  BY DEF IInv, ServerTypeOK
<1>2. cmd[c].op \in Starting \cup {"stop", "find", "none"} /\ cmd[c].pc \in Stages
  BY <1>1 DEF Command, Stages
<1> QED BY <1>1, <1>2 DEF IInv

-----------------------------------------------------------------------------
(* Commands. *)

LEMMA BeginStep ==
    ASSUME IInv, NEW c \in Cmds, NEW op \in {"start", "ensure", "stop", "find"},
           NEW port \in Ports \cup {None}, NEW db \in Dbs \cup {None}, Begin(c, op, port, db),
           UNCHANGED <<os, file, lost, adopted, faults>>, stops' \in 0 .. MaxStops,
           IF op \in Starting THEN LockFree(c) /\ lock' = c /\ db \in Dbs ELSE lock' = lock
    PROVE  IInv'
<1> DEFINE pc == IF op = "find" THEN "port" ELSE "read"
           s == [Idle EXCEPT !.op = op, !.port = port, !.db = db, !.pc = pc]
<1>1. cmd' = [cmd EXCEPT ![c] = s] /\ cmd[c].pc = "idle"
  BY DEF Begin, At
<1>2. s \in Command
  <2>1. pc \in {"read", "port"}
    OBVIOUS
  <2>2. Idle \in Command
    BY IdleFacts
  <2> HIDE DEF pc
  <2> QED BY <2>1, <2>2, Zenon DEF Command, Starting
<1>3. s.op = op /\ s.db = db /\ s.pc = pc /\ s.left = 1
  BY IdleFacts DEF Idle
<1> HIDE DEF s
<1>4. lock # c /\ ~Recording(c)
  BY <1>1, Constants DEF IInv, ServerTypeOK, StageOK, Recording, At
<1>5. StageOK(c, s)' /\ RecordOK(s)' /\ AnswerOK(s)'
  BY <1>3 DEF StageOK, RecordOK, AnswerOK, Starting
<1>6. lock' = lock \/ (lock = None /\ lock' = c)
  BY DEF LockFree
<1>7. lock' = c => s.op \in Starting
  BY <1>3, <1>4
<1> QED BY <1>1, <1>2, <1>4, <1>5, <1>6, <1>7, SameOs, CommandStep DEF IInv, ServerTypeOK, IdsOK

LEMMA BeginsStep ==
    ASSUME IInv, NEW c \in Cmds, BeginStart(c) \/ BeginEnsure(c) \/ BeginStop(c) \/ BeginFind(c)
    PROVE  IInv'
<1>1. CASE BeginStart(c)
  <2>1. PICK q \in StartPorts, d \in Dbs : Begin(c, "start", q, d)
    BY <1>1 DEF BeginStart
  <2> QED BY <1>1, <2>1, AtWork, Constants, BeginStep DEF BeginStart, env, Starting
<1>2. CASE BeginEnsure(c)
  BY <1>2, AtWork, Constants, BeginStep DEF BeginEnsure, env, Starting
<1>3. CASE BeginStop(c)
  <2>1. stops' \in 0 .. MaxStops
    BY <1>3, AtWork, Constants DEF BeginStop
  <2> QED BY <1>3, <2>1, BeginStep DEF BeginStop, Starting
<1>4. CASE BeginFind(c)
  BY <1>4, AtWork, BeginStep DEF BeginFind, env, Starting
<1> QED BY <1>1, <1>2, <1>3, <1>4

LEMMA ReadPidStep ==
    ASSUME IInv, NEW c \in Cmds, ReadPid(c)
    PROVE  IInv'
<1> DEFINE p == file.pid
           dead == p # None /\ ~Alive(p)
           r == cmd[c]
<1>1. /\ r \in Command /\ StageOK(c, r) /\ r.pc = "read" /\ r.left = 1
      /\ r.op \in Starting \cup {"stop"} /\ p \in Pids \cup {None}
      /\ UNCHANGED <<os, file, env>>
  BY AtWork DEF ReadPid, At, StageOK, IInv, ServerTypeOK
<1>2. OsKept /\ ~Recording(c) /\ UNCHANGED <<lost, adopted>>
      /\ stops' \in 0 .. MaxStops /\ faults' \in 0 .. MaxFaults
  BY <1>1, SameOs, AtWork DEF Recording, At, env
<1>3. p = None \/ dead => Loose'
  BY <1>1, Constants DEF Loose, Alive, Daemon
<1>4. CASE End(c)
  BY <1>1, <1>2, <1>4, QuietEnd
<1>5. CASE /\ (p = None /\ ~Is(c, "stop")) \/ (dead /\ Is(c, "ensure"))
           /\ Goto(c, "bind") /\ UNCHANGED lock
  <2>1. r.op \in Starting
    BY <1>1, <1>5 DEF Is, Starting
  <2>2. ASSUME NEW s \in Command, s.pc = "bind", s.op = r.op, s.db = r.db, s.left = r.left
        PROVE  StageOK(c, s) /\ RecordOK(s)' /\ AnswerOK(s)
    BY <1>1, <1>3, <1>5, <2>1, <2>2 DEF StageOK, RecordOK, AnswerOK, Starting
  <2>3. "bind" \in Stages
    BY DEF Stages
  <2> QED BY <1>1, <1>2, <1>5, <2>2, <2>3, GotoStep
<1>6. CASE dead /\ ~Is(c, "ensure") /\ Goto(c, "clean") /\ UNCHANGED lock
  <2>1. ASSUME NEW s \in Command, s.pc = "clean", s.op = r.op, s.db = r.db, s.left = r.left
        PROVE  StageOK(c, s) /\ RecordOK(s)' /\ AnswerOK(s)
    BY <1>1, <1>3, <1>6, <2>1 DEF StageOK, RecordOK, AnswerOK, Starting
  <2>2. "clean" \in Stages
    BY DEF Stages
  <2> QED BY <1>1, <1>2, <1>6, <2>1, <2>2, GotoStep
<1>7. CASE /\ p # None /\ cmd' = [cmd EXCEPT ![c].pc = "classify", ![c].pid = p]
           /\ UNCHANGED lock
  <2>1. PICK s \in Command : /\ cmd' = [cmd EXCEPT ![c] = s]
                             /\ s.pc = "classify" /\ s.pid = p /\ s.op = r.op
                             /\ s.db = r.db /\ s.left = r.left
    <3> DEFINE t == [r EXCEPT !.pc = "classify", !.pid = p]
    <3>1. cmd' = [cmd EXCEPT ![c] = t]
      BY <1>7
    <3> HIDE DEF r, p
    <3>2. t \in Command
      BY <1>1, Zenon DEF Command
    <3>3. t.pc = "classify" /\ t.pid = p /\ t.op = r.op /\ t.db = r.db /\ t.left = r.left
      BY <1>1 DEF Command
    <3> QED BY <3>1, <3>2, <3>3
  <2>2. StageOK(c, s) /\ RecordOK(s)' /\ AnswerOK(s)
    BY <1>1, <1>7, <2>1 DEF StageOK, RecordOK, AnswerOK, Starting
  <2> QED BY <1>1, <1>2, <1>7, <2>1, <2>2, MoveStep
<1> QED BY <1>4, <1>5, <1>6, <1>7 DEF ReadPid

LEMMA ClassifyStep ==
    ASSUME IInv, NEW c \in Cmds, Classify(c) \/ ClassifySlow(c)
    PROVE  IInv'
<1> DEFINE r == cmd[c]
<1>1. /\ r \in Command /\ StageOK(c, r) /\ RecordOK(r) /\ r.pc = "classify" /\ r.left = 1
      /\ r.op \in Starting \cup {"stop"} /\ UNCHANGED <<os, file, lost, adopted>>
  BY AtWork DEF Classify, ClassifySlow, At, StageOK, env
<1>2. OsKept /\ ~Recording(c)
  BY <1>1, SameOs DEF Recording, At
<1>3. stops' \in 0 .. MaxStops /\ faults' \in 0 .. MaxFaults
  BY AtWork, Constants DEF Classify, ClassifySlow, env
<1>4. CASE End(c)
  BY <1>1, <1>2, <1>3, <1>4, QuietEnd
<1>5. ASSUME NEW pc \in {"term", "ps"}, Goto(c, pc), UNCHANGED lock
      PROVE  IInv'
  <2>1. ASSUME NEW s \in Command, s.pc = pc, s.op = r.op, s.pid = r.pid, s.db = r.db, s.left = r.left
        PROVE  StageOK(c, s) /\ RecordOK(s)' /\ AnswerOK(s)
    BY <1>1, <1>5, <2>1 DEF StageOK, RecordOK, AnswerOK, Starting
  <2>2. pc \in Stages
    BY DEF Stages
  <2> QED BY <1>1, <1>2, <1>3, <1>5, <2>1, <2>2, GotoStep
<1> QED BY <1>4, <1>5 DEF Classify, ClassifySlow

LEMMA PsStep ==
    ASSUME IInv, NEW c \in Cmds, Ps(c)
    PROVE  IInv'
<1> DEFINE r == cmd[c]
<1>1. /\ r \in Command /\ StageOK(c, r) /\ RecordOK(r) /\ r.pc = "ps" /\ r.left = 1
      /\ r.op \in Starting \cup {"stop"} /\ UNCHANGED <<os, file, lost, adopted>>
  BY AtWork DEF Ps, At, StageOK, env
<1>2. OsKept /\ ~Recording(c) /\ stops' \in 0 .. MaxStops /\ faults' \in 0 .. MaxFaults
  BY <1>1, SameOs, AtWork DEF Recording, At, Ps, env
<1>3. CASE End(c)
  BY <1>1, <1>2, <1>3, QuietEnd
<1>4. CASE Goto(c, "term") /\ UNCHANGED lock
  <2>1. ASSUME NEW s \in Command, s.pc = "term", s.op = r.op, s.pid = r.pid, s.db = r.db, s.left = r.left
        PROVE  StageOK(c, s) /\ RecordOK(s)' /\ AnswerOK(s)
    BY <1>1, <1>4, <2>1 DEF StageOK, RecordOK, AnswerOK, Starting
  <2>2. "term" \in Stages
    BY DEF Stages
  <2> QED BY <1>1, <1>2, <1>4, <2>1, <2>2, GotoStep
<1>5. CASE cmd' = [cmd EXCEPT ![c].pc = "clean", ![c].foreign = TRUE] /\ UNCHANGED lock
  <2>1. PICK s \in Command : /\ cmd' = [cmd EXCEPT ![c] = s] /\ s.pc = "clean" /\ s.foreign
                             /\ s.op = r.op /\ s.db = r.db /\ s.left = r.left
    <3> DEFINE t == [r EXCEPT !.pc = "clean", !.foreign = TRUE]
    <3>1. cmd' = [cmd EXCEPT ![c] = t]
      BY <1>5
    <3> HIDE DEF r
    <3>2. t \in Command
      BY <1>1, Zenon DEF Command
    <3>3. t.pc = "clean" /\ t.foreign /\ t.op = r.op /\ t.db = r.db /\ t.left = r.left
      BY <1>1 DEF Command
    <3> QED BY <3>1, <3>2, <3>3
  <2>2. StageOK(c, s) /\ RecordOK(s)' /\ AnswerOK(s)
    BY <1>1, <2>1 DEF StageOK, RecordOK, AnswerOK, Starting
  <2> QED BY <1>1, <1>2, <1>5, <2>1, <2>2, MoveStep
<1> QED BY <1>3, <1>4, <1>5 DEF Ps

LEMMA TerminateStep ==
    ASSUME IInv, NEW c \in Cmds, Terminate(c)
    PROVE  IInv'
<1> DEFINE r == cmd[c]
           p == r.pid
<1>1. /\ r \in Command /\ StageOK(c, r) /\ RecordOK(r) /\ r.pc = "term" /\ r.left = 1 /\ p \in Pids
      /\ r.op \in Starting \cup {"stop"} /\ UNCHANGED <<file, lost, adopted>>
  BY AtWork DEF Terminate, At, StageOK, env
<1>2. ~Recording(c) /\ stops' \in 0 .. MaxStops /\ faults' \in 0 .. MaxFaults
  BY <1>1, AtWork DEF Recording, At, Terminate, env
<1>3. OsKept
  BY <1>1, SameOs, DieKeeps DEF Terminate
<1>4. CASE End(c)
  BY <1>1, <1>2, <1>3, <1>4, QuietEnd
<1>5. CASE /\ Die(p) \/ (os[p].st = "stuck" /\ Is(c, "ensure") /\ UNCHANGED os)
           /\ Goto(c, "clean") /\ UNCHANGED lock
  <2>1. r.op \in Starting => Loose' \/ (r.op = "ensure" /\ os'[file'.pid].st = "stuck")
    <3>1. CASE Die(p)
      <4>1. os'[p] = NoProcess
        BY <1>1, <3>1 DEF Die, IInv, ServerTypeOK
      <4> QED BY <1>1, <4>1, NoProcessFacts, Constants DEF RecordOK, Loose, Daemon
    <3>2. CASE os[p].st = "stuck" /\ Is(c, "ensure") /\ UNCHANGED os
      BY <1>1, <3>2, Constants DEF RecordOK, Loose, Is
    <3> QED BY <1>5, <3>1, <3>2
  <2>2. ASSUME NEW s \in Command, s.pc = "clean", s.op = r.op, s.pid = r.pid, s.db = r.db, s.left = r.left
        PROVE  StageOK(c, s) /\ RecordOK(s)' /\ AnswerOK(s)
    BY <1>1, <1>5, <2>1, <2>2 DEF StageOK, RecordOK, AnswerOK, Starting
  <2>3. "clean" \in Stages
    BY DEF Stages
  <2> QED BY <1>1, <1>2, <1>3, <1>5, <2>2, <2>3, GotoStep
<1> QED BY <1>4, <1>5 DEF Terminate

\* One of the three files is removed or written.
LEMMA FileWrite ==
    ASSUME IInv, NEW k \in 1 .. 3, NEW x,
           x \in <<Pids \cup {None}, Ports \cup {None}, Dbs \cup {OtherId, None}>>[k],
           file' = [file EXCEPT ![StateFiles[k]] = x]
    PROVE  /\ file' \in [pid : Pids \cup {None}, port : Ports \cup {None}, id : Dbs \cup {OtherId, None}]
           /\ file'.pid = IF k = 1 THEN x ELSE file.pid
           /\ file'.id = IF k = 3 THEN x ELSE file.id
<1> DEFINE T == [pid : Pids \cup {None}, port : Ports \cup {None}, id : Dbs \cup {OtherId, None}]
<1>1. file \in T
  BY DEF IInv, ServerTypeOK
<1>2. CASE k = 1
  <2>1. file' = [file EXCEPT !.pid = x] /\ x \in Pids \cup {None}
    BY <1>2 DEF StateFiles
  <2> QED BY <1>1, <1>2, <2>1
<1>3. CASE k = 2
  <2>1. file' = [file EXCEPT !.port = x] /\ x \in Ports \cup {None}
    BY <1>3 DEF StateFiles
  <2> QED BY <1>1, <1>3, <2>1
<1>4. CASE k = 3
  <2>1. file' = [file EXCEPT !.id = x] /\ x \in Dbs \cup {OtherId, None}
    BY <1>4 DEF StateFiles
  <2> QED BY <1>1, <1>4, <2>1
<1> QED BY <1>2, <1>3, <1>4

LEMMA CleanStep ==
    ASSUME IInv, NEW c \in Cmds, Clean(c)
    PROVE  IInv'
<1> DEFINE r == cmd[c]
           k == r.left
<1>1. /\ r \in Command /\ StageOK(c, r) /\ RecordOK(r) /\ r.pc = "clean" /\ k \in 1 .. 3
      /\ r.op \in Starting \cup {"stop"} /\ UNCHANGED <<os, stops, faults, adopted>>
  <2>1. /\ r \in Command /\ StageOK(c, r) /\ RecordOK(r) /\ r.pc = "clean"
        /\ r.op \in Starting \cup {"stop"}
    BY AtWork DEF Clean, At, StageOK
  <2>2. k \in 1 .. 3
    BY <2>1 DEF Command
  <2> QED BY <2>1, <2>2 DEF Clean
<1>2. /\ file' \in [pid : Pids \cup {None}, port : Ports \cup {None}, id : Dbs \cup {OtherId, None}]
      /\ file'.pid = (IF k = 1 THEN None ELSE file.pid) /\ file'.id \in {file.id, None}
  <2>1. None \in <<Pids \cup {None}, Ports \cup {None}, Dbs \cup {OtherId, None}>>[k]
    BY <1>1
  <2>2. file' = [file EXCEPT ![StateFiles[k]] = None]
    BY DEF Clean
  <2> HIDE DEF k
  <2> QED BY <1>1, <2>1, <2>2, FileWrite
<1>3. OsKept /\ ~Recording(c) /\ stops' \in 0 .. MaxStops /\ faults' \in 0 .. MaxFaults
  BY <1>1, SameOs, AtWork DEF Recording, At
<1>4. /\ lost \subseteq lost' /\ lost' \subseteq Pids
      /\ adopted' \in BOOLEAN /\ (adopted => adopted')
      /\ adopted' \/ file'.id \in Dbs \cup {None}
  BY <1>1, <1>2 DEF Clean, Slips, IInv, ServerTypeOK, IdsOK
<1>5. \/ file'.pid = file.pid
      \/ \A p \in Pids : p = file.pid /\ Daemon(p)' => p \in lost'
  <2> SUFFICES ASSUME k = 1, NEW p \in Pids, p = file.pid, Daemon(p) PROVE p \in lost'
    BY <1>1, <1>2 DEF Daemon
  <2>1. CASE p \in lost
    BY <1>4, <2>1
  <2>2. CASE p \notin lost
    <3>1. r.op = "stop" \/ r.foreign \/ (r.op = "ensure" /\ os[p].st = "stuck")
      BY <1>1, <2>2 DEF RecordOK, Loose
    <3>2. p \in Slips(c)
      BY <3>1 DEF Slips, Is
    <3> QED BY <3>2 DEF Clean
  <2> QED BY <2>1, <2>2
<1>6. file'.pid \in {file.pid, None}
  BY <1>2
<1>7. CASE End(c)
  <2>1. lock' # c /\ cmd' = [cmd EXCEPT ![c] = Idle] /\ (lock' = lock \/ (lock = c /\ lock' = None))
    BY <1>7, Constants DEF End, Released
  <2>2. StageOK(c, Idle)' /\ RecordOK(Idle)' /\ AnswerOK(Idle)'
    BY IdleFacts DEF StageOK, RecordOK, AnswerOK, Starting
  <2> QED BY <1>2, <1>3, <1>4, <1>5, <1>6, <2>1, <2>2, IdleFacts, CommandStep
<1>8. ASSUME NEW s \in Command, cmd' = [cmd EXCEPT ![c] = s], UNCHANGED lock, s.op = r.op,
             s.db = r.db, \/ s.pc = "clean" /\ s.left # 1 /\ k < 3
                          \/ s.pc = "bind" /\ s.left = 1 /\ k = 3 /\ r.op \in Starting
      PROVE  IInv'
  <2>1. s.op \in Starting => file'.pid = None
    BY <1>1, <1>2, <1>8 DEF RecordOK
  <2>2. Loose' \/ s.op \notin Starting
    BY <2>1, Constants DEF Loose
  <2>3. RecordOK(s)'
    BY <1>8, <2>1, <2>2 DEF RecordOK
  <2>4. StageOK(c, s)' /\ AnswerOK(s)'
    BY <1>1, <1>8 DEF StageOK, AnswerOK, Starting
  <2>5. lock' = c => s.op \in Starting
    BY <1>8, Constants DEF IInv, ServerTypeOK
  <2> QED BY <1>2, <1>3, <1>4, <1>5, <1>6, <1>8, <2>3, <2>4, <2>5, CommandStep
<1>9. CASE k < 3 /\ cmd' = [cmd EXCEPT ![c].left = k + 1] /\ UNCHANGED lock
  <2>1. PICK s \in Command : /\ cmd' = [cmd EXCEPT ![c] = s] /\ s.pc = "clean" /\ s.left # 1
                             /\ s.op = r.op /\ s.db = r.db
    <3> DEFINE t == [r EXCEPT !.left = k + 1]
    <3>1. cmd' = [cmd EXCEPT ![c] = t]
      BY <1>9
    <3>2. k + 1 \in 1 .. 3 /\ k + 1 # 1
      BY <1>1, <1>9
    <3> HIDE DEF r, k
    <3>3. t \in Command
      BY <1>1, <3>2, Zenon DEF Command
    <3>4. t.pc = "clean" /\ t.left = k + 1 /\ t.op = r.op /\ t.db = r.db
      BY <1>1 DEF Command
    <3> QED BY <3>1, <3>2, <3>3, <3>4
  <2> QED BY <1>8, <1>9, <2>1
<1>10. CASE /\ ~(k < 3) /\ ~Is(c, "stop")
            /\ cmd' = [cmd EXCEPT ![c].left = 1, ![c].pc = "bind", ![c].pid = None,
                                  ![c].foreign = FALSE]
            /\ UNCHANGED lock
  <2>1. PICK s \in Command : /\ cmd' = [cmd EXCEPT ![c] = s] /\ s.pc = "bind" /\ s.left = 1
                             /\ s.op = r.op /\ s.db = r.db
    <3> DEFINE t == [r EXCEPT !.left = 1, !.pc = "bind", !.pid = None, !.foreign = FALSE]
    <3>1. cmd' = [cmd EXCEPT ![c] = t]
      BY <1>10
    <3>2. 1 \in 1 .. 3
      OBVIOUS
    <3> HIDE DEF r, k
    <3>3. t \in Command
      BY <1>1, <3>2, Zenon DEF Command
    <3>4. t.pc = "bind" /\ t.left = 1 /\ t.op = r.op /\ t.db = r.db
      BY <1>1 DEF Command
    <3> QED BY <3>1, <3>2, <3>3, <3>4
  <2>2. k = 3 /\ r.op \in Starting
    BY <1>1, <1>10 DEF Is
  <2> QED BY <1>8, <1>10, <2>1, <2>2
<1> QED BY <1>7, <1>9, <1>10 DEF Clean

LEMMA BindStep ==
    ASSUME IInv, NEW c \in Cmds, Bind(c)
    PROVE  IInv'
<1> DEFINE r == cmd[c]
<1>1. /\ r \in Command /\ StageOK(c, r) /\ RecordOK(r) /\ r.pc = "bind" /\ r.left = 1
      /\ r.op \in Starting /\ UNCHANGED <<os, file, lost, adopted>>
  BY AtWork DEF Bind, At, StageOK, env
<1>2. OsKept /\ ~Recording(c) /\ stops' \in 0 .. MaxStops /\ faults' \in 0 .. MaxFaults
  BY <1>1, SameOs, AtWork DEF Recording, At, Bind, env
<1>3. ASSUME NEW s \in Command, s.pc = "spawn", s.op = r.op, s.db = r.db, s.left = r.left, UNCHANGED lock
      PROVE  StageOK(c, s) /\ RecordOK(s)' /\ AnswerOK(s)
  BY <1>1, <1>3 DEF StageOK, RecordOK, AnswerOK, Starting, Loose, Daemon
<1>4. CASE End(c)
  BY <1>1, <1>2, <1>4, QuietEnd
<1>5. CASE Goto(c, "spawn") /\ UNCHANGED lock
  <2>1. "spawn" \in Stages
    BY DEF Stages
  <2> QED BY <1>1, <1>2, <1>3, <1>5, <2>1, GotoStep
<1>6. ASSUME NEW q \in FreePorts, cmd' = [cmd EXCEPT ![c].pc = "spawn", ![c].port = q], UNCHANGED lock
      PROVE  IInv'
  <2>1. PICK s \in Command : /\ cmd' = [cmd EXCEPT ![c] = s] /\ s.pc = "spawn"
                             /\ s.op = r.op /\ s.db = r.db /\ s.left = r.left
    <3> DEFINE t == [r EXCEPT !.pc = "spawn", !.port = q]
    <3>1. cmd' = [cmd EXCEPT ![c] = t]
      BY <1>6
    <3>2. q \in Ports
      BY FreeIsFree
    <3> HIDE DEF r
    <3>3. t \in Command
      BY <1>1, <3>2, Zenon DEF Command
    <3>4. t.pc = "spawn" /\ t.op = r.op /\ t.db = r.db /\ t.left = r.left
      BY <1>1 DEF Command
    <3> QED BY <3>1, <3>3, <3>4
  <2> QED BY <1>1, <1>2, <1>3, <1>6, <2>1, MoveStep
<1> QED BY <1>4, <1>5, <1>6 DEF Bind

\* A daemon appears, as the child of the one starting command.
LEMMA SpawnStep ==
    ASSUME IInv, NEW c \in Cmds, Spawn(c)
    PROVE  IInv'
<1> DEFINE r == cmd[c]
<1>1. /\ r \in Command /\ StageOK(c, r) /\ RecordOK(r) /\ r.pc = "spawn" /\ r.left = 1
      /\ r.op \in Starting /\ r.db \in Dbs /\ r.port \in Ports \cup {None} /\ lock = c
      /\ UNCHANGED <<file, lock, stops, faults, adopted>>
  <2>1. /\ r \in Command /\ StageOK(c, r) /\ RecordOK(r) /\ r.pc = "spawn" /\ r.left = 1
        /\ r.op \in Starting
    BY AtWork DEF Spawn, At, StageOK
  <2>2. r.port \in Ports \cup {None}
    BY <2>1 DEF Command
  <2> QED BY <2>1, <2>2 DEF Spawn, StageOK
<1>2. PICK p \in FreePids :
         /\ os' = [os EXCEPT ![p] = [kind |-> "daemon", st |-> "starting",
                                     port |-> r.port, id |-> r.db]]
         /\ cmd' = [cmd EXCEPT ![c].pc = "record", ![c].child = p]
         /\ lost' = lost \ {p}
  BY DEF Spawn
<1>3. p \in Pids /\ ~Alive(p)
  BY FreeIsFree
<1>4. PICK new \in Process :
         /\ os' = [os EXCEPT ![p] = new]
         /\ new.kind = "daemon" /\ new.st = "starting" /\ new.port = r.port /\ new.id = r.db
  <2> DEFINE n == [kind |-> "daemon", st |-> "starting", port |-> r.port, id |-> r.db]
  <2>1. n \in Process
    BY <1>1 DEF Process
  <2>2. n.kind = "daemon" /\ n.st = "starting" /\ n.port = r.port /\ n.id = r.db
    OBVIOUS
  <2>3. os' = [os EXCEPT ![p] = n]
    BY <1>2
  <2> HIDE DEF n
  <2> QED BY <2>1, <2>2, <2>3
<1>5. PICK s \in Command : /\ cmd' = [cmd EXCEPT ![c] = s] /\ s.pc = "record" /\ s.child = p
                           /\ s.op = r.op /\ s.db = r.db /\ s.left = 1
  <2> DEFINE t == [r EXCEPT !.pc = "record", !.child = p]
  <2>1. cmd' = [cmd EXCEPT ![c] = t]
    BY <1>2
  <2> HIDE DEF r
  <2>2. t \in Command
    BY <1>1, <1>3, Zenon DEF Command
  <2>3. t.pc = "record" /\ t.child = p /\ t.op = r.op /\ t.db = r.db /\ t.left = r.left
    BY <1>1 DEF Command
  <2> QED BY <1>1, <2>1, <2>2, <2>3
<1>6. /\ os' \in [Pids -> Process] /\ \A x \in Pids : os'[x] = IF x = p THEN new ELSE os[x]
      /\ cmd' \in [Cmds -> Command] /\ cmd'[c] = s /\ \A d \in Cmds \ {c} : cmd'[d] = cmd[d]
  BY <1>3, <1>4, <1>5 DEF IInv, ServerTypeOK
<1>7. ServerTypeOK'
  <2>1. PortsDiffer'
    BY <1>4, <1>6 DEF IInv, ServerTypeOK, PortsDiffer
  <2>2. cmd'[lock'].op \in Starting /\ lock' \in Cmds
    BY <1>1, <1>5, <1>6
  <2>3. lost' \subseteq Pids
    BY <1>2 DEF IInv, ServerTypeOK
  <2> QED BY <1>1, <1>6, <2>1, <2>2, <2>3 DEF IInv, ServerTypeOK, PortsDiffer
<1>8. \A d \in Cmds : StageOK(d, cmd[d])' /\ RecordOK(cmd[d])' /\ AnswerOK(cmd[d])'
  <2> SUFFICES ASSUME NEW d \in Cmds
               PROVE  StageOK(d, cmd[d])' /\ RecordOK(cmd[d])' /\ AnswerOK(cmd[d])'
    OBVIOUS
  <2>1. CASE d = c
    <3>1. Loose' \/ file'.pid = p
      BY <1>1, <1>2, <1>6 DEF RecordOK, Loose, Daemon
    <3> QED BY <1>1, <1>3, <1>5, <1>6, <2>1, <3>1 DEF StageOK, RecordOK, AnswerOK, Starting
  <2>2. CASE d # c
    <3>1. cmd'[d] = cmd[d] /\ cmd[d].op \notin Starting
      BY <1>1, <1>6, <2>2, Exclusive
    <3> QED BY <1>1, <3>1, AtWork DEF StageOK, RecordOK, AnswerOK
  <2> QED BY <2>1, <2>2
<1>9. IdsOK'
  BY <1>1, <1>4, <1>6 DEF IInv, IdsOK, Daemon
<1>10. Tracked'
  <2> SUFFICES ASSUME NEW x \in Pids, Daemon(x)', x \notin lost', file'.pid # x
               PROVE  \E d \in Cmds : Recording(d)' /\ cmd'[d].child = x
    BY DEF Tracked, Recording, At
  <2>1. CASE x = p
    BY <1>5, <1>6, <2>1 DEF Recording, At
  <2>2. CASE x # p
    <3>1. Daemon(x) /\ x \notin lost /\ file.pid # x
      BY <1>1, <1>2, <1>6, <2>2 DEF Daemon
    <3>2. PICK d \in Cmds : Recording(d) /\ cmd[d].child = x
      BY <3>1 DEF IInv, Tracked, Recording, At
    <3>3. d # c
      BY <1>1, <3>2 DEF Recording, At
    <3> QED BY <1>6, <3>2, <3>3 DEF Recording, At
  <2> QED BY <2>1, <2>2
<1> QED BY <1>7, <1>8, <1>9, <1>10 DEF IInv

LEMMA RecordStep ==
    ASSUME IInv, NEW c \in Cmds, Record(c)
    PROVE  IInv'
<1> DEFINE r == cmd[c]
           k == r.left
           x == <<r.child, r.port, None>>[k]
<1>1. /\ r \in Command /\ StageOK(c, r) /\ RecordOK(r) /\ r.pc = "record" /\ r.op \in Starting
      /\ k \in 1 .. 3 /\ r.child \in Pids \cup {None} /\ r.port \in Ports \cup {None}
      /\ UNCHANGED <<os, lock, lost, adopted>>
  <2>1. /\ r \in Command /\ StageOK(c, r) /\ RecordOK(r) /\ r.pc = "record" /\ r.op \in Starting
    BY AtWork DEF Record, At, StageOK
  <2>2. k \in 1 .. 3 /\ r.child \in Pids \cup {None} /\ r.port \in Ports \cup {None}
    BY <2>1 DEF Command
  <2> QED BY <2>1, <2>2 DEF Record, env
<1>2. /\ file' \in [pid : Pids \cup {None}, port : Ports \cup {None}, id : Dbs \cup {OtherId, None}]
      /\ file'.pid = (IF k = 1 THEN r.child ELSE file.pid) /\ file'.id \in {file.id, None}
  <2>1. x \in <<Pids \cup {None}, Ports \cup {None}, Dbs \cup {OtherId, None}>>[k]
    BY <1>1
  <2>2. file' = [file EXCEPT ![StateFiles[k]] = x]
    BY DEF Record
  <2>3. k = 1 => x = r.child
    OBVIOUS
  <2>4. k = 3 => x = None
    OBVIOUS
  <2> HIDE DEF k, x
  <2> QED BY <1>1, <2>1, <2>2, <2>3, <2>4, FileWrite
<1>3. OsKept /\ stops' \in 0 .. MaxStops /\ faults' \in 0 .. MaxFaults
  BY <1>1, SameOs, AtWork DEF Record, env
<1>4. /\ lost \subseteq lost' /\ lost' \subseteq Pids
      /\ adopted' \in BOOLEAN /\ (adopted => adopted')
      /\ adopted' \/ file'.id \in Dbs \cup {None}
  BY <1>1, <1>2 DEF IInv, ServerTypeOK, IdsOK
<1>5. \/ file'.pid = file.pid
      \/ \A p \in Pids : p = file.pid /\ Daemon(p)' => p \in lost'
  <2> SUFFICES ASSUME k = 1, NEW p \in Pids, p = file.pid, Daemon(p), file.pid # r.child PROVE p \in lost'
    BY <1>1, <1>2 DEF Daemon
  <2> QED BY <1>1 DEF RecordOK, Loose
<1>6. Recording(c) => cmd[c].child \in lost' \cup {file'.pid}
  BY <1>2 DEF Recording
<1>7. PICK s \in Command : /\ cmd' = [cmd EXCEPT ![c] = s] /\ s.op = r.op /\ s.db = r.db
                           /\ s.child = r.child
                           /\ \/ s.pc = "record" /\ s.left # 1
                              \/ s.pc = "health" /\ s.left = 1
  <2> DEFINE left == IF k < 3 THEN k + 1 ELSE 1
             pc == IF k < 3 THEN "record" ELSE "health"
             t == [r EXCEPT !.left = left, !.pc = pc]
  <2>1. cmd' = [cmd EXCEPT ![c] = t]
    <3>1. cmd' = [cmd EXCEPT ![c].left = left, ![c].pc = pc]
      BY DEF Record
    <3> HIDE DEF left, pc
    <3> QED BY <3>1
  <2>2. /\ left \in 1 .. 3 /\ pc \in {"record", "health"}
        /\ (pc = "record" /\ left # 1) \/ (pc = "health" /\ left = 1)
    <3> HIDE DEF k
    <3>1. CASE k < 3
      BY <1>1, <3>1
    <3>2. CASE ~(k < 3)
      BY <1>1, <3>2
    <3> QED BY <3>1, <3>2
  <2> HIDE DEF r, left, pc
  <2>3. t \in Command
    BY <1>1, <2>2, Zenon DEF Command
  <2>4. t.pc = pc /\ t.left = left /\ t.op = r.op /\ t.db = r.db /\ t.child = r.child
    BY <1>1 DEF Command
  <2> QED BY <2>1, <2>2, <2>3, <2>4
<1>8. StageOK(c, s)' /\ RecordOK(s)' /\ AnswerOK(s)'
  BY <1>1, <1>7 DEF StageOK, RecordOK, AnswerOK, Starting
<1> QED BY <1>1, <1>2, <1>3, <1>4, <1>5, <1>6, <1>7, <1>8, CommandStep

LEMMA AwaitHealthStep ==
    ASSUME IInv, NEW c \in Cmds, AwaitHealth(c) \/ TimedOutEarly(c)
    PROVE  IInv'
<1> DEFINE r == cmd[c]
<1>1. /\ r \in Command /\ StageOK(c, r) /\ r.pc = "health" /\ r.left = 1
      /\ r.op \in Starting /\ UNCHANGED <<os, file, lost, adopted>>
  BY AtWork DEF AwaitHealth, TimedOutEarly, At, StageOK, env
<1>2. OsKept /\ ~Recording(c)
  BY <1>1, SameOs DEF Recording, At
<1>3. stops' \in 0 .. MaxStops /\ faults' \in 0 .. MaxFaults
  <2>1. UNCHANGED <<stops, faults>> \/ (faults < MaxFaults /\ faults' = faults + 1 /\ UNCHANGED stops)
    BY DEF AwaitHealth, TimedOutEarly, env
  <2> QED BY <2>1, AtWork, Constants
<1>4. CASE End(c)
  BY <1>1, <1>2, <1>3, <1>4, QuietEnd
<1>5. ASSUME NEW p \in Answering(r.port), UNCHANGED lock,
             cmd' = [cmd EXCEPT ![c].pc = "save", ![c].id = os[p].id, ![c].ours = Daemon(p)]
      PROVE  IInv'
  <2>1. p \in Pids /\ os[p].id \in Dbs \cup {OtherId, None} /\ (Daemon(p) <=> os[p].id \in Dbs)
    BY DEF Answering, IInv, ServerTypeOK, IdsOK, Process
  <2>2. Daemon(p) \in BOOLEAN
    BY DEF Daemon
  <2>3. PICK s \in Command : /\ cmd' = [cmd EXCEPT ![c] = s] /\ s.pc = "save" /\ s.op = r.op
                             /\ s.db = r.db /\ s.left = r.left /\ (s.ours <=> s.id \in Dbs)
    <3> DEFINE id == os[p].id
               ours == Daemon(p)
               t == [r EXCEPT !.pc = "save", !.id = id, !.ours = ours]
    <3>1. cmd' = [cmd EXCEPT ![c] = t]
      BY <1>5
    <3>2. id \in Dbs \cup {OtherId, None} /\ ours \in BOOLEAN /\ (ours <=> id \in Dbs)
      BY <2>1, <2>2
    <3> HIDE DEF r, id, ours
    <3>3. t \in Command
      BY <1>1, <3>2, Zenon DEF Command
    <3>4. t.pc = "save" /\ t.op = r.op /\ t.db = r.db /\ t.left = r.left /\ t.id = id
      BY <1>1 DEF Command
    <3>5. t.ours = ours
      BY <1>1 DEF Command
    <3> QED BY <3>1, <3>2, <3>3, <3>4, <3>5
  <2>4. StageOK(c, s) /\ RecordOK(s)' /\ AnswerOK(s)
    BY <1>1, <2>3 DEF StageOK, RecordOK, AnswerOK, Starting
  <2> QED BY <1>1, <1>2, <1>3, <1>5, <2>3, <2>4, MoveStep
<1> QED BY <1>4, <1>5 DEF AwaitHealth, TimedOutEarly

LEMMA SaveIdStep ==
    ASSUME IInv, NEW c \in Cmds, SaveId(c)
    PROVE  IInv'
<1> DEFINE r == cmd[c]
<1>1. /\ r \in Command /\ AnswerOK(r) /\ r.pc = "save" /\ UNCHANGED <<os, stops, faults, lost>>
  BY AtWork DEF SaveId, At
<1>2. r.id \in Dbs \cup {OtherId, None} /\ r.ours \in BOOLEAN
  BY <1>1 DEF Command
<1>3. OsKept /\ ~Recording(c) /\ stops' \in 0 .. MaxStops /\ faults' \in 0 .. MaxFaults
  BY <1>1, SameOs, AtWork DEF Recording, At
<1>4. /\ file' \in [pid : Pids \cup {None}, port : Ports \cup {None}, id : Dbs \cup {OtherId, None}]
      /\ file'.pid = file.pid /\ file'.id = r.id
  BY <1>2 DEF SaveId, IInv, ServerTypeOK
<1>5. adopted' = (adopted \/ ~r.ours)
  BY DEF SaveId
<1>6. adopted' \in BOOLEAN /\ (adopted => adopted') /\ (adopted' \/ file'.id \in Dbs \cup {None})
  BY <1>1, <1>4, <1>5 DEF AnswerOK
<1>7. End(c) /\ lost \subseteq lost' /\ lost' \subseteq Pids
  BY DEF SaveId, IInv, ServerTypeOK
<1> QED BY <1>3, <1>4, <1>6, <1>7, EndStep

\* Discovery.
LEMMA FindStep ==
    ASSUME IInv, NEW c \in Cmds,
           FindPort(c) \/ FindProbe(c) \/ FindPid(c) \/ FindId(c) \/ FindDone(c)
    PROVE  IInv'
<1> DEFINE r == cmd[c]
<1>1. /\ r \in Command /\ StageOK(c, r) /\ AnswerOK(r) /\ r.left = 1 /\ r.op = "find"
      /\ r.pc \in {"port", "probe", "pid", "id", "trusted"}
      /\ UNCHANGED <<os, file, lost, adopted>>
  BY AtWork DEF FindPort, FindProbe, FindPid, FindId, FindDone, At, StageOK, env, Starting
<1>2. OsKept /\ ~Recording(c)
  BY <1>1, SameOs DEF Recording, At
<1>3. stops' \in 0 .. MaxStops /\ faults' \in 0 .. MaxFaults
  BY AtWork DEF FindPort, FindProbe, FindPid, FindId, FindDone, env
<1>4. CASE End(c)
  BY <1>1, <1>2, <1>3, <1>4, QuietEnd
<1>5. ASSUME NEW s \in Command, cmd' = [cmd EXCEPT ![c] = s], UNCHANGED lock, s.op = r.op,
             s.left = 1, s.pc \in {"probe", "pid", "id", "trusted"}, AnswerOK(s)
      PROVE  IInv'
  <2>1. StageOK(c, s) /\ RecordOK(s)'
    BY <1>1, <1>5 DEF StageOK, RecordOK, Starting
  <2> QED BY <1>1, <1>2, <1>3, <1>5, <2>1, MoveStep
<1>6. CASE /\ At(c, "port") /\ UNCHANGED lock
           /\ cmd' = [cmd EXCEPT ![c].pc = "probe", ![c].port = file.port]
  <2>1. PICK s \in Command : /\ cmd' = [cmd EXCEPT ![c] = s] /\ s.pc = "probe"
                             /\ s.op = r.op /\ s.left = r.left
    <3> DEFINE q == file.port
               t == [r EXCEPT !.pc = "probe", !.port = q]
    <3>1. cmd' = [cmd EXCEPT ![c] = t]
      BY <1>6
    <3>2. q \in Ports \cup {None}
      BY DEF IInv, ServerTypeOK
    <3> HIDE DEF r, q
    <3>3. t \in Command
      BY <1>1, <3>2, Zenon DEF Command
    <3>4. t.pc = "probe" /\ t.op = r.op /\ t.left = r.left
      BY <1>1 DEF Command
    <3> QED BY <3>1, <3>3, <3>4
  <2>2. AnswerOK(s)
    BY <2>1 DEF AnswerOK
  <2> QED BY <1>1, <1>5, <1>6, <2>1, <2>2
<1>7. ASSUME NEW p \in Answering(r.port), UNCHANGED lock,
             cmd' = [cmd EXCEPT ![c].pc = "pid", ![c].port = None,
                                ![c].id = os[p].id, ![c].ours = Daemon(p)]
      PROVE  IInv'
  <2>1. /\ p \in Pids /\ os[p].id \in Dbs \cup {OtherId, None} /\ (Daemon(p) <=> os[p].id \in Dbs)
        /\ Daemon(p) \in BOOLEAN
    BY DEF Answering, IInv, ServerTypeOK, IdsOK, Process, Daemon
  <2>2. PICK s \in Command : /\ cmd' = [cmd EXCEPT ![c] = s] /\ s.pc = "pid" /\ s.op = r.op
                             /\ s.left = r.left /\ (s.ours <=> s.id \in Dbs)
    <3> DEFINE id == os[p].id
               ours == Daemon(p)
               t == [r EXCEPT !.pc = "pid", !.port = None, !.id = id, !.ours = ours]
    <3>1. cmd' = [cmd EXCEPT ![c] = t]
      BY <1>7
    <3>2. id \in Dbs \cup {OtherId, None} /\ ours \in BOOLEAN /\ (ours <=> id \in Dbs)
      BY <2>1
    <3> HIDE DEF r, id, ours
    <3>3. t \in Command
      BY <1>1, <3>2, Zenon DEF Command
    <3>4. t.pc = "pid" /\ t.op = r.op /\ t.left = r.left /\ t.id = id
      BY <1>1 DEF Command
    <3>5. t.ours = ours
      BY <1>1 DEF Command
    <3> QED BY <3>1, <3>2, <3>3, <3>4, <3>5
  <2>3. AnswerOK(s)
    BY <2>2 DEF AnswerOK
  <2> QED BY <1>1, <1>5, <1>7, <2>2, <2>3
<1>8. ASSUME NEW pc \in {"id", "trusted"}, Goto(c, pc), UNCHANGED lock,
             \/ pc = "id" /\ r.pc = "pid"
             \/ pc = "trusted" /\ (r.ours \/ adopted)
      PROVE  IInv'
  <2>1. PICK s \in Command : /\ cmd' = [cmd EXCEPT ![c] = s] /\ s.pc = pc /\ s.op = r.op
                             /\ s.left = r.left /\ s.id = r.id /\ s.ours = r.ours
    <3>1. cmd \in [Cmds -> Command] /\ pc \in Stages
      BY DEF IInv, ServerTypeOK, Stages
    <3> QED BY <1>8, <3>1, GotoFacts
  <2>2. AnswerOK(s)
    BY <1>1, <1>8, <2>1 DEF AnswerOK
  <2> QED BY <1>1, <1>5, <1>8, <2>1, <2>2
<1>9. CASE FindId(c) /\ SameId(r.id)
  <2>1. adopted \/ r.id \in Dbs
    BY <1>9 DEF SameId, IInv, IdsOK
  <2>2. r.ours <=> r.id \in Dbs
    BY <1>1, <1>9 DEF AnswerOK, FindId, At
  <2>3. r.ours \/ adopted
    BY <2>1, <2>2, Zenon
  <2> QED BY <1>4, <1>8, <1>9, <2>3 DEF FindId
<1>10. CASE FindPort(c)
  BY <1>4, <1>6, <1>10 DEF FindPort
<1>11. CASE FindProbe(c)
  BY <1>4, <1>7, <1>11 DEF FindProbe
<1>12. CASE FindPid(c)
  BY <1>4, <1>8, <1>12 DEF FindPid, At
<1>13. CASE FindId(c) /\ ~SameId(r.id)
  BY <1>4, <1>13 DEF FindId
<1>14. CASE FindDone(c)
  BY <1>4, <1>14 DEF FindDone
<1> QED BY <1>9, <1>10, <1>11, <1>12, <1>13, <1>14

LEMMA AbortStep ==
    ASSUME IInv, NEW c \in Cmds, Abort(c)
    PROVE  IInv'
<1>1. OsKept /\ UNCHANGED <<file, stops, adopted>> /\ End(c)
  BY SameOs DEF Abort, Fault
<1>2. stops' \in 0 .. MaxStops /\ faults' \in 0 .. MaxFaults
  BY AtWork, Constants DEF Abort, Fault
<1>3. lost \subseteq lost' /\ (Recording(c) => cmd[c].child \in lost')
  BY DEF Abort, Recording
<1>4. lost' \subseteq Pids
  <2>1. Recording(c) => cmd[c].child \in Pids
    BY AtWork DEF Recording, At, StageOK
  <2> QED BY <2>1 DEF Abort, Recording, IInv, ServerTypeOK
<1> QED BY <1>1, <1>2, <1>3, <1>4, EndStep DEF IInv, ServerTypeOK, IdsOK

-----------------------------------------------------------------------------
(* Processes. *)

LEMMA ProcessStep ==
    ASSUME IInv, OsKept, UNCHANGED <<file, lock, cmd, lost, adopted>>,
           stops' \in 0 .. MaxStops, faults' \in 0 .. MaxFaults
    PROVE  IInv'
<1>1. ServerTypeOK'
  BY DEF IInv, ServerTypeOK, OsKept, PortsDiffer
<1>2. \A c \in Cmds : StageOK(c, cmd[c])' /\ AnswerOK(cmd[c])'
  BY DEF IInv, StageOK, AnswerOK
<1>3. \A c \in Cmds : RecordOK(cmd[c])'
  <2>1. \A s : RecordOK(s) => RecordOK(s)'
    BY RecordKept
  <2>2. \A c \in Cmds : RecordOK(cmd'[c])
    BY DEF IInv
  <2> QED BY <2>1, <2>2, Zenon DEF RecordOK
<1>4. IdsOK'
  BY DEF IInv, IdsOK, OsKept
<1>5. Tracked'
  BY DEF IInv, Tracked, OsKept, At
<1> QED BY <1>1, <1>2, <1>3, <1>4, <1>5 DEF IInv

LEMMA ListenStep ==
    ASSUME IInv, NEW p \in Pids, Listen(p)
    PROVE  IInv'
<1>1. /\ Daemon(p) /\ os[p].st = "starting" /\ UNCHANGED <<file, lock, cmd, env>>
      /\ stops' \in 0 .. MaxStops /\ faults' \in 0 .. MaxFaults
  BY DEF Listen, IInv, ServerTypeOK, env
<1>2. CASE PortFree(os[p].port)
  <2> DEFINE new == [os[p] EXCEPT !.st = "serving"]
  <2>1. os[p] \in Process
    BY DEF IInv, ServerTypeOK
  <2>2. /\ new \in Process /\ new.kind = "daemon" /\ new.st = "serving"
        /\ new.port = os[p].port /\ new.id = os[p].id
    BY <1>1, <2>1 DEF Process, Daemon
  <2>3. os' = [os EXCEPT ![p] = new]
    BY <1>2 DEF Listen
  <2> HIDE DEF new
  <2>4. os' \in [Pids -> Process] /\ \A r \in Pids : os'[r] = IF r = p THEN new ELSE os[r]
    BY <2>2, <2>3 DEF IInv, ServerTypeOK
  <2>5. PortsDiffer'
    BY <1>2, <2>2, <2>4 DEF PortsDiffer, PortFree, IInv, ServerTypeOK
  <2>6. OsKept
    BY <1>1, <2>2, <2>4, <2>5 DEF OsKept, IInv, IdsOK, Daemon
  <2> QED BY <1>1, <2>6, ProcessStep DEF env
<1>3. CASE ~PortFree(os[p].port)
  <2>1. Die(p)
    BY <1>3 DEF Listen, Die
  <2> QED BY <1>1, <2>1, DieKeeps, ProcessStep DEF env
<1> QED BY <1>2, <1>3

LEMMA FaultStep ==
    ASSUME IInv, NEW p \in Pids, Crash(p) \/ Hang(p) \/ Arrive(p) \/ Leave(p)
    PROVE  IInv'
<1>1. UNCHANGED <<file, lock, cmd, lost, adopted>>
  BY DEF Crash, Hang, Arrive, Leave, Fault, env
<1>2. stops' \in 0 .. MaxStops /\ faults' \in 0 .. MaxFaults
  <2>1. \/ UNCHANGED <<stops, faults>>
        \/ faults < MaxFaults /\ faults' = faults + 1 /\ UNCHANGED stops
    BY DEF Crash, Hang, Arrive, Leave, Fault, env
  <2> QED BY <2>1, Constants DEF IInv, ServerTypeOK
<1>3. CASE Crash(p) \/ Leave(p)
  <2>1. Die(p)
    BY <1>3 DEF Crash, Leave
  <2> QED BY <1>1, <1>2, <2>1, DieKeeps, ProcessStep
<1>4. CASE Hang(p)
  <2>1. PICK st \in {"hung", "stuck"} : os' = [os EXCEPT ![p].st = st]
    BY <1>4 DEF Hang
  <2> DEFINE new == [os[p] EXCEPT !.st = st]
  <2>2. os[p] \in Process /\ os[p].st = "serving"
    BY <1>4 DEF IInv, ServerTypeOK, Hang
  <2>3. /\ new \in Process /\ new.kind = os[p].kind /\ new.st = st
        /\ new.port = os[p].port /\ new.id = os[p].id
    BY <2>2 DEF Process
  <2>4. os' = [os EXCEPT ![p] = new]
    BY <2>1
  <2> HIDE DEF new
  <2>5. os' \in [Pids -> Process] /\ \A r \in Pids : os'[r] = IF r = p THEN new ELSE os[r]
    BY <2>3, <2>4 DEF IInv, ServerTypeOK
  <2>6. PortsDiffer'
    BY <2>2, <2>3, <2>5 DEF PortsDiffer, IInv, ServerTypeOK
  <2>7. OsKept
    BY <2>2, <2>3, <2>5, <2>6 DEF OsKept, IInv, IdsOK, Daemon
  <2> QED BY <1>1, <1>2, <2>7, ProcessStep
<1>5. CASE Arrive(p)
  <2>1. PICK q \in FreePorts \cup {None}, k \in {"server", "alien"} :
          os' = [os EXCEPT ![p] = [kind |-> k, st |-> "serving", port |-> q,
                                   id |-> IF k = "server" THEN OtherId ELSE None]]
    BY <1>5 DEF Arrive
  <2> DEFINE id == IF k = "server" THEN OtherId ELSE None
             new == [kind |-> k, st |-> "serving", port |-> q, id |-> id]
  <2>2. q = None \/ (q \in Ports /\ PortFree(q))
    BY FreeIsFree
  <2>3. id \in {OtherId, None}
    OBVIOUS
  <2>4. os' = [os EXCEPT ![p] = new]
    BY <2>1
  <2> HIDE DEF id
  <2>5. /\ new \in Process /\ new.kind = k /\ new.st = "serving" /\ new.port = q /\ new.id = id
    BY <2>2, <2>3 DEF Process
  <2> HIDE DEF new
  <2>6. os' \in [Pids -> Process] /\ \A r \in Pids : os'[r] = IF r = p THEN new ELSE os[r]
    BY <2>4, <2>5 DEF IInv, ServerTypeOK
  <2>7. PortsDiffer'
    BY <2>2, <2>5, <2>6 DEF PortsDiffer, PortFree, IInv, ServerTypeOK
  <2>8. OsKept
    BY <2>3, <2>5, <2>6, <2>7, Constants DEF OsKept, IInv, IdsOK, Daemon
  <2> QED BY <1>1, <1>2, <2>8, ProcessStep
<1> QED BY <1>3, <1>4, <1>5

-----------------------------------------------------------------------------
(* The invariant, and what it implies. *)

LEMMA InitIInv == Init => IInv
<1> SUFFICES ASSUME Init PROVE IInv
  OBVIOUS
<1>1. /\ os \in [Pids -> Process] /\ \A p \in Pids : os[p] = NoProcess
      /\ cmd \in [Cmds -> Command] /\ \A c \in Cmds : cmd[c] = Idle
  BY NoProcessFacts, IdleFacts DEF Init
<1>2. /\ file \in [pid : Pids \cup {None}, port : Ports \cup {None}, id : Dbs \cup {OtherId, None}]
      /\ file.id = None
  BY DEF Init
<1>3. ServerTypeOK
  <2>1. 0 \in 0 .. MaxStops /\ 0 \in 0 .. MaxFaults
    BY Constants
  <2>2. lock = None /\ stops = 0 /\ faults = 0 /\ lost = {} /\ adopted = FALSE
    BY DEF Init
  <2>3. \A p \in Pids : os[p].port = None
    BY <1>1, NoProcessFacts
  <2> QED BY <1>1, <1>2, <2>1, <2>2, <2>3 DEF ServerTypeOK
<1>4. \A c \in Cmds : StageOK(c, cmd[c]) /\ RecordOK(cmd[c]) /\ AnswerOK(cmd[c])
  BY <1>1, IdleFacts DEF StageOK, RecordOK, AnswerOK, Starting
<1>5. IdsOK /\ Tracked
  BY <1>1, <1>2, NoProcessFacts, Constants DEF IdsOK, Tracked, Daemon
<1> QED BY <1>3, <1>4, <1>5 DEF IInv

LEMMA NextIInv == IInv /\ [Next]_vars => IInv'
<1> SUFFICES ASSUME IInv, [Next]_vars PROVE IInv'
  OBVIOUS
<1>1. CASE UNCHANGED vars
  <2>1. OsKept
    BY <1>1, SameOs DEF vars
  <2>2. stops' \in 0 .. MaxStops /\ faults' \in 0 .. MaxFaults
    BY <1>1 DEF vars, IInv, ServerTypeOK
  <2> QED BY <1>1, <2>1, <2>2, ProcessStep DEF vars
<1>2. ASSUME NEW c \in Cmds, Step(c) PROVE IInv'
  BY <1>2, ReadPidStep, ClassifyStep, PsStep, TerminateStep, CleanStep, BindStep, SpawnStep,
     RecordStep, AwaitHealthStep, SaveIdStep, FindStep DEF Step
<1>3. ASSUME NEW c \in Cmds,
             \/ BeginStart(c) \/ BeginEnsure(c) \/ BeginStop(c) \/ BeginFind(c)
             \/ ClassifySlow(c) \/ TimedOutEarly(c) \/ Abort(c)
      PROVE  IInv'
  BY <1>3, BeginsStep, ClassifyStep, AwaitHealthStep, AbortStep
<1>4. ASSUME NEW p \in Pids, Listen(p) \/ Crash(p) \/ Hang(p) \/ Arrive(p) \/ Leave(p)
      PROVE  IInv'
  BY <1>4, ListenStep, FaultStep
<1> QED BY <1>1, <1>2, <1>3, <1>4 DEF Next

\* The inductive invariant of the daemon's life, whatever commands, processes and files.
THEOREM Invariance == Spec => []IInv
BY InitIInv, NextIInv, PTL DEF Spec

\* Every variable keeps its type, no two processes ever listen on one port, and the lock
\* is held by a start or ensure that runs and by nothing else (acquire_start_lock).
THEOREM TypeCorrect == Spec => []ServerTypeOK
<1>1. IInv => ServerTypeOK
  BY DEF IInv
<1> QED BY Invariance, <1>1, PTL

\* A daemon that runs is the recorded one, the child of the start that is about to record
\* it, or one of the named exceptions (cmd_start, cmd_stop, ensure_server_running).
THEOREM DaemonsAreTracked == Spec => []Tracked
<1>1. IInv => Tracked
  BY DEF IInv
<1> QED BY Invariance, <1>1, PTL

\* Discovery trusts a daemon of this state directory only, however pids and ports are
\* reused between its looks (probe_recorded_server, untrusted_responder).
THEOREM OnlyOursIsTrusted == Spec => []TrustedIsOurs
<1>1. IInv => TrustedIsOurs
  BY DEF IInv, AnswerOK, At, TrustedIsOurs
<1> QED BY Invariance, <1>1, PTL
=============================================================================
