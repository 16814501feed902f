---------------------------- MODULE LocalServer ----------------------------
(***************************************************************************)
(* The local daemon's life: `inkentry server start` and `stop`, the        *)
(* auto-start of `init`, and the loopback discovery every other command    *)
(* performs.  They share four small files (server.pid, server.port,        *)
(* server.db-path, server.instance_id), a flock that only the two starting *)
(* commands take, and the operating system's tables of processes and       *)
(* ports, in which pids and ports are reused.                              *)
(*                                                                         *)
(* Abstracted: server.db-path, which only chooses between two ways of      *)
(* leaving a healthy daemon alone; the daemon's arguments and environment; *)
(* the lengths of the timeouts; messages.  server.instance_id is the       *)
(* identity a database keeps (get_or_create_instance_id), so a database    *)
(* stands for its id.  This is the Unix build: elsewhere there is no lock. *)
(***************************************************************************)
EXTENDS Naturals, FiniteSets, Sequences

CONSTANTS
    Cmds,         \* slots for running commands
    Ops,          \* slot -> the commands that may run in it
    Pids, Ports,  \* what the operating system hands out
    DefaultPort,  \* DEFAULT_SERVER_PORT
    StartPorts,   \* ports users pass to `server start`
    Dbs,          \* databases a daemon may be started on
    HomeDb,       \* server.db in the state directory
    OtherId,      \* the instance id of a server this directory knows nothing of
    None,
    MaxStops,     \* bound on `server stop` commands
    MaxFaults     \* bound on crashes, hangs, slow answers and outside processes

ASSUME ConstantsOK ==
    /\ DefaultPort \in Ports /\ StartPorts \subseteq Ports /\ HomeDb \in Dbs /\ OtherId \notin Dbs
    /\ None \notin Cmds \cup Pids \cup Ports \cup Dbs \cup {OtherId}
    /\ Ops \in [Cmds -> SUBSET {"start", "ensure", "stop", "find"}]
    /\ MaxStops \in Nat /\ MaxFaults \in Nat

VARIABLES
    os,       \* pid -> the process that has it
    file,     \* the state files
    lock,     \* the holder of server.lock
    cmd,      \* slot -> where its command is
    stops, faults,
    lost,     \* history: daemons whose record was lost with the code's knowledge
              \* or by a race it does not close
    adopted   \* history: a start has recorded the id of a server it did not start

vars == <<os, file, lock, cmd, stops, faults, lost, adopted>>
env == <<stops, faults, lost, adopted>>

-----------------------------------------------------------------------------
(* The operating system. *)

\* "daemon" was spawned from this state directory; "server" is an inkentry-server
\* that was not; "alien" is any other program.  One that is "hung" holds its port
\* and is silent, one that is "stuck" also survives SIGKILL.
Process == [kind : {"none", "daemon", "server", "alien"},
            st : {"starting", "serving", "hung", "stuck"},
            port : Ports \cup {None},
            id : Dbs \cup {OtherId, None}]

NoProcess == [kind |-> "none", st |-> "starting", port |-> None, id |-> None]

\* pid_is_alive: kill(pid, 0)
Alive(p) == os[p].kind # "none"

Daemon(p) == os[p].kind = "daemon"

\* What process_matches_server may answer: whether `ps` shows inkentry-server in the
\* command line.  A daemon goes unrecognised when ps is missing or fails, or its --bin has
\* another name; any program's arguments may carry the string.
NamedAnswers(p) == IF Alive(p) THEN BOOLEAN ELSE {FALSE}

PortFree(q) == \A p \in Pids : os[p].port = q => os[p].st = "starting"

\* The processes that answer GET /v1/health on a port.
Answering(q) == {p \in Pids : os[p].st = "serving" /\ os[p].port = q}

\* Of the values of S that nothing remembers one stands for all.
OneFresh(S, remembered) ==
    (S \cap remembered) \cup {x \in S \ remembered : x = CHOOSE y \in S \ remembered : TRUE}

\* The pids a new process may get.  A child is not reaped, and its pid not reused,
\* while its parent runs.
FreePids == OneFresh({p \in Pids : ~Alive(p) /\ \A c \in Cmds : cmd[c].child # p},
                     {file.pid} \cup lost \cup {cmd[c].pid : c \in Cmds})

\* The ports a new listener may get.
FreePorts == OneFresh({q \in Ports : PortFree(q)},
                      {DefaultPort, file.port} \cup {cmd[c].port : c \in Cmds}
                         \cup {os[p].port : p \in Pids})

Die(p) == os' = [os EXCEPT ![p] = NoProcess]

-----------------------------------------------------------------------------
(* Commands. *)

Starting == {"start", "ensure"}

\* `pid` was read from server.pid, `child` spawned; `left` is the next file to
\* remove or write; `foreign` is classify_running_server's verdict on a live pid; `id` and
\* `ours` are what the last health answer said and whether one of our daemons gave it.
Command == [op : Starting \cup {"stop", "find", "none"},
            pc : {"idle", "read", "classify", "ps", "term", "clean", "bind", "spawn",
                  "record", "health", "save", "port", "probe", "pid", "id", "trusted"},
            pid : Pids \cup {None}, child : Pids \cup {None},
            port : Ports \cup {None}, db : Dbs \cup {None},
            id : Dbs \cup {OtherId, None}, ours : BOOLEAN, foreign : BOOLEAN,
            left : 1 .. 3]

Idle == [op |-> "none", pc |-> "idle", pid |-> None, child |-> None, port |-> None,
         db |-> None, id |-> None, ours |-> TRUE, foreign |-> FALSE, left |-> 1]

At(c, pc) == cmd[c].pc = pc
Is(c, op) == cmd[c].op = op

Goto(c, pc) == cmd' = [cmd EXCEPT ![c].pc = pc]

\* (The lock outlives the command.)
ReleasedNot(c) == lock

\* The StartLock is dropped when the command returns.
Released(c) == IF lock = c THEN None ELSE lock

\* The command returns, well or with an error.
End(c) == cmd' = [cmd EXCEPT ![c] = Idle] /\ lock' = Released(c)

\* (flock's answer is ignored.)
LockIgnored(c) == TRUE

\* acquire_start_lock: LOCK_NB, a start that finds it held gives up at once.
LockFree(c) == lock = None

Begin(c, op, port, db) ==
    /\ At(c, "idle") /\ op \in Ops[c]
    /\ cmd' = [cmd EXCEPT ![c] = [Idle EXCEPT !.op = op, !.port = port, !.db = db,
                                              !.pc = IF op = "find" THEN "port" ELSE "read"]]

\* cmd_start: --port and --db are the user's.
BeginStart(c) ==
    /\ LockFree(c)
    /\ \E q \in StartPorts, d \in Dbs : Begin(c, "start", q, d)
    /\ lock' = c
    /\ UNCHANGED <<os, file, env>>

\* ensure_server_running, called by `init`.
BeginEnsure(c) ==
    /\ LockFree(c)
    /\ Begin(c, "ensure", DefaultPort, HomeDb)
    /\ lock' = c
    /\ UNCHANGED <<os, file, env>>

\* cmd_stop takes no lock.
BeginStop(c) ==
    /\ stops < MaxStops
    /\ Begin(c, "stop", None, None)
    /\ stops' = stops + 1
    /\ UNCHANGED <<os, file, lock, faults, lost, adopted>>

BeginFind(c) ==
    /\ Begin(c, "find", None, None)
    /\ UNCHANGED <<os, file, lock, env>>

\* read_pid and pid_is_alive.  A dead pid's files are cleared by start and stop,
\* and left for the new record to overwrite by ensure.
ReadPid(c) ==
    /\ At(c, "read")
    /\ LET p == file.pid
           dead == p # None /\ ~Alive(p)
       IN  \/ p = None /\ Is(c, "stop") /\ End(c)
           \/ /\ (p = None /\ ~Is(c, "stop")) \/ (dead /\ Is(c, "ensure"))
              /\ Goto(c, "bind") /\ UNCHANGED lock
           \/ dead /\ ~Is(c, "ensure") /\ Goto(c, "clean") /\ UNCHANGED lock
           \/ /\ p # None /\ Alive(p)
              /\ cmd' = [cmd EXCEPT ![c].pc = "classify", ![c].pid = p]
              /\ UNCHANGED lock
    /\ UNCHANGED <<os, file, env>>

\* (A live pid is taken for a healthy daemon.)
HealthyIfAlive(q) == TRUE

\* classify_running_server's first signal: whatever answers on the recorded port.
Healthy(q) == q # None /\ Answering(q) # {}

Classify(c) ==
    /\ At(c, "classify")
    /\ \/ Healthy(file.port) /\ Is(c, "stop") /\ Goto(c, "term") /\ UNCHANGED lock
       \/ Healthy(file.port) /\ ~Is(c, "stop") /\ End(c)
       \/ ~Healthy(file.port) /\ Goto(c, "ps") /\ UNCHANGED lock
    /\ UNCHANGED <<os, file, env>>

\* A healthy daemon does not answer within 500 ms.
ClassifySlow(c) ==
    /\ At(c, "classify") /\ Healthy(file.port) /\ faults < MaxFaults
    /\ Goto(c, "ps")
    /\ faults' = faults + 1
    /\ UNCHANGED <<os, file, lock, stops, lost, adopted>>

\* The second signal: HungOurs is reclaimed.  Foreign is never signalled: a stop refuses,
\* start and ensure clear the record.
Ps(c) ==
    /\ At(c, "ps")
    /\ \E named \in NamedAnswers(cmd[c].pid) :
          \/ named /\ Goto(c, "term") /\ UNCHANGED lock
          \/ ~named /\ Is(c, "stop") /\ End(c)
          \/ /\ ~named /\ ~Is(c, "stop")
             /\ cmd' = [cmd EXCEPT ![c].pc = "clean", ![c].foreign = TRUE]
             /\ UNCHANGED lock
    /\ UNCHANGED <<os, file, env>>

\* terminate_and_wait: SIGTERM, then SIGKILL, each with a wait.  Whoever has the
\* pid by now gets the signal.  A survivor stops start and stop, not ensure.
Terminate(c) ==
    LET p == cmd[c].pid IN
    /\ At(c, "term")
    /\ \/ os[p].st # "stuck" /\ Die(p) /\ Goto(c, "clean") /\ UNCHANGED lock
       \/ os[p].st = "stuck" /\ Is(c, "ensure") /\ Goto(c, "clean") /\ UNCHANGED <<os, lock>>
       \/ os[p].st = "stuck" /\ ~Is(c, "ensure") /\ End(c) /\ UNCHANGED os
    /\ UNCHANGED <<file, env>>

StateFiles == <<"pid", "port", "id">>

\* A cleanup removes the record of a live daemon: a stop, which holds no lock, that of
\* one recorded since it looked; an ensure that of one nothing can kill; either starting
\* command that of one which neither answered nor was recognised.
Slips(c) ==
    {p \in Pids : /\ p = file.pid /\ Daemon(p) /\ cmd[c].left = 1
                  /\ \/ Is(c, "stop") \/ cmd[c].foreign
                     \/ Is(c, "ensure") /\ os[p].st = "stuck"}

\* cleanup_state_files, one remove_file at a time.
Clean(c) ==
    LET k == cmd[c].left IN
    /\ At(c, "clean")
    /\ file' = [file EXCEPT ![StateFiles[k]] = None]
    /\ lost' = lost \cup Slips(c)
    /\ IF k < 3 THEN cmd' = [cmd EXCEPT ![c].left = k + 1] /\ UNCHANGED lock
       ELSE IF Is(c, "stop") THEN End(c)
       ELSE /\ cmd' = [cmd EXCEPT ![c].left = 1, ![c].pc = "bind", ![c].pid = None,
                                  ![c].foreign = FALSE]
            /\ UNCHANGED lock
    /\ UNCHANGED <<os, stops, faults, adopted>>

\* ensure_port_available_for_start never drifts; find_available_port takes any other
\* free port.  The listener that tested the port is closed again.
Bind(c) ==
    LET preferred == PortFree(cmd[c].port) IN
    /\ At(c, "bind")
    /\ \/ preferred /\ Goto(c, "spawn") /\ UNCHANGED lock
       \/ ~preferred /\ Is(c, "start") /\ End(c)
       \/ /\ ~preferred /\ Is(c, "ensure")
          /\ \E q \in FreePorts : cmd' = [cmd EXCEPT ![c].pc = "spawn", ![c].port = q]
          /\ UNCHANGED lock
    /\ UNCHANGED <<os, file, env>>

\* spawn_daemon_unix
Spawn(c) ==
    /\ At(c, "spawn")
    /\ \E p \in FreePids :
          /\ os' = [os EXCEPT ![p] = [kind |-> "daemon", st |-> "starting",
                                      port |-> cmd[c].port, id |-> cmd[c].db]]
          /\ cmd' = [cmd EXCEPT ![c].pc = "record", ![c].child = p]
          /\ lost' = lost \ {p}
    /\ UNCHANGED <<file, lock, stops, faults, adopted>>

\* server.pid, then server.port, are written; then the previous id is removed.
Record(c) ==
    LET k == cmd[c].left IN
    /\ At(c, "record")
    /\ file' = [file EXCEPT ![StateFiles[k]] = <<cmd[c].child, cmd[c].port, None>>[k]]
    /\ cmd' = [cmd EXCEPT ![c].left = IF k < 3 THEN k + 1 ELSE 1,
                          ![c].pc = IF k < 3 THEN "record" ELSE "health"]
    /\ UNCHANGED <<os, lock, env>>

\* wait_for_health: Ready is whoever answers on the port; else Exited, or TimedOut
\* on a daemon that has bound its port and is silent.
AwaitHealth(c) ==
    LET q == cmd[c].port IN
    /\ At(c, "health")
    /\ \/ \E p \in Answering(q) :
             IF os[p].id = None THEN End(c)
             ELSE /\ cmd' = [cmd EXCEPT ![c].pc = "save", ![c].id = os[p].id,
                                        ![c].ours = Daemon(p)]
                  /\ UNCHANGED lock
       \/ /\ Answering(q) = {}
          /\ ~(Daemon(cmd[c].child) /\ os[cmd[c].child].st = "starting")
          /\ End(c)
    /\ UNCHANGED <<os, file, env>>

\* TimedOut on a daemon that takes more than 30 s to get to its bind.
TimedOutEarly(c) ==
    /\ At(c, "health") /\ Answering(cmd[c].port) = {} /\ faults < MaxFaults
    /\ End(c)
    /\ faults' = faults + 1
    /\ UNCHANGED <<os, file, stops, lost, adopted>>

\* record_instance_id
SaveId(c) ==
    /\ At(c, "save")
    /\ file' = [file EXCEPT !.id = cmd[c].id]
    /\ adopted' = (adopted \/ ~cmd[c].ours)
    /\ End(c)
    /\ UNCHANGED <<os, stops, faults, lost>>

-----------------------------------------------------------------------------
(* Discovery: probe_recorded_server and probe_local_relay_port. *)

\* With no recorded port the default one is probed and nothing is verified: no claim
\* is made of that, and the command is over here.
FindPort(c) ==
    /\ At(c, "port")
    /\ IF file.port = None THEN End(c)
       ELSE cmd' = [cmd EXCEPT ![c].pc = "probe", ![c].port = file.port] /\ UNCHANGED lock
    /\ UNCHANGED <<os, file, env>>

FindProbe(c) ==
    /\ At(c, "probe")
    /\ \/ \E p \in Answering(cmd[c].port) :
             /\ cmd' = [cmd EXCEPT ![c].pc = "pid", ![c].port = None,
                                   ![c].id = os[p].id, ![c].ours = Daemon(p)]
             /\ UNCHANGED lock
       \/ End(c)
    /\ UNCHANGED <<os, file, env>>

\* untrusted_responder: the recorded pid must be an inkentry-server ...
FindPid(c) ==
    /\ At(c, "pid")
    /\ \/ /\ file.pid # None /\ TRUE \in NamedAnswers(file.pid)
          /\ Goto(c, "id") /\ UNCHANGED lock
       \/ (file.pid # None => FALSE \in NamedAnswers(file.pid)) /\ End(c)
    /\ UNCHANGED <<os, file, env>>

\* (Any recorded id will do.)
SameIdAny(id) == file.id # None

\* ... and the recorded id must be the reported one.
SameId(id) == file.id # None /\ id = file.id

FindId(c) ==
    /\ At(c, "id")
    /\ \/ SameId(cmd[c].id) /\ Goto(c, "trusted") /\ UNCHANGED lock
       \/ ~SameId(cmd[c].id) /\ End(c)
    /\ UNCHANGED <<os, file, env>>

\* The command has used the server and ends.
FindDone(c) ==
    /\ At(c, "trusted")
    /\ End(c)
    /\ UNCHANGED <<os, file, env>>

-----------------------------------------------------------------------------
(* The processes themselves. *)

\* main: the daemon binds its port and serves, or exits because the port is taken.
Listen(p) ==
    /\ Daemon(p) /\ os[p].st = "starting"
    /\ os' = [os EXCEPT ![p] = IF PortFree(os[p].port) THEN [@ EXCEPT !.st = "serving"]
                               ELSE NoProcess]
    /\ UNCHANGED <<file, lock, cmd, env>>

Fault ==
    /\ faults < MaxFaults
    /\ faults' = faults + 1
    /\ UNCHANGED <<file, stops, adopted>>

Crash(p) ==
    /\ Fault /\ Daemon(p)
    /\ Die(p)
    /\ UNCHANGED <<lock, cmd, lost>>

Hang(p) ==
    /\ Fault /\ Daemon(p) /\ os[p].st = "serving"
    /\ \E st \in {"hung", "stuck"} : os' = [os EXCEPT ![p].st = st]
    /\ UNCHANGED <<lock, cmd, lost>>

\* A process this state directory did not start takes a pid and perhaps a port.
Arrive(p) ==
    /\ Fault /\ p \in FreePids
    /\ \E q \in FreePorts \cup {None}, k \in {"server", "alien"} :
          os' = [os EXCEPT ![p] = [kind |-> k, st |-> "serving", port |-> q,
                                   id |-> IF k = "server" THEN OtherId ELSE None]]
    /\ UNCHANGED <<lock, cmd, lost>>

\* It ends by itself.
Leave(p) ==
    /\ os[p].kind \in {"server", "alien"}
    /\ Die(p)
    /\ UNCHANGED <<file, lock, cmd, env>>

\* The command dies, or returns an error it cannot go on from; between spawn and
\* the first write that leaves a daemon nobody has a record of.
Abort(c) ==
    /\ Fault /\ ~At(c, "idle")
    /\ lost' = IF At(c, "record") /\ cmd[c].left = 1 THEN lost \cup {cmd[c].child} ELSE lost
    /\ End(c)
    /\ UNCHANGED os

-----------------------------------------------------------------------------
Init ==
    /\ os = [p \in Pids |-> NoProcess]
    /\ file = [pid |-> None, port |-> None, id |-> None]
    /\ lock = None
    /\ cmd = [c \in Cmds |-> Idle]
    /\ stops = 0 /\ faults = 0
    /\ lost = {} /\ adopted = FALSE

\* One statement of a running command.
Step(c) ==
    \/ ReadPid(c) \/ Classify(c) \/ Ps(c) \/ Terminate(c) \/ Clean(c) \/ Bind(c) \/ Spawn(c)
    \/ Record(c) \/ AwaitHealth(c) \/ SaveId(c)
    \/ FindPort(c) \/ FindProbe(c) \/ FindPid(c) \/ FindId(c) \/ FindDone(c)

Next ==
    \/ \E c \in Cmds : \/ BeginStart(c) \/ BeginEnsure(c) \/ BeginStop(c) \/ BeginFind(c)
                       \/ Step(c) \/ ClassifySlow(c) \/ TimedOutEarly(c) \/ Abort(c)
    \/ \E p \in Pids : Listen(p) \/ Crash(p) \/ Hang(p) \/ Arrive(p) \/ Leave(p)

Spec == Init /\ [][Next]_vars

\* A running command goes on, a daemon gets as far as its bind, and somebody keeps
\* running commands that want a server.
Fairness ==
    /\ \A c \in Cmds : WF_vars(Step(c))
    /\ \A p \in Pids : WF_vars(Listen(p))
    /\ SF_vars(\E c \in Cmds : BeginEnsure(c))

FairSpec == Spec /\ Fairness

-----------------------------------------------------------------------------
(* Properties. *)

\* Types; one process listens on a port; the lock is held by no one but a start or
\* ensure that runs.
ServerTypeOK ==
    /\ os \in [Pids -> Process]
    /\ file \in [pid : Pids \cup {None}, port : Ports \cup {None}, id : Dbs \cup {OtherId, None}]
    /\ cmd \in [Cmds -> Command]
    /\ lock # None => lock \in Cmds /\ cmd[lock].op \in Starting
    /\ \A p, r \in Pids : os[p].port # None /\ os[p].port = os[r].port /\ p # r
                            => "starting" \in {os[p].st, os[r].st}
    /\ stops \in 0 .. MaxStops /\ faults \in 0 .. MaxFaults
    /\ lost \subseteq Pids /\ adopted \in BOOLEAN

\* Commands do not orphan daemons: a daemon that runs is the recorded one, or the child
\* of a start that is about to record it.  Otherwise the next start leaves two servers on
\* one database.  The exceptions are the ones in `lost`: the command died before it wrote
\* server.pid, a concurrent stop removed a newer record, SIGKILL did not help, or nothing
\* answered on the recorded port and process_matches_server did not recognise the daemon.
Tracked ==
    \A p \in Pids : Daemon(p) /\ p \notin lost =>
        \/ file.pid = p
        \/ \E c \in Cmds : At(c, "record") /\ cmd[c].left = 1 /\ cmd[c].child = p

\* Discovery sends work only to a daemon of this state directory, however the record, the
\* responder and the recorded process change between its four looks: unless a start has
\* taken the id of a stranger that got the port between its test and the daemon's bind.
TrustedIsOurs ==
    \A c \in Cmds : At(c, "trusted") => cmd[c].ours \/ adopted

\* As long as somebody keeps asking for a server, once stops and faults are over the
\* recorded port is answered from some point on: nothing wedges the lock, no stale
\* record, hung daemon or taken port keeps every start from succeeding.
EventuallyServed ==
    <>[](file.port # None /\ Answering(file.port) # {})
=============================================================================
