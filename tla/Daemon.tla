------------------------------- MODULE Daemon -------------------------------
(***************************************************************************)
(* One device: its daemons, the seednet commands run in a terminal one     *)
(* after the other, and the terminal user interface (cli/src/commands.rs,  *)
(* cli/src/tui.rs, core/src/engine.rs, the beginning and end of            *)
(* core/src/lib.rs), which know of each other only through process ids and *)
(* the files of the state directory.                                       *)
(*                                                                         *)
(* Commands run with the rights they need; the user interface may lack the *)
(* right to signal what they started.  Process ids are not reused.  A      *)
(* signal with no handler ends its target at once.  Peers are abstracted   *)
(* to the daemon that lists them, an identity to the process that made it. *)
(*                                                                         *)
(* Nothing keeps the user from giving a command while another start or     *)
(* stop is under way; whether that has happened is remembered.             *)
(***************************************************************************)
EXTENDS StateDir

CONSTANTS
  Pid,        \* process ids of daemons
  Cli,        \* the terminal's process, as maker of identities
  Patient,    \* BOOLEAN: the user lets a start finish before the next command
  Foreign,    \* BOOLEAN: up runs as root and the user interface does not
  MaxCrash,   \* bound on daemons killed from outside or interrupted
  MaxCommand  \* bound on commands and key presses

Main(p) == <<p, "main">>
Snap(p) == <<p, "snapshot">>
Threads(p) == {Main(p), Snap(p)}
Writers == {Main(p) : p \in Pid} \cup {Snap(p) : p \in Pid} \cup {Cli}
Files == {"identity", "pid", "peers"}
Data == Pid \cup {Cli}  \* what is written

ASSUME DaemonAssumption ==
  /\ File = Files /\ Writer = Writers
  /\ Patient \in BOOLEAN /\ Foreign \in BOOLEAN
  /\ None \notin Data \cup (File \X Data)
  /\ None \notin [file : File, data : Data, ino : Ino, filled : BOOLEAN]
  /\ Data \cap {Empty, Torn} = {}
  /\ Cli \notin Pid \X {"main", "snapshot"}

VARIABLES
  pc,      \* pc[p]: where daemon p is
  key,     \* key[p]: the identity p's engine uses, or None
  parent,  \* parent[p]: who spawned p, "up" or "tui"; "init" once "tui" has left
  cli,     \* the command in the terminal: [at, pid]
  tui,     \* the user interface: [view, pid, child, shown, at]
  used     \* crashes and commands so far, and whether all were orderly

vars == <<dirVars, pc, key, parent, cli, tui, used>>

Idle == [at |-> "idle", pid |-> None]
NoTui == [view |-> "off", pid |-> None, child |-> None, shown |-> None, at |-> "off"]

Init ==
  /\ DirInit
  /\ pc = [p \in Pid |-> "unborn"]
  /\ key = [p \in Pid |-> None]
  /\ parent = [p \in Pid |-> None]
  /\ cli = Idle
  /\ tui = NoTui
  /\ used = [crash |-> 0, command |-> 0, orderly |-> TRUE]

-----------------------------------------------------------------------------
(* Processes *)

Booting == {"identity", "creating", "saving", "pid", "writing_pid"}
Engine == {"starting", "serving"}
Ending == {"stopping", "clearing", "exiting"}

\* kill(pid, 0): the process runs, or nobody has waited for it yet.
Exists(p) == pc[p] \notin {"unborn", "dead"}
Runs(p) == pc[p] \in Booting \cup Engine \cup Ending

\* A process that has ended stays for its parent to wait for.
Ended(p) ==
  IF (parent[p] = "tui" /\ tui.view # "off") \/ cli.pid = p
    THEN "zombie" ELSE "dead"

\* read_pid, None also standing for a file that is not there.
PidFile == Content("pid")
Legible == PidFile \in Pid \cup {None}

\* p ends where it is.
Kill(P) ==
  /\ pc' = [p \in Pid |-> IF p \in P /\ Runs(p) THEN Ended(p) ELSE pc[p]]
  /\ Stopped(UNION {Threads(p) : p \in P})

\* kill(p, SIGTERM) by the user interface is not permitted.
Refused(p) == Foreign /\ parent[p] = "up" /\ Exists(p)

\* The next process id, if there is one left.
NextPid == {p \in Pid : pc[p] = "unborn" /\ p = CHOOSE q \in Pid : pc[q] = "unborn"}

\* A daemon is started; p is its process id.
Spawn(p, who) ==
  /\ pc' = [pc EXCEPT ![p] = "identity"]
  /\ parent' = [parent EXCEPT ![p] = who]

-----------------------------------------------------------------------------
(* The daemon *)

Goto(p, from, to) == pc[p] = from /\ pc' = [pc EXCEPT ![p] = to]

\* SeedNetEngine::new with an identity on disk.
LoadIdentity(p) ==
  /\ Content("identity") \in Pid \cup {Cli}
  /\ Goto(p, "identity", "pid")
  /\ key' = [key EXCEPT ![p] = Content("identity")]
  /\ UNCHANGED <<dirVars, parent, cli, tui, used>>

\* There is none on disk,
FindNoIdentity(p) ==
  /\ Content("identity") = None
  /\ Goto(p, "identity", "creating")
  /\ UNCHANGED <<dirVars, key, parent, cli, tui, used>>

\* Mutant of CreateIdentity: the new identity is used but not saved.
CreateIdentityUnsaved(p) ==
  /\ Goto(p, "creating", "pid")
  /\ key' = [key EXCEPT ![p] = p]
  /\ UNCHANGED <<dirVars, parent, cli, tui, used>>

\* so one is made and saved, whatever is on disk by now.
CreateIdentity(p) ==
  /\ Goto(p, "creating", "saving")
  /\ OpenTmp(Main(p), "identity", p)
  /\ key' = [key EXCEPT ![p] = p]
  /\ UNCHANGED <<parent, cli, tui, used>>

SaveIdentity(p) ==
  /\ Goto(p, "saving", "pid")
  /\ RenameTmp(Main(p))
  /\ UNCHANGED <<key, parent, cli, tui, used>>

\* The identity cannot be read, or a write fails because another process has
\* renamed the temporary file: the daemon ends before it has a PID file.
CannotGoOn(p) ==
  \/ pc[p] = "identity" /\ Content("identity") \in {Empty, Torn}
  \/ pc[p] \in {"saving", "writing_pid"} /\ TmpGone(Main(p))

FailEarly(p) ==
  /\ CannotGoOn(p)
  /\ pc' = [pc EXCEPT ![p] = Ended(p)]
  /\ Stopped(Threads(p))
  /\ UNCHANGED <<disk, tmp, inode, key, parent, cli, tui, used>>

WritePid(p) ==
  /\ Goto(p, "pid", "writing_pid")
  /\ OpenTmp(Main(p), "pid", p)
  /\ UNCHANGED <<key, parent, cli, tui, used>>

PidWritten(p) ==
  /\ Goto(p, "writing_pid", "starting")
  /\ RenameTmp(Main(p))
  /\ UNCHANGED <<key, parent, cli, tui, used>>

\* The engine binds its sockets, creates its device and starts its tasks.
EngineStarts(p) ==
  /\ Goto(p, "starting", "serving")
  /\ UNCHANGED <<dirVars, key, parent, cli, tui, used>>

\* One of them failed.
EngineFails(p) ==
  /\ Goto(p, "starting", "stopping")
  /\ UNCHANGED <<dirVars, key, parent, cli, tui, used>>

\* The snapshot task lists the peers, at once and then again and again.
WritePeers(p) ==
  /\ pc[p] = "serving"
  /\ OpenTmp(Snap(p), "peers", p)
  /\ UNCHANGED <<pc, key, parent, cli, tui, used>>

\* The bytes of any write reach the temporary file.
Fill(w) ==
  /\ FillTmp(w)
  /\ UNCHANGED <<pc, key, parent, cli, tui, used>>

\* A write of the list of peers is finished, by a task that was aborted in the
\* meantime too: it does not stop between two system calls.
PeersWritten(p) ==
  /\ IF TmpGone(Snap(p)) THEN GiveUp(Snap(p)) ELSE RenameTmp(Snap(p))
  /\ UNCHANGED <<pc, key, parent, cli, tui, used>>

\* Ctrl-C: the tasks are aborted and the list of peers is removed.
Interrupt(p) ==
  /\ used.crash < MaxCrash
  /\ Goto(p, "serving", "stopping")
  /\ Removed({"peers"})
  /\ used' = [used EXCEPT !.crash = @ + 1]
  /\ UNCHANGED <<tmp, writing, key, parent, cli, tui>>

\* engine.run has returned: the PID file is removed, whoever wrote it,
ClearPid(p) ==
  /\ Goto(p, "stopping", "clearing")
  /\ Removed({"pid"})
  /\ UNCHANGED <<tmp, writing, key, parent, cli, tui, used>>

\* the list of peers too,
ClearPeers(p) ==
  /\ Goto(p, "clearing", "exiting")
  /\ Removed({"peers"})
  /\ UNCHANGED <<tmp, writing, key, parent, cli, tui, used>>

\* and the process ends when its threads have.
Exit(p) ==
  /\ writing[Snap(p)] = None
  /\ Goto(p, "exiting", Ended(p))
  /\ UNCHANGED <<dirVars, key, parent, cli, tui, used>>

\* A daemon is killed from outside.
Crash(p) ==
  /\ used.crash < MaxCrash
  /\ Runs(p)
  /\ Kill({p})
  /\ used' = [used EXCEPT !.crash = @ + 1]
  /\ UNCHANGED <<disk, tmp, inode, key, parent, cli, tui>>

-----------------------------------------------------------------------------
(* Commands in the terminal *)

\* Nothing is being started or stopped: no command is running, and what was
\* started has a PID file or has failed.
Settled ==
  /\ cli.at = "idle"
  /\ tui.at \in {"off", "loop", "peers"}
  /\ \A p \in Pid : pc[p] \notin Booting

\* The user can give a command.  A patient one does one thing at a time.
Ready == used.command < MaxCommand /\ (Patient => Settled)

\* The command is given.  It is orderly if nothing else is under way and none
\* of its signals is refused.
Commanded(granted) ==
  used' = [used EXCEPT !.command = @ + 1, !.orderly = @ /\ Settled /\ granted]

\* The PID file names a process that exists.
AlreadyUp == PidFile \in Pid /\ Exists(PidFile)

\* up: already running, or a PID file that cannot be read.
UpAlready ==
  /\ Ready /\ cli.at = "idle"
  /\ AlreadyUp \/ ~Legible
  /\ Commanded(TRUE)
  /\ UNCHANGED <<dirVars, pc, key, parent, cli, tui>>

\* up goes on; a stale PID file will be cleared.
Up ==
  /\ Ready /\ cli.at = "idle" /\ NextPid # {}
  /\ Legible /\ ~AlreadyUp
  /\ cli' = [at |-> IF PidFile = None THEN "spawn" ELSE "clear", pid |-> None]
  /\ Commanded(TRUE)
  /\ UNCHANGED <<dirVars, pc, key, parent, tui>>

UpClears ==
  /\ cli.at = "clear"
  /\ Removed({"pid"})
  /\ cli' = [cli EXCEPT !.at = "spawn"]
  /\ UNCHANGED <<tmp, writing, pc, key, parent, tui, used>>

UpSpawn ==
  /\ cli.at = "spawn"
  /\ \E p \in NextPid : Spawn(p, "up") /\ cli' = [at |-> "wait", pid |-> p]
  /\ UNCHANGED <<dirVars, key, tui, used>>

\* The log can not be opened or the process not be spawned.
UpSpawnFails ==
  /\ cli.at = "spawn"
  /\ cli' = Idle
  /\ UNCHANGED <<dirVars, pc, key, parent, tui, used>>

\* The command returns.  A child that has ended is left to init.
Return ==
  /\ cli' = Idle
  /\ pc' = [p \in Pid |-> IF pc[p] = "zombie" /\ parent[p] = "up" THEN "dead" ELSE pc[p]]

\* try_wait: the daemon exited immediately; or the PID file cannot be read.
UpGivesUp == pc[cli.pid] = "zombie" \/ ~Legible

\* The command fails; a daemon that lives stays.
UpFails ==
  /\ cli.at = "wait" /\ UpGivesUp
  /\ Return
  /\ UNCHANGED <<dirVars, key, parent, tui, used>>

\* The PID file names a living process.
UpSees ==
  /\ cli.at = "wait" /\ AlreadyUp
  /\ cli' = [cli EXCEPT !.at = "report"]
  /\ UNCHANGED <<dirVars, pc, key, parent, tui, used>>

\* Five seconds are over: the child is killed.
UpTimeout ==
  /\ cli.at = "wait"
  /\ cli' = Idle
  /\ pc' = [pc EXCEPT ![cli.pid] = IF Exists(cli.pid) THEN "dead" ELSE @]
  /\ Stopped(Threads(cli.pid))
  /\ UNCHANGED <<disk, tmp, inode, key, parent, tui, used>>

\* up (when it reports) and identity look for the identity ...
LooksForIdentity ==
  \/ cli.at = "report" /\ UNCHANGED used
  \/ Ready /\ cli.at = "idle" /\ Commanded(TRUE)

CliIdentity ==
  /\ LooksForIdentity
  /\ Content("identity") # None
  /\ Return
  /\ UNCHANGED <<dirVars, key, parent, tui>>

CliNoIdentity ==
  /\ LooksForIdentity
  /\ Content("identity") = None
  /\ cli' = [cli EXCEPT !.at = "creating"]
  /\ UNCHANGED <<dirVars, pc, key, parent, tui>>

\* ... and make one if there was none.
CliCreatesIdentity ==
  /\ cli.at = "creating"
  /\ OpenTmp(Cli, "identity", Cli)
  /\ cli' = [cli EXCEPT !.at = "saving"]
  /\ UNCHANGED <<pc, key, parent, tui, used>>

CliSaved ==
  /\ cli.at = "saving"
  /\ IF TmpGone(Cli) THEN GiveUp(Cli) ELSE RenameTmp(Cli)
  /\ Return
  /\ UNCHANGED <<key, parent, tui, used>>

\* The user interrupts a command; what it started goes on.
CliKilled ==
  /\ used.crash < MaxCrash
  /\ cli.at # "idle"
  /\ Return
  /\ Stopped({Cli})
  /\ used' = [used EXCEPT !.crash = @ + 1]
  /\ UNCHANGED <<disk, tmp, inode, key, parent, tui>>

\* pgrep -f "seednet _daemon" finds the daemons started by up; the command
\* line of those started by the user interface has an option in between.
Orphans == {p \in Pid : Runs(p) /\ parent[p] = "up"}

\* Mutant of DownSignals: the signal is the harmless one of the check before.
DownSignalsNothing ==
  /\ Ready /\ cli.at = "idle"
  /\ AlreadyUp
  /\ cli' = [at |-> "settle", pid |-> None]
  /\ Commanded(TRUE)
  /\ UNCHANGED <<dirVars, pc, key, parent, tui>>

\* down: the PID file names a living process.
DownSignals ==
  /\ Ready /\ cli.at = "idle"
  /\ AlreadyUp
  /\ Kill({PidFile})
  /\ cli' = [at |-> "settle", pid |-> None]
  /\ Commanded(TRUE)
  /\ UNCHANGED <<disk, tmp, inode, key, parent, tui>>

\* Half a second later the files are removed, whoever wrote them.
DownClears ==
  /\ cli.at = "settle"
  /\ Removed({"pid", "peers"})
  /\ cli' = Idle
  /\ UNCHANGED <<tmp, writing, pc, key, parent, tui, used>>

\* down finds no living process to signal.
DownStale ==
  /\ Ready /\ cli.at = "idle"
  /\ Legible /\ ~AlreadyUp
  /\ cli' = [at |-> IF PidFile = None THEN "search" ELSE "tidy", pid |-> None]
  /\ Commanded(TRUE)
  /\ UNCHANGED <<dirVars, pc, key, parent, tui>>

\* The PID file named none: the files are removed, whatever they say by now,
DownTidies ==
  /\ cli.at = "tidy"
  /\ Removed({"pid", "peers"})
  /\ cli' = [cli EXCEPT !.at = "sweep"]
  /\ UNCHANGED <<tmp, writing, pc, key, parent, tui, used>>

\* and then what pgrep finds is signalled.
DownSweeps ==
  /\ cli.at = "sweep"
  /\ Kill(Orphans)
  /\ cli' = Idle
  /\ UNCHANGED <<disk, tmp, inode, key, parent, tui, used>>

\* There was no PID file: the files go only if pgrep finds something.
DownSearches ==
  /\ cli.at = "search"
  /\ Kill(Orphans)
  /\ cli' = IF Orphans = {} THEN Idle ELSE [cli EXCEPT !.at = "settle"]
  /\ UNCHANGED <<disk, tmp, inode, key, parent, tui, used>>

-----------------------------------------------------------------------------
(* The user interface *)

TuiOpens ==
  /\ Ready /\ tui.at = "off"
  /\ tui' = [NoTui EXCEPT !.view = "Stopped", !.at = "loop"]
  /\ Commanded(TRUE)
  /\ UNCHANGED <<dirVars, pc, key, parent, cli>>

Polls == tui.at = "loop" /\ \A p \in {tui.child} \cap Pid : pc[p] # "zombie"

\* poll: the child has exited.
PollExited ==
  /\ tui.at = "loop" /\ tui.child # None
  /\ pc[tui.child] = "zombie"
  /\ pc' = [pc EXCEPT ![tui.child] = "dead"]
  /\ tui' = [tui EXCEPT !.view = "Stopped", !.pid = None, !.child = None, !.shown = None]
  /\ UNCHANGED <<dirVars, key, parent, cli, used>>

\* poll: the PID file names a living process, and the list of peers is next.
PollRunning ==
  /\ Polls
  /\ AlreadyUp
  /\ tui' = [tui EXCEPT !.view = "Running", !.pid = PidFile, !.at = "peers"]
  /\ UNCHANGED <<dirVars, pc, key, parent, cli, used>>

\* Mutant of PollNothing: the peers stay on the screen.
PollNothingKeeps ==
  /\ Polls
  /\ ~AlreadyUp
  /\ tui.view = "Running"
  /\ tui' = [tui EXCEPT !.view = "Stopped", !.pid = None, !.child = None]
  /\ UNCHANGED <<dirVars, pc, key, parent, cli, used>>

\* poll: no living process is named.
PollNothing ==
  /\ Polls
  /\ ~AlreadyUp
  /\ tui.view = "Running"
  /\ tui' = [tui EXCEPT !.view = "Stopped", !.pid = None, !.child = None, !.shown = None]
  /\ UNCHANGED <<dirVars, pc, key, parent, cli, used>>

\* refresh_peers; what cannot be read changes nothing.
RefreshPeers ==
  /\ tui.at = "peers"
  /\ tui' = [tui EXCEPT !.at = "loop",
                        !.shown = IF Content("peers") \in Pid THEN Content("peers") ELSE @]
  /\ UNCHANGED <<dirVars, pc, key, parent, cli, used>>

\* Mutant of TuiStarts: nothing is signalled.
TuiStartsBeside ==
  /\ Ready /\ tui.at = "loop" /\ tui.view = "Stopped" /\ NextPid # {}
  /\ tui' = [tui EXCEPT !.view = "Starting", !.at = "start", !.pid = IF Legible THEN PidFile ELSE None]
  /\ Commanded(TRUE)
  /\ UNCHANGED <<dirVars, pc, key, parent, cli>>

\* start_daemon: whatever the PID file names is signalled; the answer is not
\* looked at.
TuiStarts ==
  /\ Ready /\ tui.at = "loop" /\ tui.view = "Stopped" /\ NextPid # {}
  /\ tui' = [tui EXCEPT !.view = "Starting", !.at = "start", !.pid = IF Legible THEN PidFile ELSE None]
  /\ Kill({p \in {PidFile} \cap Pid : ~Refused(p)})
  /\ Commanded(\A p \in {PidFile} \cap Pid : ~Refused(p))
  /\ UNCHANGED <<disk, tmp, inode, key, parent, cli>>

\* 0.3 seconds later the PID file is removed, if there was one,
TuiClears ==
  /\ tui.at = "start"
  /\ Removed(IF tui.pid = None THEN {} ELSE {"pid"})
  /\ tui' = [tui EXCEPT !.at = "spawn", !.pid = None]
  /\ UNCHANGED <<tmp, writing, pc, key, parent, cli, used>>

\* and a daemon spawned.
TuiSpawns ==
  /\ tui.at = "spawn"
  /\ \E p \in NextPid :
       Spawn(p, "tui") /\ tui' = [tui EXCEPT !.at = "loop", !.child = p]
  /\ UNCHANGED <<dirVars, key, cli, used>>

\* The log can not be opened or the process not be spawned.
TuiSpawnFails ==
  /\ tui.at = "spawn"
  /\ tui' = [tui EXCEPT !.at = "loop", !.view = "Stopped"]
  /\ UNCHANGED <<dirVars, pc, key, parent, cli, used>>

\* Mutant of StopSignals: only the daemon started here is stopped.
StopSignalsChild(then) ==
  /\ Kill({tui.child} \cap Pid) /\ UNCHANGED <<disk, inode>>
  /\ Commanded(TRUE)
  /\ tui' = [tui EXCEPT !.view = "Stopping", !.at = then, !.child = None]

\* stop_daemon, on Enter or on leaving while Running: the process the PID file
\* names is signalled and the child killed.  If the signal fails, sudo down is
\* waited for; if that fails too, SIGKILL fails like the first signal.
StopSignals(then) ==
  LET named == {PidFile} \cap Pid
      child == {tui.child} \cap Pid
      fails == \E p \in named : ~Exists(p) \/ Refused(p)
  IN /\ \/ /\ ~fails
           /\ Kill(named \cup child) /\ UNCHANGED <<disk, inode>>
           /\ Commanded(TRUE)
        \/ /\ fails
           /\ Kill(child \cup IF AlreadyUp THEN named ELSE Orphans)
           /\ Removed({"pid", "peers"})
           /\ Commanded(TRUE)
        \/ /\ fails
           /\ Kill(child) /\ UNCHANGED <<disk, inode>>
           /\ Commanded(~AlreadyUp)
     /\ tui' = [tui EXCEPT !.view = "Stopping", !.at = then, !.child = None]

TuiStops ==
  /\ Ready /\ tui.at = "loop" /\ tui.view = "Running"
  /\ StopSignals("stop")
  /\ UNCHANGED <<tmp, key, parent, cli>>

\* 0.6 seconds later the PID file is removed.
TuiStopped ==
  /\ tui.at = "stop"
  /\ Removed({"pid"})
  /\ tui' = [tui EXCEPT !.at = "loop", !.view = "Stopped", !.pid = None, !.shown = None]
  /\ UNCHANGED <<tmp, writing, pc, key, parent, cli, used>>

TuiQuitsRunning ==
  /\ Ready /\ tui.at = "loop" /\ tui.view = "Running"
  /\ StopSignals("quit")
  /\ UNCHANGED <<tmp, key, parent, cli>>

\* The process ends; its children are left to init.
TuiGone ==
  /\ tui' = NoTui
  /\ parent' = [p \in Pid |-> IF parent[p] = "tui" THEN "init" ELSE parent[p]]
  /\ pc' = [p \in Pid |-> IF pc[p] = "zombie" /\ parent[p] = "tui" THEN "dead" ELSE pc[p]]

TuiLeft ==
  /\ tui.at = "quit"
  /\ Removed({"pid"})
  /\ TuiGone
  /\ UNCHANGED <<tmp, writing, key, cli, used>>

\* Leaving while a daemon is starting, or none is known, leaves it alone, and
\* disturbs no start or stop.
TuiQuits ==
  /\ used.command < MaxCommand
  /\ tui.at = "loop" /\ tui.view \in {"Stopped", "Starting"}
  /\ TuiGone
  /\ used' = [used EXCEPT !.command = @ + 1]
  /\ UNCHANGED <<dirVars, key, cli>>

-----------------------------------------------------------------------------
DaemonStep(p) ==
  \/ LoadIdentity(p) \/ FindNoIdentity(p) \/ CreateIdentity(p) \/ SaveIdentity(p) \/ FailEarly(p)
  \/ WritePid(p) \/ PidWritten(p) \/ EngineStarts(p) \/ EngineFails(p)
  \/ ClearPid(p) \/ ClearPeers(p) \/ Exit(p)

CliStep ==
  \/ UpClears \/ UpSpawn \/ UpSpawnFails \/ UpFails \/ UpSees
  \/ CliCreatesIdentity \/ CliSaved
  \/ DownClears \/ DownTidies \/ DownSweeps \/ DownSearches
  \/ cli.at = "report" /\ (CliIdentity \/ CliNoIdentity)

TuiStep ==
  \/ PollExited \/ PollRunning \/ PollNothing \/ RefreshPeers
  \/ TuiClears \/ TuiSpawns \/ TuiSpawnFails \/ TuiStopped \/ TuiLeft

UserStep ==
  \/ UpAlready \/ Up \/ DownSignals \/ DownStale
  \/ cli.at = "idle" /\ (CliIdentity \/ CliNoIdentity)
  \/ TuiOpens \/ TuiStarts \/ TuiStops \/ TuiQuitsRunning \/ TuiQuits

Next ==
  \/ \E p \in Pid : DaemonStep(p) \/ WritePeers(p) \/ PeersWritten(p) \/ Interrupt(p) \/ Crash(p)
  \/ \E w \in Writer : Fill(w)
  \/ CliStep \/ UpTimeout \/ CliKilled
  \/ TuiStep
  \/ UserStep

Spec == Init /\ [][Next]_vars

(* Fairness: processes that run keep running, and the user interface keeps   *)
(* polling.  Nothing is assumed of the user, of crashes and of deadlines.    *)
Fairness ==
  /\ \A p \in Pid : WF_vars(DaemonStep(p)) /\ WF_vars(WritePeers(p)) /\ WF_vars(PeersWritten(p))
  /\ \A w \in Writer : WF_vars(Fill(w))
  /\ WF_vars(CliStep) /\ WF_vars(UpTimeout)
  /\ WF_vars(TuiStep)

FairSpec == Spec /\ Fairness

-----------------------------------------------------------------------------
(* Properties *)

TypeOK ==
  /\ DirTypeOK(Data)
  /\ pc \in [Pid -> {"unborn", "zombie", "dead"} \cup Booting \cup Engine \cup Ending]
  /\ key \in [Pid -> Pid \cup {Cli, None}]
  /\ parent \in [Pid -> {"up", "tui", "init", None}]
  /\ cli \in [at : {"idle", "clear", "spawn", "wait", "report", "creating", "saving",
                    "settle", "tidy", "sweep", "search"},
              pid : Pid \cup {None}]
  /\ tui \in [view : {"off", "Stopped", "Starting", "Running", "Stopping"},
              pid : Pid \cup {None}, child : Pid \cup {None}, shown : Pid \cup {None},
              at : {"off", "loop", "peers", "start", "spawn", "stop", "quit"}]
  /\ used \in [crash : Nat, command : Nat, orderly : BOOLEAN]

\* No two threads write the identity or the PID file at the same time: they
\* would share the temporary file (config/src/lib.rs:192-198).
SoleWriter ==
  \A v, w \in Writer :
    writing[v] # None /\ writing[w] # None /\ writing[v].file = writing[w].file
      => v = w \/ writing[v].file = "peers"

\* Peers are on the screen only next to a daemon believed to run
\* (tui.rs:266, 283, 314).
PeersHaveDaemon == tui.shown # None => tui.view \in {"Running", "Stopping"}

\* What the interface shows fits where it is.
ViewMatches ==
  /\ tui.at = "peers" => tui.view = "Running"
  /\ tui.at \in {"start", "spawn"} => tui.view = "Starting"

\* This much holds for any user.
AnyUserInv == TypeOK /\ InodesApart /\ PeersHaveDaemon /\ ViewMatches

(* The rest holds until a command was given in the middle of another start   *)
(* or stop, or a signal was refused.                                         *)

\* The files that matter have one writer at a time, and content.
Kept == {"identity", "pid"}
KeptWell ==
  /\ \A w \in Writer : writing[w] # None /\ writing[w].file \in Kept => WritesAlone(w)
  /\ \A f \in Kept : disk[f] # None => inode[disk[f]] # Empty

\* Each thread writes what its place in the program says.
WritersMatch ==
  /\ \A p \in Pid : writing[Main(p)] # None =>
       /\ writing[Main(p)].data = p
       /\ \/ pc[p] = "saving" /\ writing[Main(p)].file = "identity"
          \/ pc[p] = "writing_pid" /\ writing[Main(p)].file = "pid"
  /\ \A p \in Pid : writing[Snap(p)] # None => writing[Snap(p)].file = "peers"
  /\ writing[Cli] # None =>
       cli.at = "saving" /\ writing[Cli].file = "identity" /\ writing[Cli].data = Cli

\* Daemons that have a PID file, or will have, unless they fail.
Named == Engine \cup {"stopping"}
Active == Booting \cup Named

\* A daemon that has written the PID file is named by it until it removes it,
\* and there is one at a time.
OneActive ==
  /\ \A p, q \in Pid : pc[p] \in Active /\ pc[q] \in Active => p = q
  /\ \A p \in Pid : pc[p] \in Named => PidFile = p

Quiet == \A p \in Pid : pc[p] \notin Active
NoneBoots == \A p \in Pid : pc[p] \notin Booting

\* A command or the interface in the middle of something that no daemon should
\* be in the middle of.
OneAtATime ==
  /\ cli.at # "idle" => tui.at \in {"off", "loop", "peers"}
  /\ cli.at \in {"clear", "spawn", "settle", "tidy", "sweep", "search"}
       \/ tui.at \in {"start", "spawn", "stop", "quit"} => Quiet
  /\ cli.at \in {"spawn", "sweep", "search"} => PidFile = None
  /\ cli.at = "wait" =>
       /\ cli.pid \in Pid /\ pc[cli.pid] # "unborn"
       /\ \A p \in Pid : pc[p] \in Booting => p = cli.pid
       /\ PidFile = None \/ (PidFile = cli.pid /\ pc[cli.pid] \notin Booting)
  /\ cli.at \in {"report", "creating", "saving"} => NoneBoots

\* Whoever saves an identity found none, and a daemon that has one has the
\* one that is saved.
IdentityMatches ==
  /\ cli.at \in {"creating", "saving"} => Content("identity") = None
  /\ \A p \in Pid : pc[p] \in {"creating", "saving"} => Content("identity") = None
  /\ \A p \in Pid : pc[p] = "saving" => key[p] = p
  /\ \A p \in Pid : pc[p] \in {"pid", "writing_pid"} \cup Engine =>
       Content("identity") = key[p] /\ key[p] # None

\* So far no command was given in the middle of another start or stop, and no
\* signal refused.
Orderly == used.orderly

\* The state of daemons, terminal and user interface is one the code can be in.
DaemonInv ==
  /\ AnyUserInv
  /\ Orderly =>
       SoleWriter /\ KeptWell /\ WritersMatch /\ OneActive /\ OneAtATime /\ IdentityMatches

\* There is never more than one daemon that runs an engine or is about to
\* (commands.rs:29-37, tui.rs:136-144).
OneEngine == Cardinality({p \in Pid : pc[p] \in Booting \cup Engine}) <= 1

\* A running engine can be found: the PID file names it (commands.rs:280,
\* docs/en/reference/cli.md:96).
EngineIsNamed == \A p \in Pid : pc[p] \in Engine => PidFile = p

\* The identity an engine uses is the one the device will have after a restart
\* (config/src/lib.rs:102-132, docs/en/reference/cli.md:95).
IdentityIsSaved == \A p \in Pid : pc[p] \in Engine => Content("identity") = key[p]

\* Nothing but two starts or stops at the same time, or a signal the interface
\* had no right to send, leads to a second engine: kills, interrupts, a start
\* given up after five seconds and what any of them leaves behind do not
\* (commands.rs:29-37, 225-236, tui.rs:136-144).
EnginesCollideOnlyInHaste == Orderly => OneEngine

\* Nor does anything else take the PID file from a running engine, although
\* down, the interface and every ending daemon remove that file whoever wrote it
\* (commands.rs:285, 312, 318, tui.rs:144, 265).
EnginesLostOnlyInHaste == Orderly => EngineIsNamed

\* When down is over no engine is left and no PID file (commands.rs:300-336).
DownEnds == DownClears \/ DownSweeps \/ (DownSearches /\ cli'.at = "idle")

DownStops ==
  [][DownEnds /\ Orderly =>
       disk'["pid"] = None /\ \A p \in Pid : pc'[p] \notin Engine]_vars

\* As long as everything was orderly, the user interface is in the end right
\* about the daemon, and lists what it and no earlier daemon wrote
\* (tui.rs:271-411).
ViewConverges ==
  []Orderly =>
    <>[](tui.view = "off" \/
       \/ \E p \in Pid : pc[p] = "serving" /\ tui.view = "Running" /\ tui.pid = p /\ tui.shown = p
       \/ /\ \A p \in Pid : pc[p] # "serving"
          /\ tui.view = "Stopped" /\ tui.shown = None)

Promised ==
  INSTANCE StateFiles WITH
    File <- Kept,
    Data <- Data \cup {Torn},
    content <- [f \in Kept |-> Content(f)],
    asked <- [w \in Writer |->
      IF writing[w] = None \/ writing[w].file \notin Kept THEN None
      ELSE <<writing[w].file, writing[w].data>>]

\* The identity and the PID file are replaced at once or not at all, whatever
\* is killed between the system calls of atomic_write
\* (config/src/lib.rs:185-209).
ImplementsStateFiles == Promised!Spec
=============================================================================
