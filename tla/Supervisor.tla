------------------------------ MODULE Supervisor ------------------------------
(***************************************************************************)
(* The PID file protocol by which pmux commands start and stop the one     *)
(* background agent, and the self-update that replaces its executable.     *)
(*                                                                         *)
(* Commands are processes that each run one script: a passthrough command  *)
(* (ensure), agent start, stop, restart and status (detail), pmux status,  *)
(* pair and update.  They share with the agents nothing but agent.pid, the *)
(* flock on whatever inode that path named when they opened it, signals,   *)
(* the executable and update-state.json.  The path, the inodes and the     *)
(* locks are separate state: WritePIDFile renames a new inode over the     *)
(* path, RemovePIDFile unlinks it, and a flock stays with the old inode.   *)
(***************************************************************************)
EXTENDS Integers, FiniteSets, FiniteSetsExt

CONSTANTS
    Scripts,        \* the scripts commands may run
    MaxCommands,    \* commands in a run
    MaxFaults       \* crashes, failures to start and fatal errors

ASSUME SupervisorAssumption ==
    /\ Scripts \subseteq {"ensure", "start", "stop", "restart", "pair", "status", "detail", "update"}
    /\ MaxCommands \in Nat \ {0}
    /\ MaxFaults \in Nat

Commands == 1..MaxCommands
Pids == 1..(MaxCommands + 1)   \* a command spawns at most one agent
Inodes == 1..(2 * MaxCommands + 2)
NoInode == 0
NoPid == 0          \* an empty or unparseable PID file
Nobody == 0         \* a free lock
Old == 1            \* versions of the executable
New == 2
Release == New      \* the latest release

VARIABLES
    path,       \* the inode agent.pid names, or NoInode
    content,    \* the PID in it; what unlinked inodes hold is never read
    lock,       \* the command that has each inode locked
    cmd,        \* the commands
    proc,       \* the processes with an agent's PID
    exe,        \* the installed version
    state,      \* update-state.json: the version that wrote it, updateAvailable
    raced,      \* did the flock or the PID file fail the commands (DuplicateNeedsRace)
    mixed,      \* did a command start an agent while an update was at work
    faults      \* faults so far

vars == <<path, content, lock, cmd, proc, exe, state, raced, mixed, faults>>

fileVars == <<path, content, lock>>
updateVars == <<exe, state>>
pastVars == <<raced, mixed, faults>>

-----------------------------------------------------------------------------
\* A command: its script, where it is, the version compiled into it, the PID it
\* read, the inode it has open for locking and the one spawn writes.
Waiting == [script |-> "none", pc |-> "idle", ver |-> Old, pid |-> NoPid, fd |-> NoInode,
            out |-> NoInode]

\* It returns, and the kernel or a deferred Close closes what it has open.
Returns(c, pc) == [cmd EXCEPT ![c] = [Waiting EXCEPT !.script = cmd[c].script, !.pc = pc]]

NoProc == [pc |-> "none", told |-> FALSE, fatal |-> FALSE, ver |-> Old]
Dead == [NoProc EXCEPT !.pc = "dead"]

Alive(p) == proc[p].pc \in {"exec", "up", "returned"}

\* kill(pid, 0), and the same with the argv of `pmux agent run`.
IsProcessRunning(p) == Alive(p) \/ proc[p].pc = "stranger"

IsAgentProcess(p) == Alive(p)

\* An agent that nobody has told to stop.
Running(p) == proc[p].pc \in {"exec", "up"} /\ ~proc[p].told

\* One that the PID file is to name: it starts up, told or not, or runs.
InCharge(p) == proc[p].pc = "exec" \/ Running(p)

\* ReadPIDFile: what the path names, or NoPid.
ReadPIDFile == content

FreeInode == Min({i \in Inodes : /\ i # path
                                 /\ lock[i] = Nobody
                                 /\ \A c \in Commands : i \notin {cmd[c].fd, cmd[c].out}})

\* A command that has begun and has not returned.
Active(c) == cmd[c].pc \notin {"idle", "done", "failed"}

\* It has found no agent, under the lock, and has not yet recorded the one it starts.
Spawning(c) == cmd[c].pc \in {"fork", "truncate", "write"}

FreePids == {p \in Pids : proc[p].pc = "none"}

-----------------------------------------------------------------------------
Init ==
    /\ \E first \in {"none", "up", "dead", "stranger"} :
         /\ proc = [p \in Pids |-> IF p = 1 THEN [NoProc EXCEPT !.pc = first] ELSE NoProc]
         /\ path = IF first = "none" THEN NoInode ELSE 1
         /\ content = IF first = "none" THEN NoPid ELSE 1
    /\ lock = [i \in Inodes |-> Nobody]
    /\ cmd = [c \in Commands |-> Waiting]
    /\ exe = Old
    /\ state = [by |-> Old, available |-> FALSE]
    /\ raced = FALSE
    /\ mixed = FALSE
    /\ faults = 0

First(script) ==
    CASE script = "ensure" -> "open"
      [] script = "start" -> "precheck"
      [] script \in {"stop", "restart", "pair"} -> "stop"
      [] script \in {"status", "detail"} -> "stat"
      [] script = "update" -> "fetch"

\* Where a script goes on once its stop phase is over.
AfterStop(script) ==
    CASE script = "restart" -> "precheck"
      [] script = "pair" -> "open"
      [] script = "update" -> "replace"
      [] OTHER -> "done"

Continue(c) ==
    IF AfterStop(cmd[c].script) = "done" THEN Returns(c, "done")
    ELSE [cmd EXCEPT ![c].pc = AfterStop(cmd[c].script)]

Begin(c) ==
    /\ cmd[c].pc = "idle"
    /\ \A b \in 1..(c - 1) : cmd[b].pc # "idle"
    /\ \E s \in Scripts :
         /\ cmd' = [cmd EXCEPT ![c].script = s, ![c].pc = First(s), ![c].ver = exe]
         /\ mixed' = (mixed \/ /\ s = "update"
                               /\ \E b \in Commands : cmd[b].pc \in {"truncate", "write"})
    /\ UNCHANGED <<fileVars, proc, updateVars, raced, faults>>

-----------------------------------------------------------------------------
(* EnsureRunning, and RunAgentStart's check before it.                       *)

\* RunAgentStart: already running.
Precheck(c) ==
    /\ cmd[c].pc = "precheck"
    /\ cmd' = IF ReadPIDFile # NoPid /\ IsAgentProcess(ReadPIDFile)
              THEN Returns(c, "done") ELSE [cmd EXCEPT ![c].pc = "open"]
    /\ UNCHANGED <<fileVars, proc, updateVars, pastVars>>

\* os.OpenFile with O_CREATE.
Open(c) ==
    /\ cmd[c].pc = "open"
    /\ LET i == IF path = NoInode THEN FreeInode ELSE path IN
         /\ cmd' = [cmd EXCEPT ![c].pc = "lock", ![c].fd = i]
         /\ path' = i
    /\ UNCHANGED <<content, lock, proc, updateVars, pastVars>>

\* Mutant: the flock is not exclusive.
FlockShared(c) ==
    /\ cmd[c].pc = "lock"
    /\ lock' = [lock EXCEPT ![cmd[c].fd] = c]
    /\ cmd' = [cmd EXCEPT ![c].pc = "check"]
    /\ UNCHANGED <<path, content, proc, updateVars, pastVars>>

Flock(c) ==
    /\ cmd[c].pc = "lock"
    /\ lock[cmd[c].fd] = Nobody
    /\ lock' = [lock EXCEPT ![cmd[c].fd] = c]
    /\ cmd' = [cmd EXCEPT ![c].pc = "check"]
    /\ UNCHANGED <<path, content, proc, updateVars, pastVars>>

\* Mutant: the agent inherits the descriptor, and with it the lock.
ClosedByAgent(c) == lock

\* f.Close, deferred; the kernel does it for a command that dies.
Closed(c) == [i \in Inodes |-> IF lock[i] = c THEN Nobody ELSE lock[i]]

\* The PID file is read again under the lock: wake the agent, or spawn one.
Recheck(c) ==
    /\ cmd[c].pc = "check"
    /\ IF ReadPIDFile # NoPid /\ IsAgentProcess(ReadPIDFile)
       THEN cmd' = Returns(c, "done") /\ lock' = Closed(c) /\ UNCHANGED raced
       ELSE /\ cmd' = [cmd EXCEPT ![c].pc = "fork"]
            /\ UNCHANGED lock
            /\ raced' = (raced \/ \E b \in Commands : Spawning(b) /\ cmd[b].fd # cmd[c].fd)
    /\ UNCHANGED <<path, content, proc, updateVars, mixed, faults>>

\* SIGUSR1 comes before the agent's runtime has taken its signals over, and ends it.
WokenTooEarly(c) ==
    /\ cmd[c].pc = "check"
    /\ ReadPIDFile # NoPid
    /\ proc[ReadPIDFile].pc = "exec"
    /\ faults < MaxFaults
    /\ faults' = faults + 1
    /\ proc' = [proc EXCEPT ![ReadPIDFile] = Dead]
    /\ cmd' = Returns(c, "done")
    /\ lock' = Closed(c)
    /\ UNCHANGED <<path, content, updateVars, raced, mixed>>

\* spawn, cmd.Start: the child runs whatever executable is installed now.
Spawn(c) ==
    /\ cmd[c].pc = "fork"
    /\ LET p == Min(FreePids) IN
         /\ proc' = [proc EXCEPT ![p].pc = "exec", ![p].ver = exe]
         /\ cmd' = [cmd EXCEPT ![c].pc = "truncate", ![c].pid = p]
    /\ mixed' = (mixed \/ \E b \in Commands : cmd[b].script = "update" /\ Active(b))
    /\ UNCHANGED <<fileVars, updateVars, raced, faults>>

SpawnFails(c) ==
    /\ cmd[c].pc = "fork"
    /\ faults < MaxFaults
    /\ cmd' = Returns(c, "failed")
    /\ lock' = Closed(c)
    /\ faults' = faults + 1
    /\ UNCHANGED <<path, content, proc, updateVars, raced, mixed>>

\* os.WriteFile opens the path with O_TRUNC: by now it may name the agent's own file.
Truncate(c) ==
    /\ cmd[c].pc = "truncate"
    /\ LET i == IF path = NoInode THEN FreeInode ELSE path IN
         /\ path' = i
         /\ content' = NoPid
         /\ cmd' = [cmd EXCEPT ![c].pc = "write", ![c].out = i]
    /\ UNCHANGED <<lock, proc, updateVars, pastVars>>

WriteChild(c) ==
    /\ cmd[c].pc = "write"
    /\ content' = IF cmd[c].out = path THEN cmd[c].pid ELSE content
    /\ cmd' = Returns(c, "done")
    /\ lock' = Closed(c)
    /\ UNCHANGED <<path, proc, updateVars, pastVars>>

-----------------------------------------------------------------------------
(* RunAgentStop and StopRunning (pair).                                      *)

\* RemovePIDFile, whatever the path names by now.
RemovePIDFile ==
    /\ path' = NoInode
    /\ content' = NoPid
    /\ raced' = (raced \/ /\ path # NoInode
                          /\ \/ content # NoPid /\ InCharge(content)
                             \/ \E c \in Commands : cmd[c].pc = "write")

StopReads(c) ==
    /\ cmd[c].pc = "stop"
    /\ LET p == ReadPIDFile IN
       cmd' = CASE p = NoPid -> Continue(c)
                [] p # NoPid /\ ~IsAgentProcess(p) -> [cmd EXCEPT ![c].pc = "remove", ![c].pid = p]
                [] OTHER -> [cmd EXCEPT ![c].pc = "term", ![c].pid = p]
    /\ UNCHANGED <<fileVars, proc, updateVars, pastVars>>

\* SIGTERM: before runAgent's Notify it ends the process, afterwards the first one
\* cancels the context and the second one exits at once.
StopTerminates(c) ==
    /\ cmd[c].pc = "term"
    /\ LET p == cmd[c].pid IN
         /\ IsProcessRunning(p)
         /\ \/ Alive(p) /\ ~proc[p].told /\ proc' = [proc EXCEPT ![p].told = TRUE]
            \/ /\ proc[p].told \/ proc[p].pc \in {"exec", "stranger"}
               /\ proc' = [proc EXCEPT ![p] = Dead]
    /\ cmd' = [cmd EXCEPT ![c].pc = "wait"]
    /\ UNCHANGED <<fileVars, updateVars, pastVars>>

\* The process is gone.  StopRunning takes that for success, RunAgentStop returns an
\* error, which restart passes on and update ignores.
TerminateFails(c) ==
    /\ cmd[c].pc = "term"
    /\ ~IsProcessRunning(cmd[c].pid)
    /\ cmd' = CASE cmd[c].script = "pair" -> [cmd EXCEPT ![c].pc = "remove"]
                [] cmd[c].script = "update" -> Continue(c)
                [] OTHER -> Returns(c, "failed")
    /\ UNCHANGED <<fileVars, proc, updateVars, pastVars>>

\* The ticker finds the process gone.
StopSeesExit(c) ==
    /\ cmd[c].pc = "wait"
    /\ ~IsProcessRunning(cmd[c].pid)
    /\ cmd' = [cmd EXCEPT ![c].pc = "remove"]
    /\ UNCHANGED <<fileVars, proc, updateVars, pastVars>>

\* The deadline, which may come at any time: SIGKILL.
StopKills(c) ==
    /\ cmd[c].pc = "wait"
    /\ proc' = [proc EXCEPT ![cmd[c].pid] = Dead]
    /\ cmd' = [cmd EXCEPT ![c].pc = "remove"]
    /\ UNCHANGED <<fileVars, updateVars, pastVars>>

\* RemovePIDFile at the end of a stop phase, of status and of CleanStalePIDFile.
Remove(c) ==
    /\ cmd[c].pc = "remove"
    /\ RemovePIDFile
    /\ cmd' = Continue(c)
    /\ UNCHANGED <<lock, proc, updateVars, mixed, faults>>

-----------------------------------------------------------------------------
(* RunStatus and RunAgentDetail.                                             *)

StatusReads(c) ==
    /\ cmd[c].pc = "stat"
    /\ LET p == ReadPIDFile IN
       cmd' = IF p = NoPid \/ IsProcessRunning(p) THEN Returns(c, "done")
              ELSE [cmd EXCEPT ![c].pc = IF cmd[c].script = "status" THEN "remove" ELSE "clean"]
    /\ UNCHANGED <<fileVars, proc, updateVars, pastVars>>

\* CleanStalePIDFile reads the file again, and removes one it cannot parse.
CleanStalePIDFile(c) ==
    /\ cmd[c].pc = "clean"
    /\ cmd' = IF path # NoInode /\ (content = NoPid \/ ~IsProcessRunning(content))
              THEN [cmd EXCEPT ![c].pc = "remove"] ELSE Returns(c, "done")
    /\ UNCHANGED <<fileVars, proc, updateVars, pastVars>>

-----------------------------------------------------------------------------
(* handleUpdate, Checker.Check and the release it asks for.                  *)

\* Mutant: the state is believed whatever version wrote it.
ShowsBannerStale(v) == state.available

\* PrintBannerIfAvailable of a process of version v, and State.IsStale.
ShowsBanner(v) == state.available /\ state.by = v

\* Check of a process of version v: what it saves.
Checked(v) == [by |-> v, available |-> v < Release]

\* Mutant: the running agent is left alone.
UpdateChecksOnly(c) ==
    /\ cmd[c].pc = "fetch"
    /\ state' = Checked(cmd[c].ver)
    /\ cmd' = IF cmd[c].ver < Release THEN [cmd EXCEPT ![c].pc = "replace"] ELSE Returns(c, "done")
    /\ UNCHANGED <<fileVars, proc, exe, pastVars>>

UpdateChecks(c) ==
    /\ cmd[c].pc = "fetch"
    /\ state' = Checked(cmd[c].ver)
    /\ cmd' = IF cmd[c].ver < Release THEN [cmd EXCEPT ![c].pc = "stop"] ELSE Returns(c, "done")
    /\ UNCHANGED <<fileVars, proc, exe, pastVars>>

\* Check, FetchRelease after the stop, or Update fails; nothing is installed.
UpdateFails(c) ==
    /\ cmd[c].pc \in {"fetch", "replace"}
    /\ cmd' = Returns(c, "failed")
    /\ UNCHANGED <<fileVars, proc, updateVars, pastVars>>

\* selfupdate.Apply (or brew) puts the release in place.
UpdateReplaces(c) ==
    /\ cmd[c].pc = "replace"
    /\ exe' = Release
    /\ cmd' = [cmd EXCEPT ![c].pc = "save"]
    /\ UNCHANGED <<fileVars, proc, state, pastVars>>

UpdateSaves(c) ==
    /\ cmd[c].pc = "save"
    /\ state' = [by |-> Release, available |-> FALSE]
    /\ cmd' = Returns(c, "done")
    /\ UNCHANGED <<fileVars, proc, exe, pastVars>>

\* A command is killed; the kernel closes its descriptors.
Killed(c) ==
    /\ Active(c)
    /\ faults < MaxFaults
    /\ cmd' = Returns(c, "failed")
    /\ lock' = Closed(c)
    /\ raced' = (raced \/ cmd[c].pc \in {"truncate", "write"})
    /\ faults' = faults + 1
    /\ UNCHANGED <<path, content, proc, updateVars, mixed>>

-----------------------------------------------------------------------------
(* The agent: runAgent and Run.                                              *)

\* WritePIDFile: a new inode is renamed over the path.
AgentWritesPID(p) ==
    /\ proc[p].pc = "exec"
    /\ path' = FreeInode
    /\ content' = p
    /\ proc' = [proc EXCEPT ![p].pc = "up"]
    /\ UNCHANGED <<lock, cmd, updateVars, pastVars>>

\* runUpdateChecker.
AgentChecks(p) ==
    /\ proc[p].pc = "up"
    /\ state' = Checked(proc[p].ver)
    /\ UNCHANGED <<fileVars, cmd, proc, exe, pastVars>>

\* Run returns: it was told to stop, or the server rejected its HMAC for good.
AgentReturns(p) ==
    /\ proc[p].pc = "up"
    /\ \/ proc[p].told /\ faults' = faults
       \/ ~proc[p].told /\ faults < MaxFaults /\ faults' = faults + 1
    /\ RemovePIDFile
    /\ proc' = [proc EXCEPT ![p].pc = "returned", ![p].fatal = ~proc[p].told]
    /\ UNCHANGED <<lock, cmd, updateVars, mixed>>

\* A FatalInitError returns before Run's own cleanup.
AgentInitFails(p) ==
    /\ proc[p].pc = "up"
    /\ faults < MaxFaults
    /\ faults' = faults + 1
    /\ proc' = [proc EXCEPT ![p].pc = "returned", ![p].fatal = TRUE]
    /\ UNCHANGED <<fileVars, cmd, updateVars, raced, mixed>>

\* main removes the PID file, once more, after a fatal error.
AgentExits(p) ==
    /\ proc[p].pc = "returned"
    /\ IF proc[p].fatal THEN RemovePIDFile ELSE UNCHANGED <<path, content, raced>>
    /\ proc' = [proc EXCEPT ![p] = Dead]
    /\ UNCHANGED <<lock, cmd, updateVars, mixed, faults>>

\* A panic, the OOM killer, SIGKILL.
AgentCrashes(p) ==
    /\ Alive(p)
    /\ faults < MaxFaults
    /\ faults' = faults + 1
    /\ proc' = [proc EXCEPT ![p] = Dead]
    /\ UNCHANGED <<fileVars, cmd, updateVars, raced, mixed>>

-----------------------------------------------------------------------------
CommandStep(c) ==
    \/ Precheck(c)
    \/ Open(c)
    \/ Flock(c)
    \/ Recheck(c)
    \/ Spawn(c)
    \/ Truncate(c)
    \/ WriteChild(c)
    \/ StopReads(c)
    \/ StopTerminates(c)
    \/ TerminateFails(c)
    \/ StopSeesExit(c)
    \/ StopKills(c)
    \/ Remove(c)
    \/ StatusReads(c)
    \/ CleanStalePIDFile(c)
    \/ UpdateChecks(c)
    \/ UpdateFails(c)
    \/ UpdateReplaces(c)
    \/ UpdateSaves(c)

AgentStep(p) == AgentWritesPID(p) \/ (proc[p].told /\ AgentReturns(p)) \/ AgentExits(p)

Next ==
    \/ \E c \in Commands : Begin(c) \/ CommandStep(c) \/ WokenTooEarly(c)
                          \/ SpawnFails(c) \/ Killed(c)
    \/ \E p \in Pids : \/ AgentWritesPID(p) \/ AgentReturns(p) \/ AgentExits(p)
                       \/ AgentChecks(p) \/ AgentInitFails(p) \/ AgentCrashes(p)

Spec == Init /\ [][Next]_vars

\* A command runs until it returns, an agent starts up and, once told, shuts down.
FairSpec ==
    /\ Spec
    /\ \A c \in Commands : WF_vars(CommandStep(c))
    /\ \A p \in Pids : WF_vars(AgentStep(p))

-----------------------------------------------------------------------------
CmdStates ==
    [script : Scripts \cup {"none"},
     pc : {"idle", "precheck", "open", "lock", "check", "fork", "truncate", "write", "stop",
           "term", "wait", "remove", "stat", "clean", "fetch", "replace", "save", "done",
           "failed"},
     ver : {Old, New}, pid : Pids \cup {NoPid}, fd : Inodes \cup {NoInode},
     out : Inodes \cup {NoInode}]

ProcStates ==
    [pc : {"none", "exec", "up", "returned", "dead", "stranger"}, told : BOOLEAN,
     fatal : BOOLEAN, ver : {Old, New}]

TypeOK ==
    /\ path \in Inodes \cup {NoInode}
    /\ content \in Pids \cup {NoPid}
    /\ lock \in [Inodes -> Commands \cup {Nobody}]
    /\ cmd \in [Commands -> CmdStates]
    /\ proc \in [Pids -> ProcStates]
    /\ exe \in {Old, New}
    /\ state \in [by : {Old, New}, available : BOOLEAN]
    /\ raced \in BOOLEAN
    /\ mixed \in BOOLEAN
    /\ faults \in 0..MaxFaults

RunningAgents == {p \in Pids : Running(p)}

\* EnsureRunning's comment: its flock prevents duplicate agent spawns from racing
\* pmux commands.
AtMostOneAgent == Cardinality(RunningAgents) <= 1

\* What the flock does give: two agents run only if the PID file was removed while it
\* named an agent that starts or runs or while spawn was writing it, if it was never
\* written because the command was killed, or if two commands were past the check at
\* once because they had locked different inodes of the path.
DuplicateNeedsRace == AtMostOneAgent \/ raced

\* A version prints the banner only when there is a newer release: a state file an
\* older version wrote, before or after the update, is not believed.
BannerTruthful == ShowsBanner(exe) => exe < Release

\* An update leaves no old agent behind, unless a command started one meanwhile.
UpdateTakesEffect ==
    (/\ \E c \in Commands : cmd[c].script = "update" /\ cmd[c].pc \in {"save", "done"}
     /\ exe = New
     /\ ~mixed /\ ~raced)
        => \A p \in RunningAgents : proc[p].ver = New

\* A command that ensures the agent returns, the flock notwithstanding, and then an
\* agent runs sooner or later, whatever commands race; unless one of them was there to
\* stop it, or a fault came.  A SIGUSR1 that ends an agent before it handles signals, an
\* ordinary race of two commands, is counted among the faults (WokenTooEarly).
EnsureLeavesAgent ==
    \A c \in Commands :
        (Active(c) /\ cmd[c].script \in {"ensure", "start", "restart", "pair"})
            ~> \/ cmd[c].pc = "failed"
               \/ /\ cmd[c].pc = "done"
                  /\ \/ \E p \in Pids : proc[p].pc = "up" /\ ~proc[p].told
                     \/ \E b \in Commands : cmd[b].script \in {"stop", "update"}
                     \/ faults > 0

=============================================================================
