------------------------------ MODULE Presence ------------------------------
(***************************************************************************)
(* The host's presence across a system sleep: the sleep watcher            *)
(* (internal/agent/sleepwatch_linux.go over logind, sleepwatch_darwin.go   *)
(* and sleepwatch_iokit.go over IOKit), keep_awake, and the signaling      *)
(* client whose Suspend and Resume the watcher calls, all against an       *)
(* operating system that announces a sleep, waits a while for those who    *)
(* asked it to, and freezes every thread of the agent until it wakes.      *)
(***************************************************************************)
EXTENDS SignalingClient, Sequences

CONSTANTS
    Worlds           \* [system, keepAwake, sleeps, faults]; a behaviour has one of them

ASSUME WorldAssumption ==
    Worlds \subseteq [system : {"linux", "darwin"}, keepAwake : BOOLEAN, sleeps : Nat, faults : Nat]

VARIABLES
    world,       \* the platform, the keep_awake setting, what is left of the bounds
    host,        \* the machine
    power,       \* power messages the watcher has not received yet
    hold,        \* the machine waits for the watcher: the delay lock, or an unanswered message
    block,       \* keep_awake holds its inhibitor
    watcher,     \* where the watcher's goroutine is
    stopReq,     \* CFRunLoopStop reached a running loop
    stopper,     \* the goroutine that stops the darwin run loop
    warned,      \* history: the sleep found the watcher waiting for it
    missed       \* history: the watcher dropped a wake-up

hostVars == <<world, host, power, hold, block, watcher, stopReq, stopper, warned, missed>>

allVars == <<vars, hostVars>>

Linux == world.system = "linux"

\* The operating system delivers power messages to the watcher.
Listening == watcher \notin {"start", "ready", "none", "stopped"}

Use(b) ==
    /\ world[b] > 0
    /\ world' = [world EXCEPT ![b] = @ - 1]

PInit ==
    /\ Init
    /\ world \in Worlds
    /\ host = "awake" /\ power = <<>> /\ hold = FALSE /\ block = FALSE
    /\ watcher = "start" /\ stopReq = FALSE /\ stopper = "wait"
    /\ warned = FALSE /\ missed = FALSE

-----------------------------------------------------------------------------
(* The machine                                                              *)

\* macOS proposes an idle sleep and waits for the answer; caffeinate prevents it.
ProposeSleep ==
    /\ host = "awake" /\ ~Linux /\ ~block /\ Listening
    /\ Use("sleeps")
    /\ host' = "proposed"
    /\ power' = Append(power, "can")
    /\ hold' = TRUE
    /\ UNCHANGED <<vars, block, watcher, stopReq, stopper, warned, missed>>

\* A sleep is committed and announced.  logind refuses while a block inhibitor is held.
AnnounceSleep ==
    /\ \/ host = "awake" /\ Use("sleeps")
       \/ host = "proposed" /\ ~hold /\ UNCHANGED world
    /\ Linux => ~block
    /\ host' = "preparing"
    /\ power' = IF Listening THEN Append(power, "will") ELSE power
    /\ hold' = IF Linux THEN hold ELSE Listening
    /\ warned' = (hold' /\ power = <<>> /\ watcher \in {"idle", "registered"})
    /\ UNCHANGED <<vars, block, watcher, stopReq, stopper, missed>>

\* Nobody is waited for any more, ...
FallAsleep ==
    /\ host = "preparing"
    /\ ~hold
    /\ host' = "asleep"
    /\ UNCHANGED <<vars, world, power, hold, block, watcher, stopReq, stopper, warned, missed>>

\* ... or not any longer.
FallAsleepAnyway ==
    /\ host = "preparing"
    /\ hold
    /\ Use("faults")
    /\ host' = "asleep"
    /\ warned' = FALSE
    /\ UNCHANGED <<vars, power, hold, block, watcher, stopReq, stopper, missed>>

WakeHost ==
    /\ host = "asleep"
    /\ host' = "awake"
    /\ power' = IF Listening THEN Append(power, "on") ELSE power
    /\ hold' = (Linux /\ hold)
    /\ warned' = FALSE
    /\ UNCHANGED <<vars, world, block, watcher, stopReq, stopper, missed>>

-----------------------------------------------------------------------------
(* Start and end of keep_awake and of the watcher                           *)

\* startKeepAwake: the inhibitor, or caffeinate, may not be had.
StartKeepAwake ==
    /\ watcher = "start"
    /\ watcher' = "ready"
    /\ \/ block' = (world.keepAwake /\ ~cancelled) /\ UNCHANGED world
       \/ world.keepAwake /\ block' = FALSE /\ Use("faults")
    /\ UNCHANGED <<vars, host, power, hold, stopReq, stopper, warned, missed>>

\* startSleepWatcher on Linux: skipped when keep_awake is set, whatever became of it; there
\* may be no bus, or no delay lock.
StartLogind ==
    /\ Linux /\ watcher = "ready"
    /\ \/ /\ world.keepAwake
          /\ watcher' = "none"
          /\ UNCHANGED <<world, hold>>
       \/ /\ ~world.keepAwake
          /\ watcher' = "idle"
          /\ hold' = ~cancelled
          /\ UNCHANGED world
       \/ /\ ~world.keepAwake
          /\ Use("faults")
          /\ watcher' \in {"none", "idle"}
          /\ hold' = FALSE
    /\ UNCHANGED <<vars, host, power, block, stopReq, stopper, warned, missed>>

\* startSleepWatcher on macOS: the frameworks or the registration may fail.
StartIOKit ==
    /\ ~Linux /\ watcher = "ready"
    /\ \/ watcher' = "registered" /\ UNCHANGED world
       \/ watcher' = "none" /\ Use("faults")
    /\ UNCHANGED <<vars, host, power, hold, block, stopReq, stopper, warned, missed>>

\* The end of the agent's context releases the inhibitor; caffeinate may be killed before.
ReleaseBlock ==
    /\ block
    /\ block' = FALSE
    /\ (cancelled /\ UNCHANGED world) \/ (~Linux /\ Use("faults"))
    /\ UNCHANGED <<vars, host, power, hold, watcher, stopReq, stopper, warned, missed>>

\* On Linux it releases the delay lock as well.
StopWatcher ==
    /\ Linux /\ cancelled
    /\ watcher = "idle"
    /\ hold' = FALSE
    /\ watcher' = "stopped"
    /\ UNCHANGED <<vars, world, host, power, block, stopReq, stopper, warned, missed>>

\* CFRunLoopRun starts only after the loop was made known: a stop in between is lost.
RunLoopRun ==
    /\ watcher = "registered"
    /\ watcher' = "idle"
    /\ UNCHANGED <<vars, world, host, power, hold, block, stopReq, stopper, warned, missed>>

\* Mutant: the loop is stopped once.
StopRunLoopOnce ==
    /\ ~Linux /\ cancelled
    /\ watcher \notin {"start", "ready", "none"}
    /\ stopper = "wait"
    /\ stopper' = "done"
    /\ stopReq' = (watcher # "registered")
    /\ UNCHANGED <<vars, world, host, power, hold, block, watcher, warned, missed>>

\* CFRunLoopStop, again and again until the loop has exited.
StopRunLoop ==
    /\ ~Linux /\ cancelled
    /\ watcher \notin {"start", "ready", "none"}
    /\ stopper = "wait"
    /\ IF watcher = "stopped"
       THEN stopper' = "done" /\ UNCHANGED stopReq
       ELSE stopReq' = (stopReq \/ watcher # "registered") /\ UNCHANGED stopper
    /\ UNCHANGED <<vars, world, host, power, hold, block, watcher, warned, missed>>

\* The loop returns between two callbacks; a kernel that waited no longer does.
RunLoopExits ==
    /\ ~Linux /\ stopReq
    /\ watcher = "idle"
    /\ watcher' = "stopped"
    /\ hold' = FALSE
    /\ UNCHANGED <<vars, world, host, power, block, stopReq, stopper, warned, missed>>

-----------------------------------------------------------------------------
(* Power messages                                                           *)

\* Where a message takes the watcher.
Route(m) ==
    CASE m = "can" -> "allow" [] m = "will" -> "sleep" [] m = "on" -> "resume"

\* On Linux the sender is looked up first; a message is dropped when that fails.
Receive ==
    /\ watcher = "idle"
    /\ power # <<>>
    /\ power' = Tail(power)
    /\ \/ /\ watcher' = Route(Head(power))
          /\ UNCHANGED <<world, missed>>
       \/ /\ Linux
          /\ (cancelled /\ UNCHANGED world) \/ Use("faults")
          /\ missed' = (missed \/ Head(power) = "on")
          /\ UNCHANGED watcher
    /\ UNCHANGED <<vars, host, hold, block, stopReq, stopper, warned>>

\* Mutant: the machine is let go before the server is told.
OnSleepReleasesFirst ==
    \/ /\ watcher = "sleep"
       /\ hold' = FALSE
       /\ watcher' = "late"
       /\ UNCHANGED <<vars, world, host, power, block, stopReq, stopper, warned, missed>>
    \/ /\ watcher = "late"
       /\ watcher' = "idle"
       /\ IF closed THEN UNCHANGED vars ELSE Suspend
       /\ UNCHANGED <<world, host, power, hold, block, stopReq, stopper, warned, missed>>

\* onSleep, then ...
OnSleep ==
    /\ watcher = "sleep"
    /\ watcher' = "allow"
    /\ IF closed THEN UNCHANGED vars ELSE Suspend
    /\ UNCHANGED <<world, host, power, hold, block, stopReq, stopper, warned, missed>>

\* ... the release of the lock, or IOAllowPowerChange.
AllowSleep ==
    /\ watcher = "allow"
    /\ hold' = FALSE
    /\ watcher' = "idle"
    /\ UNCHANGED <<vars, world, host, power, block, stopReq, stopper, warned, missed>>

\* onResume, the two steps of Resume.
OnResume ==
    /\ watcher = "resume"
    /\ Resume
    /\ watcher' = IF resuming' THEN "resume" ELSE IF Linux THEN "rearm" ELSE "idle"
    /\ UNCHANGED <<world, host, power, hold, block, stopReq, stopper, warned, missed>>

\* On Linux a lock still held is released before the next one is taken, which may fail.
Rearm ==
    /\ \/ watcher = "rearm" /\ hold' = FALSE /\ watcher' = "retake" /\ UNCHANGED world
       \/ /\ watcher = "retake" /\ watcher' = "idle"
          /\ \/ hold' = ~cancelled /\ UNCHANGED world
             \/ hold' = FALSE /\ Use("faults")
    /\ UNCHANGED <<vars, host, power, block, stopReq, stopper, warned, missed>>

WatcherStep ==
    \/ StartKeepAwake \/ StartLogind \/ StartIOKit \/ StopWatcher \/ RunLoopRun \/ RunLoopExits
    \/ Receive \/ OnSleep \/ AllowSleep \/ OnResume \/ Rearm

-----------------------------------------------------------------------------
\* Run calls the client's Run when startSleepWatcher has returned, on macOS before its
\* goroutine has registered.
Started == watcher # "start" /\ (Linux => watcher # "ready")

\* The signaling client, whose Suspend and Resume only the watcher calls.
ClientStep ==
    /\ \/ /\ Started
          /\ \/ RunLoop \/ Attempt
             \/ FailuresAge \/ StaysUp \/ NetworkDrops \/ TokenAges \/ RefreshBegins
             \/ RefreshEnds \/ SignalActivity \/ SendFails \/ ReturnCancelled \/ Close
       \/ Cancel
    /\ UNCHANGED hostVars

AgentStep == ClientStep \/ WatcherStep \/ ReleaseBlock \/ StopRunLoop

HostStep == ProposeSleep \/ AnnounceSleep \/ FallAsleep \/ FallAsleepAnyway \/ WakeHost

\* A sleeping host runs nothing of the agent.
PNext == HostStep \/ (host # "asleep" /\ AgentStep)

PSpec == PInit /\ [][PNext]_allVars

\* On a host that is awake the client and the watcher are scheduled, and the stop of the
\* run loop is repeated.  A host that sleeps wakes.
Awake(A) == host # "asleep" /\ Started /\ A /\ UNCHANGED hostVars

PFairSpec ==
    /\ PSpec
    /\ WF_allVars(Awake(RunLoop))
    /\ WF_allVars(Awake(Attempt))
    /\ WF_allVars(Awake(ReturnCancelled))
    /\ WF_allVars(host # "asleep" /\ WatcherStep)
    /\ WF_allVars(host # "asleep" /\ StopRunLoop)
    /\ WF_allVars(WakeHost)

-----------------------------------------------------------------------------
(* Properties                                                               *)

\* A machine that waited for a watcher which was ready for it falls asleep only when the
\* client is suspended and its published connection is down: onSleep comes before the lock
\* is released or the message allowed.  A connection that is still authenticating is not
\* spoken of; the suspended flag keeps it from being published (SuspendedIsOffline).
SleepsOffline ==
    [][host' = "asleep" /\ host # "asleep" /\ warned' /\ ~cancelled
         => (suspended \/ closed) /\ ~(conn /\ sock \in {"open", "half"})]_allVars

\* A client that is suspended on an awake host, or whose connection the network has let
\* go half-open, tries to connect again, unless the next sleep comes, the agent stops, or
\* the client has failed long enough to give up; only a wake-up that logind's owner could
\* not be looked up for is lost.
WakesOnline ==
    (host = "awake" /\ (suspended \/ (pc = "serve" /\ sock = "half")))
        ~> \/ pc \in Connecting \ {"serve", "ending"} \/ (pc = "serve" /\ sock = "open")
           \/ (dormant /\ ~suspended)
           \/ host # "awake" \/ pc = "stopped" \/ cancelled \/ missed

\* Once the agent's context is cancelled, the client's Run returns from whatever it waits
\* for, and the watcher ends, also when the first CFRunLoopStop came too early to count.
CancelStops == cancelled ~> (pc = "stopped" /\ watcher \in {"none", "stopped"})
=============================================================================
