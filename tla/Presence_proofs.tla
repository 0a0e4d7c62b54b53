--------------------------- MODULE Presence_proofs ---------------------------
(***************************************************************************)
(* The host's presence across a sleep: what the client promises on its own, *)
(* it promises under a watcher that calls it, and a machine that waited for *)
(* the watcher falls asleep only when the host is offline.                  *)
(***************************************************************************)
EXTENDS Presence, SignalingClient_proofs

\* Close comes after the end of Run, which is final.
ClosedIsStopped == closed => pc = "stopped"

\* Only the end of the agent's context stops the run loop.
StopIsCancelled == stopReq => cancelled

HostFlags == hold \in BOOLEAN /\ warned \in BOOLEAN /\ stopReq \in BOOLEAN

\* Until the machine may sleep, the watcher it found ready has the message before it, is
\* about to tell the client, or has told it; it lets the machine go in no other state.
\* A message it had to drop leaves the machine waiting.
TellsBeforeRelease ==
    (host = "preparing" /\ warned /\ ~cancelled) =>
        \/ hold /\ watcher \in {"idle", "registered"} /\ power \in {<<>>, <<"will">>}
        \/ hold /\ watcher = "sleep" /\ power = <<>>
        \/ hold /\ watcher = "allow" /\ power = <<>> /\ (suspended \/ closed)
        \/ ~hold /\ watcher = "idle" /\ power = <<>> /\ (suspended \/ closed)

\* The inductive invariant of the composition, over that of the client.
PInv == HostFlags /\ ClosedIsStopped /\ StopIsCancelled /\ TellsBeforeRelease

-----------------------------------------------------------------------------
(* Every step of the composition is a step of the client, or none           *)

\* What the client does on its own.
LEMMA ClientStepIsNext == ASSUME ClientStep PROVE Next
  BY DEF ClientStep, Next, Environment

\* What the watcher does to the client: it calls Suspend or Resume, or nothing.
LEMMA WatcherStepIsNext == ASSUME WatcherStep PROVE [Next]_vars
<1>1. CASE OnSleep
  BY <1>1 DEF OnSleep, Next, Environment
<1>2. CASE OnResume
  BY <1>2 DEF OnResume, Next, Environment
<1>3. CASE StartKeepAwake \/ StartLogind \/ StartIOKit \/ StopWatcher \/ RunLoopRun
           \/ RunLoopExits \/ Receive \/ AllowSleep \/ Rearm
  BY <1>3 DEF StartKeepAwake, StartLogind, StartIOKit, StopWatcher, RunLoopRun,
              RunLoopExits, Receive, AllowSleep, Rearm
<1> QED
  BY <1>1, <1>2, <1>3 DEF WatcherStep

\* The machine does nothing to the client.
LEMMA OthersLeaveClient ==
    ASSUME HostStep \/ ReleaseBlock \/ StopRunLoop
    PROVE  UNCHANGED vars
  BY DEF HostStep, ProposeSleep, AnnounceSleep, FallAsleep, FallAsleepAnyway, WakeHost,
         ReleaseBlock, StopRunLoop

\* A step of the composition, seen from the client.
LEMMA StepIsClientStep == ASSUME [PNext]_allVars PROVE [Next]_vars
<1>1. CASE UNCHANGED allVars
  BY <1>1 DEF allVars
<1>2. CASE ClientStep
  BY <1>2, ClientStepIsNext
<1>3. CASE WatcherStep
  BY <1>3, WatcherStepIsNext
<1>4. CASE HostStep \/ ReleaseBlock \/ StopRunLoop
  BY <1>4, OthersLeaveClient
<1> QED
  BY <1>1, <1>2, <1>3, <1>4 DEF PNext, AgentStep

\* The composition implements the client's specification: a watcher and a sleeping
\* machine make the client do nothing it does not do alone.
THEOREM ImplementsClient == PSpec => Spec
<1>1. PInit => Init
  BY DEF PInit
<1>2. [PNext]_allVars => [Next]_vars
  BY StepIsClientStep
<1> QED
  BY <1>1, <1>2, PTL DEF PSpec, Spec

\* So a suspended host is offline also when the machine sleeps and wakes.
THEOREM OfflineAcrossSleep == PSpec => []SuspendedIsOffline
  BY ImplementsClient, OfflineWhileSuspended, PTL

\* And no wake-up of the watcher is lost on a client about to wait for it.
THEOREM WakeupReachesClient == PSpec => []NoLostWakeup
  BY ImplementsClient, WakeupNotLost, PTL

\* A token the server rejected before a sleep is not presented after it.
THEOREM RejectedAcrossSleep == PSpec => []RejectedNotReused
  BY ImplementsClient, RejectedTokenDropped, PTL

\* The first failure after the machine wakes never leads to dormancy, however many
\* failures it went to sleep with.
THEOREM WindowFreshAfterSleep == PSpec => FreshRetryWindow
  BY ImplementsClient, RetryWindowIsFresh, PTL

-----------------------------------------------------------------------------
(* SleepsOffline                                                            *)

\* Run that has stopped stays stopped.
LEMMA StoppedIsFinal == ASSUME Next, pc = "stopped" PROVE pc' = "stopped"
<1>1. CASE RunLoop
  BY <1>1 DEF RunLoop, Top, DormantWake, CheckSuspended, AsleepWake, BackoffWake,
              BackoffElapses, AttemptFailed
<1>2. CASE Attempt
  BY <1>2 DEF Attempt, CachedToken, ExchangeToken, AttemptFails, HMACRejected, Dial,
              AuthAccepted, AuthRejected, Publish, ReadFails, Unpublish
<1>3. CASE Environment
  BY <1>3 DEF Environment, FailuresAge, StaysUp, NetworkDrops, TokenAges, RefreshBegins,
              RefreshEnds, SignalActivity, Suspend, Resume, ResumeClears, ResumeSignals,
              SendFails, Cancel, ReturnCancelled, Close
<1> QED
  BY <1>1, <1>2, <1>3 DEF Next

\* closed is set by Close alone, and never cleared.
LEMMA OnlyCloseCloses ==
    ASSUME Next
    PROVE  closed' = closed \/ (closed' = TRUE /\ pc = "stopped")
<1>1. CASE RunLoop
  BY <1>1 DEF RunLoop, Top, DormantWake, CheckSuspended, AsleepWake, BackoffWake,
              BackoffElapses, AttemptFailed, sleepVars
<1>2. CASE Attempt
  BY <1>2 DEF Attempt, CachedToken, ExchangeToken, AttemptFails, HMACRejected, Dial,
              AuthAccepted, AuthRejected, Publish, ReadFails, Unpublish, sleepVars
<1>3. CASE Environment
  BY <1>3 DEF Environment, FailuresAge, StaysUp, NetworkDrops, TokenAges, RefreshBegins,
              RefreshEnds, SignalActivity, Suspend, Resume, ResumeClears, ResumeSignals,
              SendFails, Cancel, ReturnCancelled, Close, sleepVars
<1> QED
  BY <1>1, <1>2, <1>3 DEF Next

\* A cancelled context stays cancelled.
LEMMA CancelledForGood == ASSUME Next, cancelled PROVE cancelled'
<1>1. CASE RunLoop
  BY <1>1 DEF RunLoop, Top, DormantWake, CheckSuspended, AsleepWake, BackoffWake,
              BackoffElapses, AttemptFailed
<1>2. CASE Attempt
  BY <1>2 DEF Attempt, CachedToken, ExchangeToken, AttemptFails, HMACRejected, Dial,
              AuthAccepted, AuthRejected, Publish, ReadFails, Unpublish
<1>3. CASE Environment
  BY <1>3 DEF Environment, FailuresAge, StaysUp, NetworkDrops, TokenAges, RefreshBegins,
              RefreshEnds, SignalActivity, Suspend, Resume, ResumeClears, ResumeSignals,
              SendFails, Cancel, ReturnCancelled, Close
<1> QED
  BY <1>1, <1>2, <1>3 DEF Next

\* The client on its own never takes a suspend back.
LEMMA ClientKeepsSuspend == ASSUME ClientStep PROVE suspended' = suspended
<1>1. CASE RunLoop
  BY <1>1 DEF RunLoop, Top, DormantWake, CheckSuspended, AsleepWake, BackoffWake,
              BackoffElapses, AttemptFailed, sleepVars
<1>2. CASE Attempt
  BY <1>2 DEF Attempt, CachedToken, ExchangeToken, AttemptFails, HMACRejected, Dial,
              AuthAccepted, AuthRejected, Publish, ReadFails, Unpublish, sleepVars
<1>3. CASE FailuresAge \/ StaysUp \/ NetworkDrops \/ TokenAges \/ RefreshBegins
           \/ RefreshEnds \/ SignalActivity \/ SendFails \/ ReturnCancelled \/ Close \/ Cancel
  BY <1>3 DEF FailuresAge, StaysUp, NetworkDrops, TokenAges, RefreshBegins, RefreshEnds,
              SignalActivity, SendFails, ReturnCancelled, Close, Cancel, sleepVars
<1> QED
  BY <1>1, <1>2, <1>3 DEF ClientStep

\* ClosedIsStopped is about the client alone.
LEMMA ClosedIsStoppedKept == ASSUME PInv, [Next]_vars PROVE ClosedIsStopped'
<1>1. CASE UNCHANGED vars
  BY <1>1 DEF PInv, ClosedIsStopped, vars
<1>2. CASE Next
  BY <1>2, StoppedIsFinal, OnlyCloseCloses DEF PInv, ClosedIsStopped
<1> QED
  BY <1>1, <1>2

\* The steps of the machine keep the invariant.
LEMMA HostStepKeeps == ASSUME PInv, HostStep PROVE PInv'
<1>1. UNCHANGED <<closed, pc, cancelled, suspended, watcher, stopReq>>
  BY DEF HostStep, ProposeSleep, AnnounceSleep, FallAsleep, FallAsleepAnyway, WakeHost, vars
<1>2. ClosedIsStopped' /\ StopIsCancelled'
  BY <1>1 DEF PInv, ClosedIsStopped, StopIsCancelled
<1>3. HostFlags'
  BY <1>1 DEF PInv, HostFlags, HostStep, ProposeSleep, AnnounceSleep, FallAsleep,
              FallAsleepAnyway, WakeHost, Listening
<1>4. TellsBeforeRelease'
  <2>1. CASE ProposeSleep \/ FallAsleep \/ FallAsleepAnyway \/ WakeHost
    BY <2>1 DEF TellsBeforeRelease, ProposeSleep, FallAsleep, FallAsleepAnyway, WakeHost
  <2>2. CASE AnnounceSleep
    <3>1. warned' => hold' /\ power = <<>> /\ watcher \in {"idle", "registered"}
      BY <2>2, Zenon DEF AnnounceSleep
    <3>2. warned' => power' = Append(power, "will")
      BY <2>2, <3>1 DEF AnnounceSleep, Listening
    <3>3. Append(<<>>, "will") = <<"will">>
      OBVIOUS
    <3> QED
      BY <1>1, <3>1, <3>2, <3>3 DEF TellsBeforeRelease
  <2> QED
    BY <2>1, <2>2 DEF HostStep
<1> QED
  BY <1>2, <1>3, <1>4 DEF PInv

\* The steps of the client keep it: they touch nothing of the host.
LEMMA ClientStepKeeps == ASSUME PInv, ClientStep PROVE PInv'
<1>1. UNCHANGED <<host, power, hold, watcher, stopReq, warned>>
  BY DEF ClientStep, hostVars
<1>2. Next
  BY ClientStepIsNext
<1>3. ClosedIsStopped' /\ HostFlags'
  BY <1>1, <1>2, ClosedIsStoppedKept DEF PInv, HostFlags
<1>4. StopIsCancelled'
  BY <1>1, <1>2, CancelledForGood DEF PInv, StopIsCancelled
<1>5. suspended \/ closed => suspended' \/ closed'
  BY <1>2, OnlyCloseCloses, ClientKeepsSuspend
<1>6. TellsBeforeRelease'
  BY <1>1, <1>2, <1>5, CancelledForGood DEF PInv, TellsBeforeRelease
<1> QED
  BY <1>3, <1>4, <1>6 DEF PInv

\* The steps of the watcher keep it.
LEMMA WatcherStepKeeps == ASSUME PInv, WatcherStep PROVE PInv'
<1>1. ClosedIsStopped'
  BY ClosedIsStoppedKept, WatcherStepIsNext
<1>2. UNCHANGED <<cancelled, host, stopReq, warned>>
  BY DEF WatcherStep, StartKeepAwake, StartLogind, StartIOKit, StopWatcher, RunLoopRun,
         RunLoopExits, Receive, OnSleep, AllowSleep, OnResume, Rearm, Suspend, Resume,
         ResumeClears, ResumeSignals, vars
<1>3. StopIsCancelled'
  BY <1>2 DEF PInv, StopIsCancelled
<1>4. hold' \in BOOLEAN
  BY DEF PInv, HostFlags, WatcherStep, StartKeepAwake, StartLogind, StartIOKit,
         StopWatcher, RunLoopRun, RunLoopExits, Receive, OnSleep, AllowSleep, OnResume, Rearm
<1>5. TellsBeforeRelease'
  <2> SUFFICES ASSUME host = "preparing", warned, ~cancelled, TellsBeforeRelease
               PROVE  TellsBeforeRelease'
    BY <1>2 DEF PInv, TellsBeforeRelease
  <2>1. CASE StartKeepAwake \/ StartLogind \/ StartIOKit \/ StopWatcher \/ RunLoopExits
             \/ OnResume \/ Rearm
    BY <2>1 DEF PInv, StopIsCancelled, TellsBeforeRelease, StartKeepAwake, StartLogind,
                StartIOKit, StopWatcher, RunLoopExits, OnResume, Rearm
  <2>2. CASE RunLoopRun
    BY <2>2 DEF TellsBeforeRelease, RunLoopRun, vars
  <2>3. CASE Receive
    <3>1. watcher = "idle" /\ power = <<"will">> /\ hold
      BY <2>3 DEF Receive, TellsBeforeRelease
    <3>2. power' = <<>> /\ hold' = hold /\ watcher' \in {"sleep", "idle"}
      BY <2>3, <3>1 DEF Receive, Route
    <3> QED
      BY <3>1, <3>2 DEF TellsBeforeRelease
  <2>4. CASE OnSleep
    <3>1. closed' \/ suspended'
      BY <2>4 DEF OnSleep, Suspend, vars
    <3> QED
      BY <2>4, <3>1 DEF TellsBeforeRelease, OnSleep
  <2>5. CASE AllowSleep
    BY <2>5 DEF TellsBeforeRelease, AllowSleep, vars
  <2> QED
    BY <2>1, <2>2, <2>3, <2>4, <2>5 DEF WatcherStep
<1> QED
  BY <1>1, <1>2, <1>3, <1>4, <1>5 DEF PInv, HostFlags

\* So do the end of the inhibitor and the stop of the run loop.
LEMMA ReleaseKeeps == ASSUME PInv, ReleaseBlock \/ StopRunLoop PROVE PInv'
<1>1. UNCHANGED <<closed, pc, cancelled, suspended, host, power, hold, watcher, warned>>
  BY DEF ReleaseBlock, StopRunLoop, vars
<1>2. stopReq' = stopReq \/ cancelled
  BY DEF ReleaseBlock, StopRunLoop
<1>3. stopReq' \in BOOLEAN
  BY Zenon DEF ReleaseBlock, StopRunLoop, PInv, HostFlags
<1>4. StopIsCancelled' /\ HostFlags'
  BY <1>1, <1>2, <1>3 DEF PInv, StopIsCancelled, HostFlags
<1> QED
  BY <1>1, <1>4 DEF PInv, ClosedIsStopped, TellsBeforeRelease

\* The invariant of the composition holds in every reachable state.
THEOREM PInvariance == PSpec => []PInv
<1>1. PInit => PInv
  BY DEF PInit, Init, PInv, HostFlags, ClosedIsStopped, StopIsCancelled, TellsBeforeRelease
<1>2. ASSUME PInv, [PNext]_allVars PROVE PInv'
  <2>1. CASE UNCHANGED allVars
    BY <1>2, <2>1 DEF PInv, HostFlags, ClosedIsStopped, StopIsCancelled, TellsBeforeRelease,
                      allVars, hostVars, vars
  <2> QED
    BY <1>2, <2>1, HostStepKeeps, ClientStepKeeps, WatcherStepKeeps, ReleaseKeeps
       DEF PNext, AgentStep
<1> QED
  BY <1>1, <1>2, PTL DEF PSpec

\* A machine that found the watcher waiting for its sleep does not sleep before the host
\* is offline, in any order of the client's own steps with the watcher's.
THEOREM SleepFindsHostOffline == PSpec => SleepsOffline
<1> DEFINE Offline == (suspended \/ closed) /\ ~(conn /\ sock \in {"open", "half"})
<1>1. ASSUME PInv, IInv, [PNext]_allVars
      PROVE  [host' = "asleep" /\ host # "asleep" /\ warned' /\ ~cancelled => Offline]_allVars
  <2> SUFFICES ASSUME PNext, host' = "asleep", host # "asleep", warned', ~cancelled
               PROVE  Offline
    BY <1>1
  <2>1. FallAsleep
    BY DEF PNext, HostStep, ProposeSleep, AnnounceSleep, FallAsleepAnyway, WakeHost, AgentStep,
           ClientStep, WatcherStep, StartKeepAwake, StartLogind, StartIOKit, StopWatcher,
           RunLoopRun, RunLoopExits, Receive, OnSleep, AllowSleep, OnResume, Rearm,
           ReleaseBlock, StopRunLoop, hostVars
  <2>2. suspended \/ closed
    BY <1>1, <2>1 DEF PInv, TellsBeforeRelease, FallAsleep
  <2>3. closed => ~conn
    BY <1>1 DEF PInv, ClosedIsStopped, IInv, Promises, ConnIsServed
  <2>4. suspended => ~(conn /\ sock \in {"open", "half"})
    BY <1>1 DEF IInv, Promises, SuspendedIsOffline
  <2> QED
    BY <2>2, <2>3, <2>4
<1>2. PSpec => []IInv
  BY ImplementsClient, Invariance, PTL
<1> QED
  BY <1>1, <1>2, PInvariance, PTL DEF PSpec, SleepsOffline

=============================================================================
