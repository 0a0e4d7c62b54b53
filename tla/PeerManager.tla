----------------------------- MODULE PeerManager -----------------------------
(***************************************************************************)
(* The life of peer connections in the agent's PeerManager                 *)
(* (internal/webrtc/peer.go): the device-keyed map of tracked peers, the   *)
(* connect_request handler of the signaling read loop, the background      *)
(* teardown goroutines and their two WaitGroups, the disconnect grace      *)
(* timer, the ICE-restart and answer watchdogs, pairing reload             *)
(* (CloseAllAndReopen), shutdown (CloseAll) and the idle sweep of          *)
(* internal/agent/cleanup.go.                                              *)
(*                                                                         *)
(* One hold of pm.mu is one step.  A goroutine is a unit of work[p][k]:    *)
(* the number of goroutines that work on peer p and are about to run       *)
(* stage k.  teardownWg and cleanupWg count the goroutines in the stages   *)
(* TeardownStages and CleanupStages.                                       *)
(*                                                                         *)
(* What a peer's handler state is (bridge, stream, resize) is reduced to   *)
(* session[d]: the peer whose request built the state kept for device d.   *)
(* The key-possession handshake is reduced to its outcome.                 *)
(***************************************************************************)
EXTENDS Naturals, Sequences, FiniteSets

CONSTANTS
    Devices,         \* mobile device ids
    Attempts,        \* connect attempt ids mobiles put in their messages
    NoAttempt,       \* the empty attempt id of older mobiles and servers
    Unpaired,        \* the "!unpaired" / "!invalid-load-error" sentinels
    MaxPeers,        \* PeerManager.MaxPeers
    MaxReplaced,     \* maxReplacedAttempts
    MaxConnects,     \* bound: peers the run creates
    Worlds           \* bounds on the environment; a behaviour has one of them

\* What a world bounds: losses of an established connection, SIGUSR2 reloads, answers
\* pion refuses, peer_unavailable notices and sweeps acted upon; and, zero for never:
\* attempt ids, open data channels, a shutdown, a teardown that outlasts
\* replacementTeardownTimeout.
Budgets == {"losses", "reloads", "answers", "notices", "sweeps",
            "attempts", "opens", "shutdowns", "hangs"}

ASSUME BoundAssumption ==
    /\ MaxPeers \in Nat \ {0}
    /\ MaxReplaced \in Nat \ {0}
    /\ MaxConnects \in Nat
    /\ Worlds \subseteq [Budgets -> Nat]

ASSUME NameAssumption ==
    /\ Unpaired \notin Devices
    /\ NoAttempt \notin Attempts

PeerIds == 1 .. MaxConnects

NoPeer == 0

\* Stages of the background goroutines of a peer.
\*   stop, check, notify, evict, close       scheduleCleanup
\*   rstop, rnotify                          the teardown of a replaced peer
\*   evict, close | evictU, closeU           goCleanup, tracked | untracked
\*   cstop, cnotify, cclose                  the per-peer goroutine of closeAll
\*   lclose                                  ClosePeer on the read loop itself
\*   closeU                                  closeViaManager while closed
Stages == {"stop", "check", "notify", "evict", "close", "rstop", "rnotify",
           "evictU", "closeU", "cstop", "cnotify", "cclose", "lclose"}

\* What teardownWg and cleanupWg count.
TeardownStages == {"stop", "check", "notify", "rstop", "rnotify"}
CleanupStages == TeardownStages \cup {"evict", "close"}

\* Stages whose next step is Peer.Close.
CloseStages == {"close", "closeU", "cclose", "lclose"}

\* Pion's connection states, and those handlePeerStateChange acts on.
ConnStates == {"new", "connecting", "connected", "disconnected", "failed", "closed"}
Callbacks == {"connected", "disconnected", "failed", "closed"}

\* closeAll runs on the SIGUSR2 goroutine and on the shutdown goroutine.
Callers == {"reload", "stopper"}

VARIABLES
    peers,             \* device -> tracked peer, or NoPeer
    closed,            \* PeerManager.closed
    shutDown,          \* PeerManager.shutDown
    allowedDeviceID,   \* the paired device, or Unpaired
    replacedAttempts,  \* attempt ids of replaced peers, oldest first
    born,              \* peers created so far
    peer,              \* the Peer structs and what pion reports of them
    pclosed,           \* Peer.Close: "no", "closing" (p.mu held), "done"
    work,              \* background goroutines, by peer and stage
    session,           \* device -> peer whose handler state is alive, or NoPeer
    loop,              \* the signaling read loop inside a handler of several steps
    reload,            \* the SIGUSR2 goroutine
    stopper,           \* the shutdown goroutine
    snap,              \* closeAll's snapshot of the map, per caller
    grace,             \* disconnectTimers: device -> is a timer registered
    timer,             \* the fired grace-timer callback of a device
    watchdog,          \* iceRestartTimers: device -> peer it watches, or NoPeer
    fired,             \* watchdogs whose callback has started
    sweeper,           \* device the idle sweep found untracked, or Unpaired
    left               \* what the environment may still do

vars == <<peers, closed, shutDown, allowedDeviceID, replacedAttempts, born, peer,
          pclosed, work, session, loop, reload, stopper, snap, grace, timer,
          watchdog, fired, sweeper, left>>

pmVars == <<closed, shutDown, allowedDeviceID>>
timerVars == <<grace, timer, watchdog, fired>>
callerVars == <<reload, stopper, snap>>

-----------------------------------------------------------------------------
(* Helpers                                                                 *)

\* A peer that handleConnectRequest has not created yet.
NoStruct == [dev |-> Unpaired, attempt |-> NoAttempt, conn |-> "new", cbs |-> {},
             offer |-> FALSE, answerTimer |-> FALSE,
             auth |-> "none", dispatch |-> "idle", noticed |-> FALSE]

Tracked(p) == \E d \in Devices : peers[d] = p

Current(p) == peer[p].dev \in Devices /\ peers[peer[p].dev] = p

TrackedDevices == {d \in Devices : peers[d] # NoPeer}

Busy(stages) == \E p \in PeerIds : \E k \in stages : work[p][k] > 0

Idle == [k \in Stages |-> 0]

Spawn(w, p, k) == [w EXCEPT ![p][k] = @ + 1]

Finish(w, p, k) == [w EXCEPT ![p][k] = @ - 1]

Move(w, p, k, next) == Spawn(Finish(w, p, k), p, next)

\* goCleanup: the goroutine is tracked by cleanupWg only while the manager is open.
GoClose(w, p) == Spawn(w, p, IF closed THEN "closeU" ELSE "close")
GoEvict(w, p) == Spawn(w, p, IF closed THEN "evictU" ELSE "evict")

\* scheduleCleanup does nothing once the manager is closed.
ScheduleCleanup(w, p) == IF closed THEN w ELSE Spawn(w, p, "stop")

\* Mutant: the peer is closed without going through the manager.
CloseDirectly(w, p) == Spawn(w, p, "closeU")

\* closeViaManager closes the peer directly once the manager is closed.
CloseViaManager(w, p) == Spawn(w, p, IF closed THEN "closeU" ELSE "stop")

StopTimers(d) ==
    /\ grace' = [grace EXCEPT ![d] = FALSE]
    /\ watchdog' = [watchdog EXCEPT ![d] = NoPeer]
    /\ UNCHANGED <<timer, fired>>

\* isOtherAttempt
OtherAttempt(p, a) ==
    /\ a # NoAttempt
    /\ peer[p].attempt # NoAttempt
    /\ a # peer[p].attempt

\* recordReplacedAttemptLocked
RecordReplaced(a) ==
    LET s == Append(replacedAttempts, a)
    IN  IF a = NoAttempt THEN replacedAttempts
        ELSE IF Len(s) > MaxReplaced THEN Tail(s) ELSE s

WasReplaced(a) == \E i \in DOMAIN replacedAttempts : replacedAttempts[i] = a

SetPeer(p, r) == peer' = [peer EXCEPT ![p] = r]

Use(what) == left' = [left EXCEPT ![what] = @ - 1]

LoopIdle == [pc |-> "idle", dev |-> Unpaired, attempt |-> NoAttempt,
             old |-> NoPeer, new |-> NoPeer]

TimerIdle == [pc |-> "idle", peer |-> NoPeer]

-----------------------------------------------------------------------------
Init ==
    /\ peers = [d \in Devices |-> NoPeer]
    /\ closed = FALSE
    /\ shutDown = FALSE
    /\ allowedDeviceID \in Devices \cup {Unpaired}
    /\ replacedAttempts = <<>>
    /\ born = 0
    /\ peer = [p \in PeerIds |-> NoStruct]
    /\ pclosed = [p \in PeerIds |-> "no"]
    /\ work = [p \in PeerIds |-> Idle]
    /\ session = [d \in Devices |-> NoPeer]
    /\ loop = LoopIdle
    /\ reload = "idle"
    /\ stopper = "idle"
    /\ snap = [c \in Callers |-> {}]
    /\ grace = [d \in Devices |-> FALSE]
    /\ timer = [d \in Devices |-> TimerIdle]
    /\ watchdog = [d \in Devices |-> NoPeer]
    /\ fired = {}
    /\ sweeper = Unpaired
    /\ left \in Worlds

-----------------------------------------------------------------------------
(* handleConnectRequest, on the signaling read loop.  Requests that are     *)
(* dropped or rejected at the first checks change no state.                 *)

\* The early checks: not closed, and the paired device.
ConnectRequest(d, a) ==
    /\ loop.pc = "idle"
    /\ born < MaxConnects
    /\ ~closed
    /\ d = allowedDeviceID
    /\ a = NoAttempt \/ left["attempts"] > 0
    /\ loop' = [LoopIdle EXCEPT !.pc = "secret", !.dev = d, !.attempt = a]
    /\ UNCHANGED <<peers, pmVars, replacedAttempts, born, peer, pclosed, work,
                   session, callerVars, timerVars, sweeper, left>>

\* getSharedSecret fails or times out: reject, secret_unavailable.
SecretUnavailable ==
    /\ loop.pc = "secret"
    /\ loop' = LoopIdle
    /\ UNCHANGED <<peers, pmVars, replacedAttempts, born, peer, pclosed, work,
                   session, callerVars, timerVars, sweeper, left>>

\* The connection limit, which does not count a reconnecting device.
CheckLimit ==
    /\ loop.pc = "secret"
    /\ loop' = IF /\ peers[loop.dev] = NoPeer
                  /\ Cardinality(TrackedDevices) >= MaxPeers
               THEN LoopIdle
               ELSE [loop EXCEPT !.pc = "replace"]
    /\ UNCHANGED <<peers, pmVars, replacedAttempts, born, peer, pclosed, work,
                   session, callerVars, timerVars, sweeper, left>>

\* Remove the old peer of a reconnecting device and start its teardown, in one
\* hold of pm.mu.
ReplaceOld ==
    /\ loop.pc = "replace"
    /\ LET o == peers[loop.dev]
       IN  IF o = NoPeer
           THEN /\ loop' = [loop EXCEPT !.pc = "fetch"]
                /\ UNCHANGED <<peers, replacedAttempts, work>>
           ELSE /\ loop' = [loop EXCEPT !.pc = "torn", !.old = o]
                /\ peers' = [peers EXCEPT ![loop.dev] = NoPeer]
                /\ replacedAttempts' = RecordReplaced(peer[o].attempt)
                /\ work' = Spawn(work, o, "rstop")
    /\ StopTimers(loop.dev)
    /\ UNCHANGED <<pmVars, born, peer, pclosed, session, callerVars, sweeper, left>>

\* The old session's teardown ended, or replacementTeardownTimeout passed; the
\* old peer is closed in the background either way.
OldTornDown ==
    /\ loop.pc = "torn"
    /\ \/ work[loop.old]["rstop"] = 0 /\ work[loop.old]["rnotify"] = 0
       \/ left["hangs"] > 0
    /\ work' = GoClose(work, loop.old)
    /\ loop' = [loop EXCEPT !.pc = "fetch"]
    /\ UNCHANGED <<peers, pmVars, replacedAttempts, born, peer, pclosed, session,
                   callerVars, timerVars, sweeper, left>>

\* No TURN credentials under force_relay, or NewPeerConnection fails.
CreateFails ==
    /\ loop.pc = "fetch"
    /\ loop' = LoopIdle
    /\ UNCHANGED <<peers, pmVars, replacedAttempts, born, peer, pclosed, work,
                   session, callerVars, timerVars, sweeper, left>>

\* Mutants: an insert that repeats only some of the early checks.
MayInsertWhileClosed(d) ==
    /\ allowedDeviceID = d
    /\ peers[d] # NoPeer \/ Cardinality(TrackedDevices) < MaxPeers
MayInsertUnpaired(d) ==
    /\ ~closed
    /\ peers[d] # NoPeer \/ Cardinality(TrackedDevices) < MaxPeers

\* The checks repeated under the lock before the new peer is inserted.
MayInsert(d) ==
    /\ ~closed
    /\ allowedDeviceID = d
    /\ peers[d] # NoPeer \/ Cardinality(TrackedDevices) < MaxPeers

InsertPeer ==
    /\ loop.pc = "fetch"
    /\ born < MaxConnects
    /\ IF MayInsert(loop.dev)
       THEN /\ born' = born + 1
            /\ peers' = [peers EXCEPT ![loop.dev] = born + 1]
            /\ SetPeer(born + 1, [NoStruct EXCEPT !.dev = loop.dev,
                                                 !.attempt = loop.attempt])
            /\ loop' = [loop EXCEPT !.pc = "setup", !.new = born + 1]
       ELSE /\ loop' = LoopIdle
            /\ UNCHANGED <<born, peers, peer>>
    /\ UNCHANGED <<pmVars, replacedAttempts, pclosed, work, session, callerVars,
                   timerVars, sweeper, left>>

\* CreateDataChannel, CreateOffer, SetLocalDescription or Send fails:
\* ClosePeer(device), whose Close runs on the read loop.
SetupFails ==
    /\ loop.pc = "setup"
    /\ LET p == peers[loop.dev]
       IN  IF p = NoPeer
           THEN /\ loop' = LoopIdle
                /\ UNCHANGED <<peers, work>>
           ELSE /\ loop' = [loop EXCEPT !.pc = "close", !.new = p]
                /\ peers' = [peers EXCEPT ![loop.dev] = NoPeer]
                /\ work' = Spawn(work, p, "lclose")
    /\ StopTimers(loop.dev)
    /\ UNCHANGED <<pmVars, replacedAttempts, born, peer, pclosed, session,
                   callerVars, sweeper, left>>

SetupCloseReturns ==
    /\ loop.pc = "close"
    /\ work[loop.new]["lclose"] = 0
    /\ loop' = LoopIdle
    /\ UNCHANGED <<peers, pmVars, replacedAttempts, born, peer, pclosed, work,
                   session, callerVars, timerVars, sweeper, left>>

\* Mutant: the offer goes out and no answer watchdog is armed.
OfferUnwatched ==
    /\ loop.pc = "setup"
    /\ SetPeer(loop.new, [peer[loop.new] EXCEPT !.offer = TRUE])
    /\ loop' = LoopIdle
    /\ UNCHANGED <<peers, pmVars, replacedAttempts, born, pclosed, work, session,
                   callerVars, timerVars, sweeper, left>>

\* The offer is out and the answer watchdog armed.
OfferSent ==
    /\ loop.pc = "setup"
    /\ SetPeer(loop.new, [peer[loop.new] EXCEPT !.offer = TRUE, !.answerTimer = TRUE])
    /\ loop' = LoopIdle
    /\ UNCHANGED <<peers, pmVars, replacedAttempts, born, pclosed, work, session,
                   callerVars, timerVars, sweeper, left>>

-----------------------------------------------------------------------------
(* The read loop's other messages.                                          *)

\* An answer with no offer pending, for another attempt or an unknown peer is
\* ignored.  Applying it starts ICE; when pion refuses it the peer is cleaned up.
SDPAnswer(d, a, ok) ==
    /\ loop.pc = "idle"
    /\ peers[d] # NoPeer
    /\ ~OtherAttempt(peers[d], a)
    /\ peer[peers[d]].offer
    /\ LET p == peers[d]
       IN  IF ok
           THEN /\ SetPeer(p, [peer[p] EXCEPT
                                  !.offer = FALSE, !.answerTimer = FALSE,
                                  !.conn = IF @ = "new" THEN "connecting" ELSE @])
                /\ UNCHANGED <<work, left>>
           ELSE /\ left["answers"] > 0
                /\ Use("answers")
                /\ work' = ScheduleCleanup(work, p)
                /\ UNCHANGED peer
    /\ UNCHANGED <<peers, pmVars, replacedAttempts, born, pclosed, session, loop,
                   callerVars, timerVars, sweeper>>

\* handlePeerUnavailable looks the peer up under pm.mu; a notice for a replaced attempt
\* is ignored, ...
PeerUnavailable(d, a) ==
    /\ loop.pc = "idle"
    /\ left["notices"] > 0
    /\ peers[d] # NoPeer
    /\ ~(a # peer[peers[d]].attempt /\ WasReplaced(a))
    /\ loop' = [LoopIdle EXCEPT !.pc = "notice", !.dev = d, !.new = peers[d]]
    /\ Use("notices")
    /\ UNCHANGED <<peers, pmVars, replacedAttempts, born, peer, pclosed, work, session,
                   callerVars, timerVars, sweeper>>

\* ... reads the peer's own state, and leaves a connection that is up or coming up alone;
\* what it found may no longer hold when the peer is closed.
DataChannelOpen(p) == peer[p].auth # "none" /\ pclosed[p] = "no"

ComingUp(p) == DataChannelOpen(p) \/ peer[p].conn \in {"connecting", "connected"}

NoticeIgnored ==
    /\ loop.pc = "notice"
    /\ ComingUp(loop.new)
    /\ loop' = LoopIdle
    /\ UNCHANGED <<peers, pmVars, replacedAttempts, born, peer, pclosed, work, session,
                   callerVars, timerVars, sweeper, left>>

NoticeChecked ==
    /\ loop.pc = "notice"
    /\ ~ComingUp(loop.new)
    /\ loop' = [loop EXCEPT !.pc = "condemn"]
    /\ UNCHANGED <<peers, pmVars, replacedAttempts, born, peer, pclosed, work, session,
                   callerVars, timerVars, sweeper, left>>

NoticeCloses ==
    /\ loop.pc = "condemn"
    /\ SetPeer(loop.new, [peer[loop.new] EXCEPT !.noticed = TRUE])
    /\ work' = GoEvict(work, loop.new)
    /\ loop' = LoopIdle
    /\ UNCHANGED <<peers, pmVars, replacedAttempts, born, pclosed, session,
                   callerVars, timerVars, sweeper, left>>

\* The answer watchdog of the initial offer.  answerTimer is false once the offer
\* is answered: the callback then does nothing, as for a peer no longer tracked.
AnswerTimeout(p) ==
    /\ peer[p].answerTimer
    /\ Current(p)
    /\ SetPeer(p, [peer[p] EXCEPT !.answerTimer = FALSE])
    /\ work' = ScheduleCleanup(work, p)
    /\ UNCHANGED <<peers, pmVars, replacedAttempts, born, pclosed, session, loop,
                   callerVars, timerVars, sweeper, left>>

-----------------------------------------------------------------------------
(* Pion.  Each state change starts a goroutine of its own for the callback, *)
(* so callbacks may run late and out of order.                              *)

ConnChange(p, from, to) ==
    /\ peer[p].conn \in from
    /\ pclosed[p] # "done"
    /\ SetPeer(p, [peer[p] EXCEPT !.conn = to, !.cbs = @ \cup ({to} \cap Callbacks)])

ConnUp(p) ==
    /\ ConnChange(p, {"connecting", "disconnected"}, "connected")
    /\ UNCHANGED <<peers, pmVars, replacedAttempts, born, pclosed, work, session,
                   loop, callerVars, timerVars, sweeper, left>>

ConnLost(p) ==
    /\ left["losses"] > 0
    /\ ConnChange(p, {"connected"}, "disconnected")
    /\ Use("losses")
    /\ UNCHANGED <<peers, pmVars, replacedAttempts, born, pclosed, work, session,
                   loop, callerVars, timerVars, sweeper>>

ConnFailed(p) ==
    /\ ConnChange(p, {"connecting", "disconnected"}, "failed")
    /\ UNCHANGED <<peers, pmVars, replacedAttempts, born, pclosed, work, session,
                   loop, callerVars, timerVars, sweeper, left>>

\* handlePeerStateChange: only a callback of the tracked peer acts.  That of a
\* peer no longer tracked changes nothing, so it simply stays in cbs.
CallbackDone(p, s) == SetPeer(p, [peer[p] EXCEPT !.cbs = @ \ {s}])

OnConnected(p) ==
    /\ "connected" \in peer[p].cbs
    /\ Current(p)
    /\ CallbackDone(p, "connected")
    /\ StopTimers(peer[p].dev)
    /\ UNCHANGED <<peers, pmVars, replacedAttempts, born, pclosed, work, session,
                   loop, callerVars, sweeper, left>>

OnDisconnected(p) ==
    /\ "disconnected" \in peer[p].cbs
    /\ Current(p)
    /\ CallbackDone(p, "disconnected")
    /\ grace' = [grace EXCEPT ![peer[p].dev] =
                    IF watchdog[peer[p].dev] = NoPeer THEN TRUE ELSE @]
    /\ UNCHANGED <<peers, pmVars, replacedAttempts, born, pclosed, work, session,
                   loop, callerVars, timer, watchdog, fired, sweeper, left>>

OnFailedOrClosed(p, s) ==
    /\ s \in peer[p].cbs \cap {"failed", "closed"}
    /\ Current(p)
    /\ CallbackDone(p, s)
    /\ StopTimers(peer[p].dev)
    /\ work' = ScheduleCleanup(work, p)
    /\ UNCHANGED <<peers, pmVars, replacedAttempts, born, pclosed, session, loop,
                   callerVars, sweeper, left>>

-----------------------------------------------------------------------------
(* The data channel: authentication and requests.                           *)

\* OnOpen sends the challenge and arms authTimer.
ChannelOpens(p) ==
    /\ left["opens"] > 0
    /\ peer[p].auth = "none"
    /\ peer[p].conn = "connected"
    /\ pclosed[p] = "no"
    /\ SetPeer(p, [peer[p] EXCEPT !.auth = "challenged"])
    /\ UNCHANGED <<peers, pmVars, replacedAttempts, born, pclosed, work, session,
                   loop, callerVars, timerVars, sweeper, left>>

\* A valid auth_response: dropped once dispatch is stopped.
AuthSucceeds(p) ==
    /\ peer[p].auth = "challenged"
    /\ peer[p].conn = "connected"
    /\ peer[p].dispatch = "idle"
    /\ pclosed[p] = "no"
    /\ SetPeer(p, [peer[p] EXCEPT !.auth = "ok"])
    /\ UNCHANGED <<peers, pmVars, replacedAttempts, born, pclosed, work, session,
                   loop, callerVars, timerVars, sweeper, left>>

\* failAuth: the timeout, a bad response or a failed send.
AuthFails(p) ==
    /\ peer[p].auth = "challenged"
    /\ pclosed[p] = "no"
    /\ SetPeer(p, [peer[p] EXCEPT !.auth = "failed"])
    /\ work' = CloseViaManager(work, p)
    /\ UNCHANGED <<peers, pmVars, replacedAttempts, born, pclosed, session, loop,
                   callerVars, timerVars, sweeper, left>>

\* Mutant: a request is dispatched whether or not stopDispatch has run.
RequestBeginsAnyway(p) ==
    /\ peer[p].auth = "ok"
    /\ peer[p].dispatch # "busy"
    /\ pclosed[p] # "done"
    /\ SetPeer(p, [peer[p] EXCEPT !.dispatch = "busy"])
    /\ UNCHANGED <<peers, pmVars, replacedAttempts, born, pclosed, work, session,
                   loop, callerVars, timerVars, sweeper, left>>

\* handleDataChannelMessage holds dispatchMu while the handler runs; the handler
\* leaves device-keyed state behind.
RequestBegins(p) ==
    /\ peer[p].auth = "ok"
    /\ peer[p].dispatch = "idle"
    /\ pclosed[p] # "done"
    /\ SetPeer(p, [peer[p] EXCEPT !.dispatch = "busy"])
    /\ UNCHANGED <<peers, pmVars, replacedAttempts, born, pclosed, work, session,
                   loop, callerVars, timerVars, sweeper, left>>

RequestEnds(p) ==
    /\ peer[p].dispatch = "busy"
    /\ SetPeer(p, [peer[p] EXCEPT !.dispatch = "idle"])
    /\ session' = [session EXCEPT ![peer[p].dev] = p]
    /\ UNCHANGED <<peers, pmVars, replacedAttempts, born, pclosed, work, loop,
                   callerVars, timerVars, sweeper, left>>

-----------------------------------------------------------------------------
(* Stages of the background goroutines.                                     *)

\* stopDispatch waits for dispatchMu, so for a request in flight.
AfterStop(k) == CASE k = "stop" -> "check"
                  [] k = "rstop" -> "rnotify"
                  [] k = "cstop" -> "cnotify"

MayStopDispatch(p) == peer[p].dispatch # "busy"

StopDispatch(p, k) ==
    /\ work[p][k] > 0
    /\ MayStopDispatch(p)
    /\ SetPeer(p, [peer[p] EXCEPT !.dispatch = "stopped"])
    /\ work' = Move(work, p, k, AfterStop(k))
    /\ UNCHANGED <<peers, pmVars, replacedAttempts, born, pclosed, session, loop,
                   callerVars, timerVars, sweeper, left>>

\* Mutant: teardownWg.Done is skipped when the peer is no longer current.
CheckCurrentLeaks(p) ==
    /\ work[p]["check"] > 0
    /\ Current(p)
    /\ work' = Move(work, p, "check", "notify")
    /\ UNCHANGED <<peers, pmVars, replacedAttempts, born, peer, pclosed, session,
                   loop, callerVars, timerVars, sweeper, left>>

\* teardownIfCurrent's identity check; the lock is released before the handler.
CheckCurrent(p) ==
    /\ work[p]["check"] > 0
    /\ work' = Move(work, p, "check", IF Current(p) THEN "notify" ELSE "evict")
    /\ UNCHANGED <<peers, pmVars, replacedAttempts, born, peer, pclosed, session,
                   loop, callerVars, timerVars, sweeper, left>>

\* OnPeerDisconnect(device): the handler drops whatever it keeps for the device.
DropSession(d) == session' = [session EXCEPT ![d] = NoPeer]

Notify(p) ==
    /\ work[p]["notify"] > 0
    /\ DropSession(peer[p].dev)
    /\ work' = Move(work, p, "notify", "evict")
    /\ UNCHANGED <<peers, pmVars, replacedAttempts, born, peer, pclosed, loop,
                   callerVars, timerVars, sweeper, left>>

NotifyReplaced(p) ==
    /\ work[p]["rnotify"] > 0
    /\ DropSession(peer[p].dev)
    /\ work' = Finish(work, p, "rnotify")
    /\ UNCHANGED <<peers, pmVars, replacedAttempts, born, peer, pclosed, loop,
                   callerVars, timerVars, sweeper, left>>

NotifyClosing(p) ==
    /\ work[p]["cnotify"] > 0
    /\ DropSession(peer[p].dev)
    /\ work' = Move(work, p, "cnotify", "cclose")
    /\ UNCHANGED <<peers, pmVars, replacedAttempts, born, peer, pclosed, loop,
                   callerVars, timerVars, sweeper, left>>

\* ClosePeerIfCurrent: check, removal and stopTimersLocked in one hold of pm.mu.
AfterEvict(k) == IF k = "evict" THEN "close" ELSE "closeU"

ClosePeerIfCurrent(p, k) ==
    /\ work[p][k] > 0
    /\ work' = Move(work, p, k, AfterEvict(k))
    /\ IF Current(p)
       THEN /\ peers' = [peers EXCEPT ![peer[p].dev] = NoPeer]
            /\ StopTimers(peer[p].dev)
       ELSE UNCHANGED <<peers, timerVars>>
    /\ UNCHANGED <<pmVars, replacedAttempts, born, peer, pclosed, session, loop,
                   callerVars, sweeper, left>>

\* Peer.Close holds p.mu while pion closes.  Callers that wait for p.mu return
\* with the one that closed; a later caller returns at once.
CloseBegins(p) ==
    /\ pclosed[p] = "no"
    /\ \E k \in CloseStages : work[p][k] > 0
    /\ pclosed' = [pclosed EXCEPT ![p] = "closing"]
    /\ UNCHANGED <<peers, pmVars, replacedAttempts, born, peer, work, session,
                   loop, callerVars, timerVars, sweeper, left>>

CloseEnds(p) ==
    /\ pclosed[p] = "closing"
    /\ pclosed' = [pclosed EXCEPT ![p] = "done"]
    /\ SetPeer(p, [peer[p] EXCEPT !.conn = "closed", !.cbs = @ \cup {"closed"}])
    /\ work' = [work EXCEPT ![p] = [k \in Stages |-> IF k \in CloseStages THEN 0 ELSE @[k]]]
    /\ UNCHANGED <<peers, pmVars, replacedAttempts, born, session, loop, callerVars,
                   timerVars, sweeper, left>>

CloseReturns(p, k) ==
    /\ pclosed[p] = "done"
    /\ work[p][k] > 0
    /\ work' = Finish(work, p, k)
    /\ UNCHANGED <<peers, pmVars, replacedAttempts, born, peer, pclosed, session,
                   loop, callerVars, timerVars, sweeper, left>>

-----------------------------------------------------------------------------
(* closeAll, for the pairing reload and for shutdown.                        *)

\* The first hold of pm.mu, and the goroutines started from the snapshot.
CloseAllPeers(c) ==
    /\ closed' = TRUE
    /\ snap' = [snap EXCEPT ![c] = {peers[d] : d \in TrackedDevices}]
    /\ peers' = [d \in Devices |-> NoPeer]
    /\ work' = [p \in PeerIds |->
                  IF Tracked(p) THEN [work[p] EXCEPT !["cstop"] = @ + 1] ELSE work[p]]
    /\ grace' = [d \in Devices |-> FALSE]
    /\ watchdog' = [d \in Devices |-> NoPeer]
    /\ UNCHANGED <<timer, fired>>

\* Mutant: closeAll does not wait for teardownWg.
OwnHandlersTornDown(c) ==
    \A p \in snap[c] : work[p]["cstop"] = 0 /\ work[p]["cnotify"] = 0

\* notifyWg and teardownWg are zero.
HandlersTornDown(c) ==
    /\ \A p \in snap[c] : work[p]["cstop"] = 0 /\ work[p]["cnotify"] = 0
    /\ ~Busy(TeardownStages)

\* Mutant: closeAll does not wait for cleanupWg.
OwnPeersClosed(c) == \A p \in snap[c] : work[p]["cclose"] = 0

\* closeWg and cleanupWg are zero.
PeersClosed(c) ==
    /\ \A p \in snap[c] : work[p]["cclose"] = 0
    /\ ~Busy(CleanupStages)

\* SIGUSR2: LoadPairedDevice, then SetAllowedDeviceID.
ReloadPairing(d) ==
    /\ reload = "idle"
    /\ left["reloads"] > 0
    /\ allowedDeviceID' = d
    /\ reload' = "loaded"
    /\ Use("reloads")
    /\ UNCHANGED <<peers, closed, shutDown, replacedAttempts, born, peer, pclosed,
                   work, session, loop, stopper, snap, timerVars, sweeper>>

ReloadCloseAll ==
    /\ reload = "loaded"
    /\ CloseAllPeers("reload")
    /\ reload' = "waiting"
    /\ UNCHANGED <<shutDown, allowedDeviceID, replacedAttempts, born, peer, pclosed,
                   session, loop, stopper, sweeper, left>>

ReloadWaited ==
    /\ reload = "waiting"
    /\ HandlersTornDown("reload")
    /\ reload' = "reopen"
    /\ UNCHANGED <<peers, pmVars, replacedAttempts, born, peer, pclosed, work,
                   session, loop, stopper, snap, timerVars, sweeper, left>>

\* Mutants: the reload reopens under CloseAll, or never.
ReopenedAnyway == FALSE
ReopenedNever == closed

\* The reopening half of CloseAllAndReopen: an overlapping CloseAll wins.
Reopened == IF shutDown THEN closed ELSE FALSE

Reopen ==
    /\ reload = "reopen"
    /\ closed' = Reopened
    /\ reload' = "idle"
    /\ UNCHANGED <<peers, shutDown, allowedDeviceID, replacedAttempts, born, peer,
                   pclosed, work, session, loop, stopper, snap, timerVars, sweeper,
                   left>>

\* Run has returned, so the read loop has ended; CloseAll sets shutDown first.
BeginShutdown ==
    /\ left["shutdowns"] > 0
    /\ stopper = "idle"
    /\ loop.pc = "idle"
    /\ loop' = [loop EXCEPT !.pc = "exited"]
    /\ shutDown' = TRUE
    /\ stopper' = "flagged"
    /\ UNCHANGED <<peers, closed, allowedDeviceID, replacedAttempts, born, peer,
                   pclosed, work, session, reload, snap, timerVars, sweeper, left>>

ShutdownCloseAll ==
    /\ stopper = "flagged"
    /\ CloseAllPeers("stopper")
    /\ stopper' = "waiting"
    /\ UNCHANGED <<shutDown, allowedDeviceID, replacedAttempts, born, peer, pclosed,
                   session, loop, reload, sweeper, left>>

ShutdownWaited ==
    /\ stopper = "waiting"
    /\ HandlersTornDown("stopper")
    /\ PeersClosed("stopper")
    /\ stopper' = "done"
    /\ UNCHANGED <<peers, pmVars, replacedAttempts, born, peer, pclosed, work,
                   session, loop, reload, snap, timerVars, sweeper, left>>

-----------------------------------------------------------------------------
(* The disconnect grace timer.  timer[d] is the callback goroutine of a      *)
(* fired timer, which Stop can no longer prevent; bound: one per device.     *)

GraceExpires(d) ==
    /\ grace[d]
    /\ timer[d].pc = "idle"
    /\ timer' = [timer EXCEPT ![d].pc = "fired"]
    /\ UNCHANGED <<peers, pmVars, replacedAttempts, born, peer, pclosed, work,
                   session, loop, callerVars, grace, watchdog, fired, sweeper, left>>

\* onDisconnectTimerFired: the first hold of pm.mu looks the peer up by device.
GraceLookup(d) ==
    /\ timer[d].pc = "fired"
    /\ grace' = [grace EXCEPT ![d] = FALSE]
    /\ timer' = [timer EXCEPT ![d] = IF peers[d] = NoPeer THEN TimerIdle
                                     ELSE [pc |-> "check", peer |-> peers[d]]]
    /\ UNCHANGED <<peers, pmVars, replacedAttempts, born, peer, pclosed, work,
                   session, loop, callerVars, watchdog, fired, sweeper, left>>

\* The peer is no longer disconnected.
GraceRecovered(d) ==
    /\ timer[d].pc = "check"
    /\ peer[timer[d].peer].conn # "disconnected"
    /\ timer' = [timer EXCEPT ![d] = TimerIdle]
    /\ UNCHANGED <<peers, pmVars, replacedAttempts, born, peer, pclosed, work,
                   session, loop, callerVars, grace, watchdog, fired, sweeper, left>>

\* The timer fired early after a system sleep: register it again.
GraceEarly(d) ==
    /\ timer[d].pc = "check"
    /\ peer[timer[d].peer].conn = "disconnected"
    /\ timer' = [timer EXCEPT ![d] = TimerIdle]
    /\ grace' = [grace EXCEPT ![d] = TRUE]
    /\ UNCHANGED <<peers, pmVars, replacedAttempts, born, peer, pclosed, work,
                   session, loop, callerVars, watchdog, fired, sweeper, left>>

\* attemptICERestart looks the peer up again.
RestartBegins(d) ==
    /\ timer[d].pc = "check"
    /\ peer[timer[d].peer].conn = "disconnected"
    /\ timer' = [timer EXCEPT ![d] = IF peers[d] = NoPeer THEN TimerIdle
                                     ELSE [pc |-> "offer", peer |-> peers[d]]]
    /\ UNCHANGED <<peers, pmVars, replacedAttempts, born, peer, pclosed, work,
                   session, loop, callerVars, grace, watchdog, fired, sweeper, left>>

\* Mutant: a restart offer that cannot be sent is only logged.
RestartFailsQuietly(d) ==
    /\ timer[d].pc = "offer"
    /\ timer' = [timer EXCEPT ![d] = TimerIdle]
    /\ UNCHANGED <<peers, pmVars, replacedAttempts, born, peer, pclosed, work, session,
                   loop, callerVars, grace, watchdog, fired, sweeper, left>>

\* CreateOffer, SetLocalDescription or Send fails.
RestartFails(d) ==
    /\ timer[d].pc = "offer"
    /\ work' = ScheduleCleanup(work, timer[d].peer)
    /\ timer' = [timer EXCEPT ![d] = TimerIdle]
    /\ UNCHANGED <<peers, pmVars, replacedAttempts, born, peer, pclosed, session,
                   loop, callerVars, grace, watchdog, fired, sweeper, left>>

RestartOffered(d) ==
    /\ timer[d].pc = "offer"
    /\ pclosed[timer[d].peer] = "no"
    /\ LET p == timer[d].peer IN SetPeer(p, [peer[p] EXCEPT !.offer = TRUE])
    /\ timer' = [timer EXCEPT ![d].pc = "arm"]
    /\ UNCHANGED <<peers, pmVars, replacedAttempts, born, pclosed, work, session,
                   loop, callerVars, grace, watchdog, fired, sweeper, left>>

\* Mutant: the watchdog is registered whatever happened while the offer was sent.
MayArmAlways(d) == TRUE

\* The watchdog is registered only for a peer still tracked by an open manager.
MayArm(d) == ~closed /\ peers[d] = timer[d].peer

ArmWatchdog(d) ==
    /\ timer[d].pc = "arm"
    /\ watchdog' = IF MayArm(d) THEN [watchdog EXCEPT ![d] = timer[d].peer] ELSE watchdog
    /\ timer' = [timer EXCEPT ![d] = TimerIdle]
    /\ UNCHANGED <<peers, pmVars, replacedAttempts, born, peer, pclosed, work,
                   session, loop, callerVars, grace, fired, sweeper, left>>

\* The watchdog's callback starts; a Stop from now on comes too late.
WatchdogExpires(d) ==
    /\ watchdog[d] # NoPeer
    /\ fired' = fired \cup {watchdog[d]}
    /\ watchdog[d] \notin fired
    /\ UNCHANGED <<peers, pmVars, replacedAttempts, born, peer, pclosed, work,
                   session, loop, callerVars, grace, timer, watchdog, sweeper, left>>

\* The callback removes its own entry and acts only on the peer it was armed for.
WatchdogRuns(p) ==
    /\ p \in fired
    /\ fired' = fired \ {p}
    /\ watchdog' = [d \in Devices |-> IF watchdog[d] = p THEN NoPeer ELSE watchdog[d]]
    /\ work' = IF Current(p) /\ peer[p].conn # "connected"
               THEN ScheduleCleanup(work, p) ELSE work
    /\ UNCHANGED <<peers, pmVars, replacedAttempts, born, peer, pclosed, session,
                   loop, callerVars, grace, timer, sweeper, left>>

-----------------------------------------------------------------------------
(* ConnectionCleaner.sweep: a device that stopped pinging, or whose          *)
(* connection is dead.                                                       *)

SweepTracked(d) ==
    /\ sweeper = Unpaired
    /\ left["sweeps"] > 0
    /\ peers[d] # NoPeer
    /\ session[d] # NoPeer \/ peer[peers[d]].conn \in {"failed", "closed"}
    /\ work' = ScheduleCleanup(work, peers[d])
    /\ Use("sweeps")
    /\ UNCHANGED <<peers, pmVars, replacedAttempts, born, peer, pclosed, session,
                   loop, callerVars, timerVars, sweeper>>

\* DisconnectPeer found no peer; PeerDisconnected is called after it returned.
SweepUntracked(d) ==
    /\ sweeper = Unpaired
    /\ left["sweeps"] > 0
    /\ peers[d] = NoPeer
    /\ session[d] # NoPeer
    /\ sweeper' = d
    /\ Use("sweeps")
    /\ UNCHANGED <<peers, pmVars, replacedAttempts, born, peer, pclosed, work,
                   session, loop, callerVars, timerVars>>

SweepDrops ==
    /\ sweeper # Unpaired
    /\ DropSession(sweeper)
    /\ sweeper' = Unpaired
    /\ UNCHANGED <<peers, pmVars, replacedAttempts, born, peer, pclosed, work, loop,
                   callerVars, timerVars, left>>

-----------------------------------------------------------------------------
ReadLoop ==
    \/ \E d \in Devices, a \in Attempts \cup {NoAttempt} :
          \/ ConnectRequest(d, a)
          \/ \E ok \in BOOLEAN : SDPAnswer(d, a, ok)
          \/ PeerUnavailable(d, a)
    \/ SecretUnavailable
    \/ CheckLimit
    \/ ReplaceOld
    \/ OldTornDown
    \/ CreateFails
    \/ InsertPeer
    \/ SetupFails
    \/ SetupCloseReturns
    \/ OfferSent
    \/ NoticeIgnored
    \/ NoticeChecked
    \/ NoticeCloses

Pion ==
    \E p \in PeerIds :
        \/ ConnUp(p)
        \/ ConnLost(p)
        \/ ConnFailed(p)
        \/ ChannelOpens(p)
        \/ AuthSucceeds(p)
        \/ RequestBegins(p)

Callback ==
    \E p \in PeerIds :
        \/ \E s \in {"failed", "closed"} : OnFailedOrClosed(p, s)
        \/ OnConnected(p)
        \/ OnDisconnected(p)
        \/ AuthFails(p)
        \/ RequestEnds(p)
        \/ AnswerTimeout(p)

Goroutine ==
    \E p \in PeerIds :
        \/ \E k \in {"stop", "rstop", "cstop"} : StopDispatch(p, k)
        \/ CheckCurrent(p)
        \/ Notify(p)
        \/ NotifyReplaced(p)
        \/ NotifyClosing(p)
        \/ \E k \in {"evict", "evictU"} : ClosePeerIfCurrent(p, k)
        \/ CloseBegins(p)
        \/ CloseEnds(p)
        \/ \E k \in CloseStages : CloseReturns(p, k)

CloseAll ==
    \/ \E d \in Devices \cup {Unpaired} : ReloadPairing(d)
    \/ ReloadCloseAll
    \/ ReloadWaited
    \/ Reopen
    \/ BeginShutdown
    \/ ShutdownCloseAll
    \/ ShutdownWaited

Timers ==
    \/ \E d \in Devices :
          \/ GraceExpires(d)
          \/ GraceLookup(d)
          \/ GraceRecovered(d)
          \/ GraceEarly(d)
          \/ RestartBegins(d)
          \/ RestartFails(d)
          \/ RestartOffered(d)
          \/ ArmWatchdog(d)
          \/ WatchdogExpires(d)
    \/ \E p \in PeerIds : WatchdogRuns(p)

Sweep ==
    \/ \E d \in Devices : SweepTracked(d) \/ SweepUntracked(d)
    \/ SweepDrops

Next == ReadLoop \/ Pion \/ Callback \/ Goroutine \/ CloseAll \/ Timers \/ Sweep

Spec == Init /\ [][Next]_vars

-----------------------------------------------------------------------------
(* Fairness.  The Go scheduler runs every runnable goroutine and every       *)
(* expired timer; sync.Mutex hands a lock to a waiter in the end, which is   *)
(* strong fairness for stopDispatch against a stream of requests; a timer    *)
(* that fired early is not early for ever; pion's Close returns, and an ICE  *)
(* agent that was given an answer connects or gives up.  Nothing is assumed  *)
(* of the mobile, the server or the signals: a mobile need not answer, open  *)
(* its data channel or authenticate, and a lost connection need not return   *)
(* nor be given up by pion.                                                  *)

LoopProgress ==
    \/ CheckLimit \/ ReplaceOld \/ OldTornDown \/ InsertPeer \/ OfferSent \/ SetupCloseReturns
    \/ NoticeIgnored \/ NoticeChecked \/ NoticeCloses

GoroutineProgress(p) ==
    \/ CheckCurrent(p)
    \/ Notify(p)
    \/ NotifyReplaced(p)
    \/ NotifyClosing(p)
    \/ \E k \in {"evict", "evictU"} : ClosePeerIfCurrent(p, k)
    \/ CloseBegins(p)
    \/ CloseEnds(p)
    \/ \E k \in CloseStages : CloseReturns(p, k)

\* pion's ICE and DTLS timeouts.
ConnectResolves(p) == peer[p].conn = "connecting" /\ (ConnUp(p) \/ ConnFailed(p))

PeerFairness(p) ==
    /\ WF_vars(ConnectResolves(p))
    /\ WF_vars(\/ OnConnected(p)
               \/ OnDisconnected(p)
               \/ \E s \in {"failed", "closed"} : OnFailedOrClosed(p, s))
    /\ WF_vars(AuthFails(p))
    /\ WF_vars(RequestEnds(p))
    /\ WF_vars(AnswerTimeout(p))
    /\ WF_vars(WatchdogRuns(p))
    /\ WF_vars(GoroutineProgress(p))
    /\ SF_vars(\E k \in {"stop", "rstop", "cstop"} : StopDispatch(p, k))

TimerProgress(d) ==
    \/ GraceExpires(d)
    \/ GraceLookup(d)
    \/ RestartFails(d)
    \/ RestartOffered(d)
    \/ ArmWatchdog(d)

DeviceFairness(d) ==
    /\ WF_vars(TimerProgress(d))
    /\ SF_vars(GraceRecovered(d) \/ RestartBegins(d))
    /\ WF_vars(WatchdogExpires(d))

Fairness ==
    /\ WF_vars(LoopProgress)
    /\ WF_vars(ReloadCloseAll \/ ReloadWaited \/ Reopen)
    /\ WF_vars(ShutdownCloseAll \/ ShutdownWaited)
    /\ WF_vars(SweepDrops)
    /\ \A p \in PeerIds : PeerFairness(p)
    /\ \A d \in Devices : DeviceFairness(d)

FairSpec == Spec /\ Fairness

-----------------------------------------------------------------------------
(* Properties                                                              *)

PeerStruct ==
    [dev : Devices \cup {Unpaired}, attempt : Attempts \cup {NoAttempt},
     conn : ConnStates, cbs : SUBSET Callbacks, offer : BOOLEAN,
     answerTimer : BOOLEAN, auth : {"none", "challenged", "ok", "failed"},
     dispatch : {"idle", "busy", "stopped"}, noticed : BOOLEAN]

Works == [PeerIds -> [Stages -> Nat]]

LoopStruct ==
    [pc : {"idle", "secret", "replace", "torn", "fetch", "setup", "close", "notice",
           "condemn", "exited"},
     dev : Devices \cup {Unpaired}, attempt : Attempts \cup {NoAttempt},
     old : PeerIds \cup {NoPeer}, new : PeerIds \cup {NoPeer}]

TimerStruct == [pc : {"idle", "fired", "check", "offer", "arm"},
                peer : PeerIds \cup {NoPeer}]

\* The shape of every variable.
TypeOK ==
    /\ peers \in [Devices -> PeerIds \cup {NoPeer}]
    /\ closed \in BOOLEAN
    /\ shutDown \in BOOLEAN
    /\ allowedDeviceID \in Devices \cup {Unpaired}
    /\ replacedAttempts \in Seq(Attempts \cup {NoAttempt})
    /\ born \in 0 .. MaxConnects
    /\ peer \in [PeerIds -> PeerStruct]
    /\ pclosed \in [PeerIds -> {"no", "closing", "done"}]
    /\ work \in Works
    /\ session \in [Devices -> PeerIds \cup {NoPeer}]
    /\ loop \in LoopStruct
    /\ reload \in {"idle", "loaded", "waiting", "reopen"}
    /\ stopper \in {"idle", "flagged", "waiting", "done"}
    /\ snap \in [Callers -> SUBSET PeerIds]
    /\ grace \in [Devices -> BOOLEAN]
    /\ timer \in [Devices -> TimerStruct]
    /\ watchdog \in [Devices -> PeerIds \cup {NoPeer}]
    /\ fired \in SUBSET PeerIds
    /\ sweeper \in Devices \cup {Unpaired}
    /\ left \in [Budgets -> Nat]

\* While the manager is closed it tracks no peer: a connect_request that was in
\* flight when closeAll took its snapshot inserts nothing behind it, and
\* goTeardownLocked never sees a replaced peer of a closed manager.
ClosedTracksNothing == closed => \A d \in Devices : peers[d] = NoPeer

\* closeAll waits on the WaitGroups only while the manager is closed, so no
\* goroutine can Add to a group someone Waits on; in particular a reload that
\* overlaps shutdown never reopens the manager under CloseAll.
WaitsOnlyWhileClosed ==
    (reload \in {"waiting", "reopen"} \/ stopper \in {"waiting", "done"}) => closed

\* A tracked peer's Close has not begun: Close holds p.mu for as long as pion
\* hangs, and a reconnect takes p.mu of the tracked peer while holding pm.mu.
TrackedNotClosing == \A d \in Devices : peers[d] # NoPeer => pclosed[peers[d]] = "no"

\* Outside a reload an open manager tracks only the paired device, however the
\* connect_request and the reload interleaved.
OnlyPairedTracked ==
    (reload = "idle" /\ ~closed) =>
        \A d \in Devices : peers[d] # NoPeer => d = allowedDeviceID

\* A registered ICE-restart watchdog watches the peer tracked for its device; one
\* left behind by an evicted peer would suppress its successor's grace timer.
WatchdogWatchesTracked ==
    \A d \in Devices : watchdog[d] # NoPeer => watchdog[d] = peers[d]

\* Someone will still run OnPeerDisconnect for the owner of the session.
TeardownPending(p) ==
    \E k \in TeardownStages \cup {"cstop", "cnotify"} : work[p][k] > 0

\* Handler state of a device always has someone to tear it down: its owner is
\* tracked or on its way through a teardown.  A request that slips past
\* stopDispatch would rebuild state nobody owns.  The exception is a peer that a
\* peer_unavailable notice condemned, which is closed without OnPeerDisconnect.
NoOrphanSession ==
    \A d \in Devices : session[d] # NoPeer =>
        LET p == session[d]
        IN  peers[d] = p \/ TeardownPending(p) \/ peer[p].noticed

\* A closeAll that has taken its snapshot and not yet returned.
Waiting(c) ==
    \/ c = "reload" /\ reload = "waiting"
    \/ c = "stopper" /\ stopper = "waiting"

\* When CloseAllAndReopen is about to reopen, and when CloseAll has returned, no
\* handler state of an earlier peer is left.  notifyWg is local to closeAll, so when
\* a reload and the shutdown overlap the one that found the map empty does not wait
\* for the peers in the snapshot of the other, which is still tearing them down.
NothingSurvivesCloseAll ==
    (reload = "reopen" \/ stopper = "done") =>
        \A d \in Devices : session[d] # NoPeer =>
            \/ peer[session[d]].noticed
            \/ \E c \in Callers : Waiting(c) /\ session[d] \in snap[c]

\* When CloseAll has returned no goroutine of the manager's groups is left, and no
\* peer it closed is still closing.
ShutdownWaitsForAll ==
    stopper = "done" =>
        /\ ~Busy(CleanupStages)
        /\ \A p \in snap["stopper"] : pclosed[p] = "done"

\* Handler state is torn down by its owner's teardown only: the disconnect handler
\* keys on device id, so a stale peer's OnPeerDisconnect would destroy the
\* session of the peer that replaced it.
TornDownByOwner ==
    [][\A d \in Devices :
         (session[d] # NoPeer /\ session'[d] = NoPeer) =>
            \E k \in {"notify", "rnotify", "cnotify"} :
                work'[session[d]][k] < work[session[d]][k]]_vars

\* A mobile that does not answer, does not connect or does not authenticate cannot hold
\* the single slot: the answer watchdog or pion's own timeout ends a peer that never
\* connects, the auth timeout one that was challenged.  Between the two nothing does: a
\* connected peer whose data channel never opens has no timer and keeps the slot.
SlotFreed ==
    \A p \in PeerIds :
        /\ (Tracked(p) /\ peer[p].conn \in {"new", "connecting"})
              ~> (~Tracked(p) \/ peer[p].conn = "connected")
        /\ (Tracked(p) /\ peer[p].auth = "challenged")
              ~> (~Tracked(p) \/ peer[p].auth = "ok")

\* A tracked peer whose connection is lost comes back or is evicted, by the grace timer,
\* the ICE restart and its watchdog, without waiting for pion to give it up.  That
\* needs the callbacks in order: a "connected" one that runs after the loss stops the
\* grace timer the loss started.
LossResolved ==
    \A p \in PeerIds :
        (Tracked(p) /\ peer[p].conn = "disconnected" /\ peer[p].cbs = {"disconnected"})
            ~> (~Tracked(p) \/ peer[p].conn = "connected")

\* A reload reopens the manager unless it is shutting down.
ReloadEnds == (reload = "loaded") ~> (reload = "idle" /\ (~closed \/ shutDown))

\* CloseAll returns: stopDispatch, the handler and the groups never wait on one
\* another in a circle.
ShutdownEnds == (stopper = "flagged") ~> (stopper = "done")

=============================================================================
