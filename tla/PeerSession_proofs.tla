------------------------- MODULE PeerSession_proofs -------------------------
(***************************************************************************)
(* Handler state of the PeerManager's peers: who owns it, who tears it      *)
(* down, and what closeAll's waits leave behind.  SInv strengthens          *)
(* PeerManager_proofs' IInv.                                                *)
(***************************************************************************)
EXTENDS PeerManager_proofs

\* Goroutines that will run OnPeerDisconnect for their peer, whatever they find.
SureStages == {"notify", "rstop", "rnotify", "cstop", "cnotify"}

\* Stages a teardown reaches after stopDispatch has returned.
StoppedStages == {"check", "notify", "rnotify", "cnotify"}

\* The per-peer goroutine of closeAll.
SnapStages == {"cstop", "cnotify", "cclose"}

\* No request of the peer runs or will run, and it has left no handler state.
Quiet(p) == peer[p].dispatch = "stopped" /\ \A d \in Devices : session[d] # p

\* The peer never got as far as a data channel, and only an answer could take it there.
Inert(p) == peer[p].auth = "none" /\ peer[p].conn \in {"new", "closed"}

SureTeardown(p) == \E k \in SureStages : work[p][k] > 0

\* Every created peer belongs to a device, and only an authenticated one is served.
PeerHasDevice ==
    \A p \in PeerIds :
        /\ p <= born => peer[p].dev \in Devices
        /\ peer[p].dispatch = "busy" => peer[p].auth = "ok"

\* Handler state is kept under the device of the peer that built it.
SessionIsOwn ==
    \A d \in Devices : session[d] # NoPeer =>
        peer[session[d]].dev = d /\ peer[session[d]].auth = "ok"

\* Past stopDispatch the peer serves no request any more.
DispatchStopped ==
    \A p \in PeerIds : \A k \in StoppedStages : work[p][k] > 0 => peer[p].dispatch = "stopped"

\* An eviction runs for a peer that is quiet, was replaced meanwhile, or was
\* condemned by a peer_unavailable notice.
EvictedIsQuiet ==
    \A p \in PeerIds : \A k \in {"evict", "evictU"} :
        work[p][k] > 0 => peer[p].noticed \/ Quiet(p) \/ ~Current(p)

\* A created peer is tracked, has a teardown under way, or has nothing to tear down.
CaredFor ==
    \A p \in PeerIds : p <= born =>
        Current(p) \/ SureTeardown(p) \/ peer[p].noticed \/ Quiet(p) \/ Inert(p)

\* The peer whose offer is being made has not been answered.
SetupIsFresh ==
    loop.pc = "setup" => Inert(loop.new) /\ peers[loop.dev] \in {NoPeer, loop.new}

\* A closeAll is waiting for every peer its kind of goroutine tears down.
SnapshotAwaited ==
    \A p \in PeerIds : work[p]["cstop"] > 0 \/ work[p]["cnotify"] > 0 =>
        \E c \in Callers : Waiting(c) /\ p \in snap[c]

\* teardownWg stays at zero from the return of a Wait to the reopening, and
\* cleanupWg once CloseAll has returned.
GroupsStayZero ==
    /\ (reload = "reopen" \/ stopper = "done") => ~Busy(TeardownStages)
    /\ stopper = "done" => ~Busy(CleanupStages)

\* A peer in CloseAll's snapshot is closed, or its goroutine still has that to do.
SnapshotCloses ==
    \A p \in snap["stopper"] :
        \/ stopper \in {"idle", "flagged"}
        \/ pclosed[p] = "done"
        \/ stopper = "waiting" /\ \E k \in SnapStages : work[p][k] > 0

OwnerInv ==
    PeerHasDevice /\ SessionIsOwn /\ DispatchStopped /\ EvictedIsQuiet /\ CaredFor /\ SetupIsFresh

WaitInv == SnapshotAwaited /\ GroupsStayZero /\ SnapshotCloses

SInv == IInv /\ OwnerInv /\ WaitInv

-----------------------------------------------------------------------------
(* What a step must respect to keep OwnerInv.                               *)

\* A peer keeps its device, a notice, an authentication and a stopped dispatch; it
\* serves only once authenticated; and only an answer to the tracked peer, on an
\* idle read loop, can wake an inert one.
LifeKept(q) ==
    /\ peer'[q].dev = peer[q].dev
    /\ peer[q].noticed => peer'[q].noticed
    /\ peer[q].auth = "ok" => peer'[q].auth = "ok"
    /\ peer[q].dispatch = "stopped" => peer'[q].dispatch = "stopped"
    /\ peer'[q].dispatch = "busy" => peer[q].dispatch = "busy" \/ peer[q].auth = "ok"
    /\ Inert(q) => Inert(q)' \/ (Current(q) /\ loop.pc = "idle")

\* Handler state only goes away.
SessionShrinks == \A d \in Devices : session'[d] = session[d] \/ session'[d] = NoPeer

\* The step does not begin to set a peer up.
NoSetup == loop' = loop \/ loop'.pc # "setup"

\* A goroutine goes past stopDispatch only with dispatch stopped.
StopKept(q) ==
    \A k \in StoppedStages :
        work'[q][k] > 0 => work[q][k] > 0 \/ peer'[q].dispatch = "stopped"

\* An eviction begins only for a peer that may be evicted.
EvictKept(q) ==
    \A k \in {"evict", "evictU"} :
        work'[q][k] > 0 => \/ work[q][k] > 0
                           \/ peer'[q].noticed
                           \/ Quiet(q)'
                           \/ ~Current(q)'

\* A peer leaves the map into a teardown, or with nothing left to tear down.
LeaveKept(q) ==
    (Current(q) /\ ~Current(q)') =>
        SureTeardown(q)' \/ peer'[q].noticed \/ Quiet(q)' \/ Inert(q)'

\* A teardown is over when the peer is quiet.
TeardownKept(q) == SureTeardown(q) => SureTeardown(q)' \/ Quiet(q)'

\* A step that creates neither a peer nor handler state and respects the
\* conditions keeps OwnerInv.
LEMMA OwnerStep ==
    ASSUME SInv, born' = born, MapShrinks, SessionShrinks, NoSetup,
           \A q \in PeerIds : LifeKept(q),
           \A q \in PeerIds : StopKept(q),
           \A q \in PeerIds : EvictKept(q),
           \A q \in PeerIds : LeaveKept(q),
           \A q \in PeerIds : TeardownKept(q)
    PROVE  OwnerInv'
<1>1. PeerHasDevice'
  BY DEF SInv, OwnerInv, PeerHasDevice, LifeKept
<1>2. SessionIsOwn'
  <2> SUFFICES ASSUME NEW d \in Devices, session'[d] # NoPeer
               PROVE  peer'[session'[d]].dev = d /\ peer'[session'[d]].auth = "ok"
    BY DEF SessionIsOwn
  <2>1. session'[d] = session[d] /\ session[d] \in PeerIds
    BY DEF SessionShrinks, SInv, IInv, TypeOK
  <2> QED
    BY <2>1 DEF SInv, OwnerInv, SessionIsOwn, LifeKept
<1>3. DispatchStopped'
  BY DEF SInv, OwnerInv, DispatchStopped, LifeKept, StopKept
<1>4. \A q \in PeerIds : Quiet(q) => Quiet(q)'
  BY DEF Quiet, SessionShrinks, LifeKept, PeerIds, NoPeer
<1>5. \A q \in PeerIds : Current(q)' => Current(q)
  BY DEF Current, MapShrinks, LifeKept, PeerIds, NoPeer
<1>6. EvictedIsQuiet'
  <2> SUFFICES ASSUME NEW q \in PeerIds, NEW k \in {"evict", "evictU"}, work'[q][k] > 0
               PROVE  peer'[q].noticed \/ Quiet(q)' \/ ~Current(q)'
    BY DEF EvictedIsQuiet
  <2>1. work[q][k] > 0 => peer[q].noticed \/ Quiet(q) \/ ~Current(q)
    BY DEF SInv, OwnerInv, EvictedIsQuiet
  <2>2. peer[q].noticed => peer'[q].noticed
    BY DEF LifeKept
  <2> QED
    BY <1>4, <1>5, <2>1, <2>2 DEF EvictKept
<1>7. CaredFor'
  <2> SUFFICES ASSUME NEW q \in PeerIds, q <= born
               PROVE  \/ Current(q)' \/ SureTeardown(q)' \/ peer'[q].noticed
                      \/ Quiet(q)' \/ Inert(q)'
    BY DEF CaredFor
  <2>1. Current(q) \/ SureTeardown(q) \/ peer[q].noticed \/ Quiet(q) \/ Inert(q)
    BY DEF SInv, OwnerInv, CaredFor
  <2>2. peer[q].noticed => peer'[q].noticed
    BY DEF LifeKept
  <2>3. Inert(q) => Inert(q)' \/ Current(q)
    BY DEF LifeKept
  <2> QED
    BY <1>4, <2>1, <2>2, <2>3 DEF LeaveKept, TeardownKept
<1>8. SetupIsFresh'
  <2> SUFFICES ASSUME loop'.pc = "setup"
               PROVE  Inert(loop.new)' /\ peers'[loop'.dev] \in {NoPeer, loop'.new}
    BY DEF SetupIsFresh
  <2>1. loop' = loop
    BY DEF NoSetup
  <2>2. loop.new \in PeerIds /\ loop.dev \in Devices
    BY <2>1 DEF SInv, IInv, LoopInv, LoopHasPeer, LoopServesDevice
  <2>3. Inert(loop.new) /\ peers[loop.dev] \in {NoPeer, loop.new}
    BY <2>1 DEF SInv, OwnerInv, SetupIsFresh
  <2>4. peer'[loop.new].auth = "none" /\ peer'[loop.new].conn \in {"new", "closed"}
    BY <2>1, <2>2, <2>3 DEF LifeKept, Inert
  <2> QED
    BY <2>1, <2>2, <2>3, <2>4 DEF MapShrinks, Inert
<1> QED
  BY <1>1, <1>2, <1>3, <1>6, <1>7, <1>8 DEF OwnerInv

-----------------------------------------------------------------------------
(* What a step of anything but closeAll must respect to keep WaitInv.       *)

\* A closed manager starts nothing its groups count; closeAll's goroutines are
\* started by closeAll only; and one of them ends with its peer closed.
WaitsKept(q) ==
    /\ \A k \in TeardownStages : work'[q][k] > 0 =>
          ~closed \/ \E j \in TeardownStages : work[q][j] > 0
    /\ \A k \in CleanupStages : work'[q][k] > 0 =>
          ~closed \/ \E j \in CleanupStages : work[q][j] > 0
    /\ (work'[q]["cstop"] > 0 \/ work'[q]["cnotify"] > 0) =>
          (work[q]["cstop"] > 0 \/ work[q]["cnotify"] > 0)
    /\ pclosed[q] = "done" => pclosed'[q] = "done"
    /\ \A k \in SnapStages : work[q][k] > 0 =>
          pclosed'[q] = "done" \/ \E j \in SnapStages : work'[q][j] > 0

\* A step that respects the conditions, whoever takes it, keeps WaitInv.
LEMMA WaitStep ==
    ASSUME SInv, UNCHANGED callerVars, \A q \in PeerIds : WaitsKept(q)
    PROVE  WaitInv'
<1>1. SnapshotAwaited'
  BY DEF SInv, WaitInv, SnapshotAwaited, WaitsKept, callerVars, Waiting
<1>2. (reload = "reopen" \/ stopper = "done") => closed
  BY DEF SInv, IInv, ManagerInv, WaitsOnlyWhileClosed
<1>3. GroupsStayZero'
  <2>1. (reload' = "reopen" \/ stopper' = "done") => ~Busy(TeardownStages)'
    BY <1>2 DEF SInv, WaitInv, GroupsStayZero, WaitsKept, callerVars, Busy
  <2>2. stopper' = "done" => ~Busy(CleanupStages)'
    BY <1>2 DEF SInv, WaitInv, GroupsStayZero, WaitsKept, callerVars, Busy
  <2> QED
    BY <2>1, <2>2 DEF GroupsStayZero
<1>4. SnapshotCloses'
  <2>1. snap["stopper"] \subseteq PeerIds
    BY DEF SInv, IInv, TypeOK, Callers
  <2> QED
    BY <2>1 DEF SInv, WaitInv, SnapshotCloses, WaitsKept, callerVars
<1> QED
  BY <1>1, <1>3, <1>4 DEF WaitInv

-----------------------------------------------------------------------------
(* Ordinary steps: no peer enters or leaves the map, no handler state        *)
(* changes, and the only goroutines started are those the manager may start.  *)

MayStart(q, k) ==
    \/ k = "closeU"
    \/ k \in {"stop", "close"} /\ ~closed
    \/ k = "evict" /\ ~closed /\ peer'[q].noticed
    \/ k = "evictU" /\ peer'[q].noticed

StartKept(q) ==
    \A k \in Stages : \/ work'[q][k] = work[q][k]
                      \/ work'[q][k] > work[q][k] /\ MayStart(q, k)

Ordinary ==
    /\ peers' = peers
    /\ born' = born
    /\ session' = session
    /\ pclosed' = pclosed
    /\ UNCHANGED callerVars
    /\ NoSetup
    /\ \A q \in PeerIds : LifeKept(q) /\ StartKept(q)

\* An ordinary step keeps both halves of the invariant.
LEMMA OrdinaryStep == ASSUME SInv, Ordinary PROVE OwnerInv' /\ WaitInv'
<1>1. ASSUME NEW q \in PeerIds PROVE \A k \in Stages : work[q][k] \in Nat
  BY DEF SInv, IInv, TypeOK, Works
<1>2. MapShrinks /\ SessionShrinks
  BY DEF Ordinary, MapShrinks, SessionShrinks
<1>3. ASSUME NEW q \in PeerIds PROVE StopKept(q)
  <2>1. \A k \in StoppedStages : k \in Stages /\ ~MayStart(q, k)
    BY DEF StoppedStages, Stages, MayStart
  <2> QED
    BY <2>1 DEF Ordinary, StartKept, StopKept
<1>4. ASSUME NEW q \in PeerIds PROVE EvictKept(q)
  <2>1. \A k \in {"evict", "evictU"} : k \in Stages /\ (MayStart(q, k) => peer'[q].noticed)
    BY DEF Stages, MayStart
  <2> QED
    BY <2>1 DEF Ordinary, StartKept, EvictKept
<1>5. ASSUME NEW q \in PeerIds PROVE LeaveKept(q)
  BY DEF LeaveKept, Current, Ordinary, LifeKept
<1>6. ASSUME NEW q \in PeerIds PROVE TeardownKept(q)
  <2>1. \A k \in SureStages : k \in Stages /\ ~MayStart(q, k)
    BY DEF SureStages, Stages, MayStart
  <2> QED
    BY <2>1 DEF Ordinary, StartKept, TeardownKept, SureTeardown
<1>7. OwnerInv'
  BY <1>2, <1>3, <1>4, <1>5, <1>6, OwnerStep DEF Ordinary
<1>8. ASSUME NEW q \in PeerIds PROVE WaitsKept(q)
  <2>1. \A k \in TeardownStages : k \in Stages /\ (MayStart(q, k) => ~closed)
    BY DEF TeardownStages, Stages, MayStart
  <2>2. \A k \in CleanupStages : k \in Stages /\ (MayStart(q, k) => ~closed)
    BY DEF CleanupStages, TeardownStages, Stages, MayStart
  <2>3. \A k \in SnapStages : k \in Stages /\ ~MayStart(q, k)
    BY DEF SnapStages, Stages, MayStart
  <2>4. \A k \in SnapStages : work'[q][k] = work[q][k]
    BY <2>3 DEF Ordinary, StartKept
  <2>5. \A k \in TeardownStages : work'[q][k] > 0 => ~closed \/ work[q][k] > 0
    BY <2>1 DEF Ordinary, StartKept
  <2>6. \A k \in CleanupStages : work'[q][k] > 0 => ~closed \/ work[q][k] > 0
    BY <2>2 DEF Ordinary, StartKept
  <2>7. "cstop" \in SnapStages /\ "cnotify" \in SnapStages
    BY DEF SnapStages
  <2> QED
    BY <2>4, <2>5, <2>6, <2>7 DEF WaitsKept, Ordinary
<1>9. WaitInv'
  BY <1>8, WaitStep DEF Ordinary
<1> QED
  BY <1>7, <1>9

-----------------------------------------------------------------------------
(* Which updates of a peer struct and of the goroutines are ordinary.        *)

\* What an update of a struct must respect.
Tame(r, s) ==
    /\ s.dev = r.dev
    /\ r.noticed => s.noticed
    /\ r.auth = "ok" => s.auth = "ok"
    /\ r.dispatch = "stopped" => s.dispatch = "stopped"
    /\ s.dispatch = "busy" => r.dispatch = "busy" \/ r.auth = "ok"

InertStruct(r) == r.auth = "none" /\ r.conn \in {"new", "closed"}

\* A tame update of one struct, which wakes no inert peer, keeps every life.
LEMMA SetPeerLife ==
    ASSUME SInv, NEW p \in PeerIds, NEW r, SetPeer(p, r), Tame(peer[p], r),
           InertStruct(peer[p]) => InertStruct(r) \/ (Current(p) /\ loop.pc = "idle")
    PROVE  \A q \in PeerIds : LifeKept(q)
<1>1. \A q \in PeerIds : peer'[q] = IF q = p THEN r ELSE peer[q]
  BY DEF SetPeer, SInv, IInv, TypeOK
<1> QED
  BY <1>1 DEF LifeKept, Tame, Inert, InertStruct

\* So does a step that leaves the structs alone.
LEMMA SamePeerLife == ASSUME peer' = peer PROVE \A q \in PeerIds : LifeKept(q)
BY DEF LifeKept, Inert

\* The updates that touch neither connection nor channel.
LEMMA TameFlags ==
    ASSUME NEW r \in PeerStruct, NEW o \in BOOLEAN, NEW b
    PROVE  /\ Tame(r, [r EXCEPT !.offer = o])
           /\ Tame(r, [r EXCEPT !.answerTimer = o])
           /\ Tame(r, [r EXCEPT !.offer = o, !.answerTimer = o])
           /\ Tame(r, [r EXCEPT !.noticed = TRUE])
           /\ Tame(r, [r EXCEPT !.cbs = b])
           /\ InertStruct(r) => /\ InertStruct([r EXCEPT !.offer = o])
                                /\ InertStruct([r EXCEPT !.answerTimer = o])
                                /\ InertStruct([r EXCEPT !.offer = o, !.answerTimer = o])
                                /\ InertStruct([r EXCEPT !.noticed = TRUE])
                                /\ InertStruct([r EXCEPT !.cbs = b])
BY DEF PeerStruct, Tame, InertStruct

\* A change of the connection state.
LEMMA TameConn ==
    ASSUME NEW r \in PeerStruct, NEW c, NEW b
    PROVE  /\ Tame(r, [r EXCEPT !.conn = c, !.cbs = b])
           /\ Tame(r, [r EXCEPT !.offer = FALSE, !.answerTimer = FALSE, !.conn = c])
           /\ c = "closed" /\ InertStruct(r) => InertStruct([r EXCEPT !.conn = c, !.cbs = b])
BY DEF PeerStruct, Tame, InertStruct

\* The steps of the handshake and of dispatch.
LEMMA TameChannel ==
    ASSUME NEW r \in PeerStruct, NEW u, NEW g
    PROVE  /\ r.auth # "ok" => Tame(r, [r EXCEPT !.auth = u])
           /\ r.auth = "ok" /\ r.dispatch = "idle" => Tame(r, [r EXCEPT !.dispatch = "busy"])
           /\ Tame(r, [r EXCEPT !.dispatch = "stopped"])
           /\ r.dispatch = "busy" => Tame(r, [r EXCEPT !.dispatch = "idle"])
           /\ InertStruct(r) => InertStruct([r EXCEPT !.dispatch = g])
BY DEF PeerStruct, Tame, InertStruct

\* Starting what may be started.
LEMMA SpawnStart ==
    ASSUME SInv, NEW p \in PeerIds, NEW k \in Stages, work' = Spawn(work, p, k),
           MayStart(p, k)
    PROVE  \A q \in PeerIds : StartKept(q)
<1> SUFFICES ASSUME NEW q \in PeerIds, NEW j \in Stages
             PROVE  work'[q][j] = work[q][j] \/ (work'[q][j] > work[q][j] /\ MayStart(q, j))
  BY DEF StartKept
<1>1. work'[q][j] = IF q = p /\ j = k THEN work[q][j] + 1 ELSE work[q][j]
  BY SpawnValue DEF SInv, IInv, TypeOK
<1>2. work[q][j] \in Nat
  BY DEF SInv, IInv, TypeOK, Works
<1>3. CASE q = p /\ j = k
  <2>1. work'[q][j] > work[q][j]
    BY <1>1, <1>2, <1>3
  <2>2. MayStart(q, j)
    BY <1>3
  <2> QED
    BY <2>1, <2>2
<1>4. CASE ~(q = p /\ j = k)
  <2>1. work'[q][j] = work[q][j]
    BY <1>1, <1>4
  <2> QED
    BY <2>1
<1> QED
  BY <1>3, <1>4

\* The background starts of the manager.
LEMMA GoStart ==
    ASSUME SInv, NEW p \in PeerIds
    PROVE  /\ work' = work => \A q \in PeerIds : StartKept(q)
           /\ work' = ScheduleCleanup(work, p) => \A q \in PeerIds : StartKept(q)
           /\ work' = CloseViaManager(work, p) => \A q \in PeerIds : StartKept(q)
           /\ work' = GoClose(work, p) => \A q \in PeerIds : StartKept(q)
           /\ work' = GoEvict(work, p) /\ peer'[p].noticed => \A q \in PeerIds : StartKept(q)
<1>1. work' = work => \A q \in PeerIds : StartKept(q)
  BY DEF StartKept
<1>2. \A k \in {"stop", "close"} :
        ~closed /\ work' = Spawn(work, p, k) => \A q \in PeerIds : StartKept(q)
  BY SpawnStart DEF Stages, MayStart
<1>3. work' = Spawn(work, p, "closeU") => \A q \in PeerIds : StartKept(q)
  BY SpawnStart DEF Stages, MayStart
<1>4. ~closed /\ work' = Spawn(work, p, "evict") /\ peer'[p].noticed =>
        \A q \in PeerIds : StartKept(q)
  BY SpawnStart DEF Stages, MayStart
<1>5. work' = Spawn(work, p, "evictU") /\ peer'[p].noticed => \A q \in PeerIds : StartKept(q)
  BY SpawnStart DEF Stages, MayStart
<1> QED
  BY <1>1, <1>2, <1>3, <1>4, <1>5 DEF ScheduleCleanup, CloseViaManager, GoClose, GoEvict

\* A step that leaves the goroutines alone.
LEMMA SameWork == ASSUME work' = work PROVE \A q \in PeerIds : StartKept(q)
BY DEF StartKept

\* The struct of a peer has its type.
LEMMA StructOf == ASSUME SInv, NEW p \in PeerIds PROVE peer[p] \in PeerStruct
BY DEF SInv, IInv, TypeOK

\* The ordinary steps of the read loop.
OrdinaryReadLoop ==
    \/ \E d \in Devices, a \in Attempts \cup {NoAttempt} :
          \/ ConnectRequest(d, a)
          \/ \E ok \in BOOLEAN : SDPAnswer(d, a, ok)
          \/ PeerUnavailable(d, a)
    \/ SecretUnavailable
    \/ CheckLimit
    \/ OldTornDown
    \/ CreateFails
    \/ SetupCloseReturns
    \/ OfferSent
    \/ NoticeIgnored
    \/ NoticeChecked
    \/ NoticeCloses

\* A request's steps outside the map, an answer and a notice.
LEMMA ReadLoopOrdinary == ASSUME SInv, OrdinaryReadLoop PROVE OwnerInv' /\ WaitInv'
<1>1. ASSUME NEW d \in Devices, NEW a \in Attempts \cup {NoAttempt}, ConnectRequest(d, a)
      PROVE  Ordinary
  <2>1. \A q \in PeerIds : LifeKept(q)
    BY <1>1, SamePeerLife DEF ConnectRequest
  <2>2. \A q \in PeerIds : StartKept(q)
    BY <1>1, SameWork DEF ConnectRequest
  <2> QED
    BY <1>1, <2>1, <2>2
       DEF ConnectRequest, Ordinary, NoSetup, pmVars, callerVars, timerVars, LoopIdle
<1>2. ASSUME NEW d \in Devices, NEW a \in Attempts \cup {NoAttempt}, NEW ok \in BOOLEAN,
             SDPAnswer(d, a, ok)
      PROVE  Ordinary
  <2>1. peers[d] \in PeerIds /\ Current(peers[d]) /\ peers[d] <= born
    BY <1>2, TrackedIsBorn DEF SDPAnswer, SInv, IInv, PeerInv, TrackedIsOwn, Current
  <2>2. \A q \in PeerIds : LifeKept(q)
    BY <1>2, <2>1, StructOf, SetPeerLife, SamePeerLife, TameConn
       DEF SDPAnswer
  <2>3. \A q \in PeerIds : StartKept(q)
    BY <1>2, <2>1, GoStart DEF SDPAnswer
  <2> QED
    BY <1>2, <2>2, <2>3 DEF SDPAnswer, Ordinary, NoSetup, pmVars, callerVars, timerVars
<1>3. ASSUME NEW d \in Devices, NEW a \in Attempts \cup {NoAttempt}, PeerUnavailable(d, a)
      PROVE  Ordinary
  <2>1. \A q \in PeerIds : LifeKept(q)
    BY <1>3, SamePeerLife DEF PeerUnavailable
  <2>2. \A q \in PeerIds : StartKept(q)
    BY <1>3, SameWork DEF PeerUnavailable
  <2> QED
    BY <1>3, <2>1, <2>2
       DEF PeerUnavailable, Ordinary, NoSetup, pmVars, callerVars, timerVars, LoopIdle
<1>4. ASSUME SecretUnavailable PROVE Ordinary
  <2>1. \A q \in PeerIds : LifeKept(q)
    BY <1>4, SamePeerLife DEF SecretUnavailable
  <2>2. \A q \in PeerIds : StartKept(q)
    BY <1>4, SameWork DEF SecretUnavailable
  <2> QED
    BY <1>4, <2>1, <2>2
       DEF SecretUnavailable, Ordinary, NoSetup, pmVars, callerVars, timerVars, LoopIdle
<1>5. ASSUME CheckLimit PROVE Ordinary
  <2>1. \A q \in PeerIds : LifeKept(q)
    BY <1>5, SamePeerLife DEF CheckLimit
  <2>2. \A q \in PeerIds : StartKept(q)
    BY <1>5, SameWork DEF CheckLimit
  <2> QED
    BY <1>5, <2>1, <2>2
       DEF CheckLimit, Ordinary, NoSetup, pmVars, callerVars, timerVars, LoopIdle,
           SInv, IInv, TypeOK, LoopStruct
<1>6. ASSUME OldTornDown PROVE Ordinary
  <2>1. \A q \in PeerIds : LifeKept(q)
    BY <1>6, SamePeerLife DEF OldTornDown
  <2>2. \A q \in PeerIds : StartKept(q)
    BY <1>6, GoStart DEF OldTornDown, SInv, IInv, LoopInv, LoopOldIsGone
  <2> QED
    BY <1>6, <2>1, <2>2
       DEF OldTornDown, Ordinary, NoSetup, pmVars, callerVars, timerVars,
           SInv, IInv, TypeOK, LoopStruct
<1>7. ASSUME CreateFails PROVE Ordinary
  <2>1. \A q \in PeerIds : LifeKept(q)
    BY <1>7, SamePeerLife DEF CreateFails
  <2>2. \A q \in PeerIds : StartKept(q)
    BY <1>7, SameWork DEF CreateFails
  <2> QED
    BY <1>7, <2>1, <2>2
       DEF CreateFails, Ordinary, NoSetup, pmVars, callerVars, timerVars, LoopIdle
<1>8. ASSUME SetupCloseReturns PROVE Ordinary
  <2>1. \A q \in PeerIds : LifeKept(q)
    BY <1>8, SamePeerLife DEF SetupCloseReturns
  <2>2. \A q \in PeerIds : StartKept(q)
    BY <1>8, SameWork DEF SetupCloseReturns
  <2> QED
    BY <1>8, <2>1, <2>2
       DEF SetupCloseReturns, Ordinary, NoSetup, pmVars, callerVars, timerVars, LoopIdle
<1>9. ASSUME OfferSent PROVE Ordinary
  <2>1. loop.new \in PeerIds
    BY <1>9 DEF OfferSent, SInv, IInv, LoopInv, LoopHasPeer
  <2>2. \A q \in PeerIds : LifeKept(q)
    BY <1>9, <2>1, StructOf, SetPeerLife, TameFlags DEF OfferSent
  <2>3. \A q \in PeerIds : StartKept(q)
    BY <1>9, <2>1, SameWork DEF OfferSent
  <2> QED
    BY <1>9, <2>2, <2>3
       DEF OfferSent, Ordinary, NoSetup, pmVars, callerVars, timerVars, LoopIdle
<1>10. ASSUME NoticeIgnored PROVE Ordinary
  <2>1. \A q \in PeerIds : LifeKept(q)
    BY <1>10, SamePeerLife DEF NoticeIgnored
  <2>2. \A q \in PeerIds : StartKept(q)
    BY <1>10, SameWork DEF NoticeIgnored
  <2> QED
    BY <1>10, <2>1, <2>2
       DEF NoticeIgnored, Ordinary, NoSetup, pmVars, callerVars, timerVars, LoopIdle
<1>11. ASSUME NoticeChecked PROVE Ordinary
  <2>1. \A q \in PeerIds : LifeKept(q)
    BY <1>11, SamePeerLife DEF NoticeChecked
  <2>2. \A q \in PeerIds : StartKept(q)
    BY <1>11, SameWork DEF NoticeChecked
  <2> QED
    BY <1>11, <2>1, <2>2
       DEF NoticeChecked, Ordinary, NoSetup, pmVars, callerVars, timerVars,
           SInv, IInv, TypeOK, LoopStruct
<1>12. ASSUME NoticeCloses PROVE Ordinary
  <2>1. loop.new \in PeerIds /\ loop.new <= born
    BY <1>12 DEF NoticeCloses, SInv, IInv, LoopInv, LoopHasPeer
  <2>2. \A q \in PeerIds : LifeKept(q)
    BY <1>12, <2>1, StructOf, SetPeerLife, TameFlags DEF NoticeCloses
  <2>3. \A q \in PeerIds : StartKept(q)
    BY <1>12, <2>1, GoStart, StructOf
       DEF NoticeCloses, SetPeer, PeerStruct, SInv, IInv, TypeOK
  <2> QED
    BY <1>12, <2>2, <2>3
       DEF NoticeCloses, Ordinary, NoSetup, pmVars, callerVars, timerVars, LoopIdle
<1> QED
  BY <1>1, <1>2, <1>3, <1>4, <1>5, <1>6, <1>7, <1>8, <1>9, <1>10, <1>11, <1>12,
     OrdinaryStep DEF OrdinaryReadLoop

\* The steps of pion and the mobile.
LEMMA PionOrdinary == ASSUME SInv, Pion PROVE OwnerInv' /\ WaitInv'
<1>1. ASSUME NEW p \in PeerIds, ConnUp(p) PROVE Ordinary
  <2>1. \A q \in PeerIds : LifeKept(q)
    BY <1>1, StructOf, SetPeerLife, TameConn DEF ConnUp, ConnChange, InertStruct
  <2>2. \A q \in PeerIds : StartKept(q)
    BY <1>1, SameWork DEF ConnUp
  <2> QED
    BY <1>1, <2>1, <2>2 DEF ConnUp, Ordinary, NoSetup, pmVars, callerVars, timerVars
<1>2. ASSUME NEW p \in PeerIds, ConnLost(p) PROVE Ordinary
  <2>1. \A q \in PeerIds : LifeKept(q)
    BY <1>2, StructOf, SetPeerLife, TameConn DEF ConnLost, ConnChange, InertStruct
  <2>2. \A q \in PeerIds : StartKept(q)
    BY <1>2, SameWork DEF ConnLost
  <2> QED
    BY <1>2, <2>1, <2>2 DEF ConnLost, Ordinary, NoSetup, pmVars, callerVars, timerVars
<1>3. ASSUME NEW p \in PeerIds, ConnFailed(p) PROVE Ordinary
  <2>1. \A q \in PeerIds : LifeKept(q)
    BY <1>3, StructOf, SetPeerLife, TameConn DEF ConnFailed, ConnChange, InertStruct
  <2>2. \A q \in PeerIds : StartKept(q)
    BY <1>3, SameWork DEF ConnFailed
  <2> QED
    BY <1>3, <2>1, <2>2 DEF ConnFailed, Ordinary, NoSetup, pmVars, callerVars, timerVars
<1>4. ASSUME NEW p \in PeerIds, ChannelOpens(p) PROVE Ordinary
  <2>1. \A q \in PeerIds : LifeKept(q)
    BY <1>4, StructOf, SetPeerLife, TameChannel DEF ChannelOpens, InertStruct
  <2>2. \A q \in PeerIds : StartKept(q)
    BY <1>4, SameWork DEF ChannelOpens
  <2> QED
    BY <1>4, <2>1, <2>2 DEF ChannelOpens, Ordinary, NoSetup, pmVars, callerVars, timerVars
<1>5. ASSUME NEW p \in PeerIds, AuthSucceeds(p) PROVE Ordinary
  <2>1. \A q \in PeerIds : LifeKept(q)
    BY <1>5, StructOf, SetPeerLife, TameChannel DEF AuthSucceeds, InertStruct
  <2>2. \A q \in PeerIds : StartKept(q)
    BY <1>5, SameWork DEF AuthSucceeds
  <2> QED
    BY <1>5, <2>1, <2>2 DEF AuthSucceeds, Ordinary, NoSetup, pmVars, callerVars, timerVars
<1>6. ASSUME NEW p \in PeerIds, RequestBegins(p) PROVE Ordinary
  <2>1. \A q \in PeerIds : LifeKept(q)
    BY <1>6, StructOf, SetPeerLife, TameChannel DEF RequestBegins
  <2>2. \A q \in PeerIds : StartKept(q)
    BY <1>6, SameWork DEF RequestBegins
  <2> QED
    BY <1>6, <2>1, <2>2 DEF RequestBegins, Ordinary, NoSetup, pmVars, callerVars, timerVars
<1> QED
  BY <1>1, <1>2, <1>3, <1>4, <1>5, <1>6, OrdinaryStep DEF Pion

\* The callbacks that do not end a request.
OrdinaryCallback ==
    \E p \in PeerIds :
        \/ \E s \in {"failed", "closed"} : OnFailedOrClosed(p, s)
        \/ OnConnected(p)
        \/ OnDisconnected(p)
        \/ AuthFails(p)
        \/ AnswerTimeout(p)

\* Callbacks, the auth timeout and the answer watchdog.
LEMMA CallbackOrdinary == ASSUME SInv, OrdinaryCallback PROVE OwnerInv' /\ WaitInv'
<1>1. ASSUME NEW p \in PeerIds, NEW s \in {"failed", "closed"}, OnFailedOrClosed(p, s)
      PROVE  Ordinary
  <2>1. \A q \in PeerIds : LifeKept(q)
    BY <1>1, StructOf, SetPeerLife, TameFlags DEF OnFailedOrClosed, CallbackDone
  <2>2. \A q \in PeerIds : StartKept(q)
    BY <1>1, GoStart DEF OnFailedOrClosed
  <2> QED
    BY <1>1, <2>1, <2>2 DEF OnFailedOrClosed, Ordinary, NoSetup, pmVars, callerVars, timerVars
<1>2. ASSUME NEW p \in PeerIds, OnConnected(p) PROVE Ordinary
  <2>1. \A q \in PeerIds : LifeKept(q)
    BY <1>2, StructOf, SetPeerLife, TameFlags DEF OnConnected, CallbackDone
  <2>2. \A q \in PeerIds : StartKept(q)
    BY <1>2, SameWork DEF OnConnected
  <2> QED
    BY <1>2, <2>1, <2>2 DEF OnConnected, Ordinary, NoSetup, pmVars, callerVars, timerVars
<1>3. ASSUME NEW p \in PeerIds, OnDisconnected(p) PROVE Ordinary
  <2>1. \A q \in PeerIds : LifeKept(q)
    BY <1>3, StructOf, SetPeerLife, TameFlags DEF OnDisconnected, CallbackDone
  <2>2. \A q \in PeerIds : StartKept(q)
    BY <1>3, SameWork DEF OnDisconnected
  <2> QED
    BY <1>3, <2>1, <2>2 DEF OnDisconnected, Ordinary, NoSetup, pmVars, callerVars, timerVars
<1>4. ASSUME NEW p \in PeerIds, AuthFails(p) PROVE Ordinary
  <2>1. \A q \in PeerIds : LifeKept(q)
    BY <1>4, StructOf, SetPeerLife, TameChannel DEF AuthFails, InertStruct
  <2>2. \A q \in PeerIds : StartKept(q)
    BY <1>4, GoStart DEF AuthFails
  <2> QED
    BY <1>4, <2>1, <2>2 DEF AuthFails, Ordinary, NoSetup, pmVars, callerVars, timerVars
<1>5. ASSUME NEW p \in PeerIds, AnswerTimeout(p) PROVE Ordinary
  <2>1. \A q \in PeerIds : LifeKept(q)
    BY <1>5, StructOf, SetPeerLife, TameFlags DEF AnswerTimeout
  <2>2. \A q \in PeerIds : StartKept(q)
    BY <1>5, GoStart DEF AnswerTimeout
  <2> QED
    BY <1>5, <2>1, <2>2 DEF AnswerTimeout, Ordinary, NoSetup, pmVars, callerVars, timerVars
<1> QED
  BY <1>1, <1>2, <1>3, <1>4, <1>5, OrdinaryStep DEF OrdinaryCallback

\* The grace timer, the ICE restart and its watchdog.
LEMMA TimersOrdinary == ASSUME SInv, Timers PROVE OwnerInv' /\ WaitInv'
<1>1. ASSUME NEW d \in Devices, GraceExpires(d) PROVE Ordinary
  <2>1. \A q \in PeerIds : LifeKept(q)
    BY <1>1, SamePeerLife DEF GraceExpires
  <2>2. \A q \in PeerIds : StartKept(q)
    BY <1>1, SameWork DEF GraceExpires
  <2> QED
    BY <1>1, <2>1, <2>2 DEF GraceExpires, Ordinary, NoSetup, pmVars, callerVars, timerVars
<1>2. ASSUME NEW d \in Devices, GraceLookup(d) PROVE Ordinary
  <2>1. \A q \in PeerIds : LifeKept(q)
    BY <1>2, SamePeerLife DEF GraceLookup
  <2>2. \A q \in PeerIds : StartKept(q)
    BY <1>2, SameWork DEF GraceLookup
  <2> QED
    BY <1>2, <2>1, <2>2 DEF GraceLookup, Ordinary, NoSetup, pmVars, callerVars, timerVars
<1>3. ASSUME NEW d \in Devices, GraceRecovered(d) PROVE Ordinary
  <2>1. \A q \in PeerIds : LifeKept(q)
    BY <1>3, SamePeerLife DEF GraceRecovered
  <2>2. \A q \in PeerIds : StartKept(q)
    BY <1>3, SameWork DEF GraceRecovered
  <2> QED
    BY <1>3, <2>1, <2>2 DEF GraceRecovered, Ordinary, NoSetup, pmVars, callerVars, timerVars
<1>4. ASSUME NEW d \in Devices, GraceEarly(d) PROVE Ordinary
  <2>1. \A q \in PeerIds : LifeKept(q)
    BY <1>4, SamePeerLife DEF GraceEarly
  <2>2. \A q \in PeerIds : StartKept(q)
    BY <1>4, SameWork DEF GraceEarly
  <2> QED
    BY <1>4, <2>1, <2>2 DEF GraceEarly, Ordinary, NoSetup, pmVars, callerVars, timerVars
<1>5. ASSUME NEW d \in Devices, RestartBegins(d) PROVE Ordinary
  <2>1. \A q \in PeerIds : LifeKept(q)
    BY <1>5, SamePeerLife DEF RestartBegins
  <2>2. \A q \in PeerIds : StartKept(q)
    BY <1>5, SameWork DEF RestartBegins
  <2> QED
    BY <1>5, <2>1, <2>2 DEF RestartBegins, Ordinary, NoSetup, pmVars, callerVars, timerVars
<1>6. ASSUME NEW d \in Devices, RestartFails(d) PROVE Ordinary
  <2>1. timer[d].peer \in PeerIds
    BY <1>6 DEF RestartFails, SInv, IInv, PeerInv, TimerHoldsPeer
  <2>2. \A q \in PeerIds : LifeKept(q)
    BY <1>6, <2>1, SamePeerLife DEF RestartFails
  <2>3. \A q \in PeerIds : StartKept(q)
    BY <1>6, <2>1, GoStart DEF RestartFails
  <2> QED
    BY <1>6, <2>2, <2>3 DEF RestartFails, Ordinary, NoSetup, pmVars, callerVars, timerVars
<1>7. ASSUME NEW d \in Devices, RestartOffered(d) PROVE Ordinary
  <2>1. timer[d].peer \in PeerIds
    BY <1>7 DEF RestartOffered, SInv, IInv, PeerInv, TimerHoldsPeer
  <2>2. \A q \in PeerIds : LifeKept(q)
    BY <1>7, <2>1, StructOf, SetPeerLife, TameFlags DEF RestartOffered
  <2>3. \A q \in PeerIds : StartKept(q)
    BY <1>7, <2>1, SameWork DEF RestartOffered
  <2> QED
    BY <1>7, <2>2, <2>3 DEF RestartOffered, Ordinary, NoSetup, pmVars, callerVars, timerVars
<1>8. ASSUME NEW d \in Devices, ArmWatchdog(d) PROVE Ordinary
  <2>1. \A q \in PeerIds : LifeKept(q)
    BY <1>8, SamePeerLife DEF ArmWatchdog
  <2>2. \A q \in PeerIds : StartKept(q)
    BY <1>8, SameWork DEF ArmWatchdog
  <2> QED
    BY <1>8, <2>1, <2>2 DEF ArmWatchdog, Ordinary, NoSetup, pmVars, callerVars, timerVars
<1>9. ASSUME NEW d \in Devices, WatchdogExpires(d) PROVE Ordinary
  <2>1. \A q \in PeerIds : LifeKept(q)
    BY <1>9, SamePeerLife DEF WatchdogExpires
  <2>2. \A q \in PeerIds : StartKept(q)
    BY <1>9, SameWork DEF WatchdogExpires
  <2> QED
    BY <1>9, <2>1, <2>2 DEF WatchdogExpires, Ordinary, NoSetup, pmVars, callerVars, timerVars
<1>10. ASSUME NEW p \in PeerIds, WatchdogRuns(p) PROVE Ordinary
  <2>1. \A q \in PeerIds : LifeKept(q)
    BY <1>10, SamePeerLife DEF WatchdogRuns
  <2>2. \A q \in PeerIds : StartKept(q)
    BY <1>10, GoStart DEF WatchdogRuns
  <2> QED
    BY <1>10, <2>1, <2>2 DEF WatchdogRuns, Ordinary, NoSetup, pmVars, callerVars, timerVars
<1> QED
  BY <1>1, <1>2, <1>3, <1>4, <1>5, <1>6, <1>7, <1>8, <1>9, <1>10, OrdinaryStep DEF Timers

\* The sweep while it only looks.
OrdinarySweep == \E d \in Devices : SweepTracked(d) \/ SweepUntracked(d)

\* The idle sweep up to its PeerDisconnected call.
LEMMA SweepOrdinary == ASSUME SInv, OrdinarySweep PROVE OwnerInv' /\ WaitInv'
<1>1. ASSUME NEW d \in Devices, SweepTracked(d) PROVE Ordinary
  <2>1. \A q \in PeerIds : LifeKept(q)
    BY <1>1, SamePeerLife DEF SweepTracked
  <2>2. \A q \in PeerIds : StartKept(q)
    BY <1>1, GoStart DEF SweepTracked, SInv, IInv, TypeOK
  <2> QED
    BY <1>1, <2>1, <2>2 DEF SweepTracked, Ordinary, NoSetup, pmVars, callerVars, timerVars
<1>2. ASSUME NEW d \in Devices, SweepUntracked(d) PROVE Ordinary
  <2>1. \A q \in PeerIds : LifeKept(q)
    BY <1>2, SamePeerLife DEF SweepUntracked
  <2>2. \A q \in PeerIds : StartKept(q)
    BY <1>2, SameWork DEF SweepUntracked
  <2> QED
    BY <1>2, <2>1, <2>2 DEF SweepUntracked, Ordinary, NoSetup, pmVars, callerVars, timerVars
<1> QED
  BY <1>1, <1>2, OrdinaryStep DEF OrdinarySweep

-----------------------------------------------------------------------------
(* The background goroutines.                                               *)

\* A goroutine of p goes from stage k to stage n.
LEMMA MoveValue ==
    ASSUME SInv, NEW p \in PeerIds, NEW k \in Stages, NEW n \in Stages, k # n,
           work[p][k] > 0, work' = Move(work, p, k, n),
           NEW q \in PeerIds, NEW j \in Stages
    PROVE  work'[q][j] = IF q = p /\ j = k THEN work[q][j] - 1
                         ELSE IF q = p /\ j = n THEN work[q][j] + 1 ELSE work[q][j]
<1>1. work \in Works
  BY DEF SInv, IInv, TypeOK
<1>2. Finish(work, p, k) \in Works
  BY <1>1, FinishType
<1>3. work'[q][j] = IF q = p /\ j = n THEN Finish(work, p, k)[q][j] + 1
                    ELSE Finish(work, p, k)[q][j]
  BY <1>2, SpawnValue DEF Move
<1> QED
  BY <1>1, <1>3, FinishValue

\* The counts are natural numbers.
LEMMA CountType ==
    ASSUME SInv, NEW q \in PeerIds, NEW j \in Stages
    PROVE  work[q][j] \in Nat
BY DEF SInv, IInv, TypeOK, Works

\* Every group of stages is one.
LEMMA StageSets ==
    /\ SureStages \subseteq Stages
    /\ StoppedStages \subseteq Stages
    /\ SnapStages \subseteq Stages
    /\ TeardownStages \subseteq Stages
    /\ CleanupStages \subseteq Stages
    /\ CloseStages \subseteq Stages
BY
   DEF SureStages, StoppedStages, SnapStages, TeardownStages, CleanupStages, CloseStages, Stages

\* What the move of a goroutine needs for the waits: it stays in its group unless
\* it goes past it, and one of closeAll's goes on as one.
LEMMA MoveWaits ==
    ASSUME SInv, NEW p \in PeerIds, NEW k \in Stages, NEW n \in Stages, k # n,
           work[p][k] > 0, work' = Move(work, p, k, n), pclosed' = pclosed,
           n \in TeardownStages => k \in TeardownStages,
           n \in CleanupStages => k \in CleanupStages,
           n \in {"cstop", "cnotify"} => k \in {"cstop", "cnotify"},
           k \in SnapStages => n \in SnapStages
    PROVE  \A q \in PeerIds : WaitsKept(q)
<1> SUFFICES ASSUME NEW q \in PeerIds PROVE WaitsKept(q)
  OBVIOUS
<1>1. \A j \in Stages : work[q][j] \in Nat
  BY CountType
<1>2. \A j \in Stages : j # n /\ work'[q][j] > 0 => work[q][j] > 0
  BY <1>1, MoveValue
<1>3. q # p => \A j \in Stages : work'[q][j] = work[q][j]
  BY MoveValue
<1>4. \A j \in Stages : j # k /\ work[q][j] > 0 => work'[q][j] > 0
  BY <1>1, MoveValue
<1>5. work'[p][n] > 0
  BY MoveValue, CountType
<1>6. \A j \in TeardownStages : work'[q][j] > 0 => \E i \in TeardownStages : work[q][i] > 0
  BY <1>2, <1>3, StageSets
<1>7. \A j \in CleanupStages : work'[q][j] > 0 => \E i \in CleanupStages : work[q][i] > 0
  BY <1>2, <1>3, StageSets
<1>8. \A j \in {"cstop", "cnotify"} : work'[q][j] > 0 =>
          \E i \in {"cstop", "cnotify"} : work[q][i] > 0
  BY <1>2, <1>3 DEF Stages
<1>9. \A j \in SnapStages : work[q][j] > 0 => \E i \in SnapStages : work'[q][i] > 0
  BY <1>3, <1>4, <1>5, StageSets
<1> QED
  BY <1>6, <1>7, <1>8, <1>9 DEF WaitsKept

\* What the move of a goroutine needs for the owners.
LEMMA MoveOwner ==
    ASSUME SInv, NEW p \in PeerIds, NEW k \in Stages, NEW n \in Stages, k # n,
           work[p][k] > 0, work' = Move(work, p, k, n),
           n \in StoppedStages => peer'[p].dispatch = "stopped",
           n \in {"evict", "evictU"} => peer'[p].noticed \/ Quiet(p)' \/ ~Current(p)',
           k \in SureStages => n \in SureStages \/ Quiet(p)'
    PROVE  \A q \in PeerIds : StopKept(q) /\ EvictKept(q) /\ TeardownKept(q)
<1> SUFFICES ASSUME NEW q \in PeerIds PROVE StopKept(q) /\ EvictKept(q) /\ TeardownKept(q)
  OBVIOUS
<1>1. \A j \in Stages : work[q][j] \in Nat
  BY CountType
<1>2. \A j \in Stages : (q # p \/ j # n) /\ work'[q][j] > 0 => work[q][j] > 0
  BY <1>1, MoveValue
<1>3. \A j \in Stages : (q # p \/ j # k) /\ work[q][j] > 0 => work'[q][j] > 0
  BY <1>1, MoveValue
<1>4. work'[p][n] > 0
  BY MoveValue, CountType
<1>5. StopKept(q)
  BY <1>2, StageSets DEF StopKept
<1>6. EvictKept(q)
  BY <1>2 DEF EvictKept, Stages
<1>7. TeardownKept(q)
  BY <1>3, <1>4, StageSets DEF TeardownKept, SureTeardown
<1> QED
  BY <1>5, <1>6, <1>7

\* A step that leaves map and structs alone takes no peer out of the map.
LEMMA SameMap ==
    ASSUME peers' = peers, \A q \in PeerIds : LifeKept(q)
    PROVE  MapShrinks /\ \A q \in PeerIds : LeaveKept(q)
BY DEF MapShrinks, LeaveKept, Current, LifeKept

\* The last step of a goroutine lemma: map and callers untouched.
GoroutineFrame ==
    /\ peers' = peers
    /\ born' = born
    /\ UNCHANGED callerVars
    /\ loop' = loop

\* A step of a goroutine that meets the conditions keeps both halves.
LEMMA GoroutineStep ==
    ASSUME SInv, GoroutineFrame, SessionShrinks,
           \A q \in PeerIds : LifeKept(q),
           \A q \in PeerIds : StopKept(q) /\ EvictKept(q) /\ TeardownKept(q),
           \A q \in PeerIds : WaitsKept(q)
    PROVE  OwnerInv' /\ WaitInv'
<1>1. MapShrinks /\ \A q \in PeerIds : LeaveKept(q)
  BY SameMap DEF GoroutineFrame
<1>2. OwnerInv'
  BY <1>1, OwnerStep DEF GoroutineFrame, NoSetup
<1>3. WaitInv'
  BY WaitStep DEF GoroutineFrame
<1> QED
  BY <1>2, <1>3

\* stopDispatch returns.
LEMMA StopDispatchOwner ==
    ASSUME SInv, NEW p \in PeerIds, NEW k \in {"stop", "rstop", "cstop"}, StopDispatch(p, k)
    PROVE  OwnerInv' /\ WaitInv'
<1> DEFINE n == AfterStop(k)
<1>1. /\ k \in Stages /\ n \in StoppedStages /\ n \in Stages /\ k # n
      /\ n \notin {"evict", "evictU"}
      /\ k \in SureStages => n \in SureStages
      /\ n \in TeardownStages => k \in TeardownStages
      /\ n \in CleanupStages => k \in CleanupStages
      /\ n \in {"cstop", "cnotify"} => k \in {"cstop", "cnotify"}
      /\ k \in SnapStages => n \in SnapStages
  BY
     DEF AfterStop, Stages, StoppedStages, SureStages, TeardownStages, CleanupStages, SnapStages
<1> HIDE DEF n
<1>2. work[p][k] > 0 /\ work' = Move(work, p, k, n) /\ GoroutineFrame
      /\ pclosed' = pclosed /\ session' = session
  BY DEF StopDispatch, GoroutineFrame, n
<1>3. \A q \in PeerIds : LifeKept(q)
  BY StructOf, SetPeerLife, TameChannel DEF StopDispatch
<1>4. peer'[p].dispatch = "stopped"
  BY StructOf DEF StopDispatch, SetPeer, SInv, IInv, TypeOK, PeerStruct
<1>5. \A q \in PeerIds : StopKept(q) /\ EvictKept(q) /\ TeardownKept(q)
  BY <1>1, <1>2, <1>4, MoveOwner
<1>6. \A q \in PeerIds : WaitsKept(q)
  BY <1>1, <1>2, MoveWaits
<1> QED
  BY <1>2, <1>3, <1>5, <1>6, GoroutineStep DEF SessionShrinks

\* teardownIfCurrent's identity check.
LEMMA CheckCurrentOwner ==
    ASSUME SInv, NEW p \in PeerIds, CheckCurrent(p)
    PROVE  OwnerInv' /\ WaitInv'
<1> DEFINE n == IF Current(p) THEN "notify" ELSE "evict"
<1>1. work[p]["check"] > 0 /\ work' = Move(work, p, "check", n) /\ GoroutineFrame
      /\ pclosed' = pclosed /\ session' = session /\ peer' = peer /\ peers' = peers
  BY DEF CheckCurrent, GoroutineFrame
<1>2. /\ "check" \in Stages /\ n \in Stages /\ n # "check" /\ n \notin SnapStages
      /\ "check" \in CleanupStages /\ "check" \in TeardownStages
      /\ "check" \notin SureStages /\ "check" \notin SnapStages
  BY DEF Stages, SnapStages, CleanupStages, TeardownStages, SureStages
<1>3. n = "evict" => ~Current(p)'
  BY <1>1 DEF Current
<1>4. n # "evictU" /\ (n = "evict" \/ n = "notify")
  OBVIOUS
<1>5. peer'[p].dispatch = "stopped"
  BY <1>1 DEF SInv, OwnerInv, DispatchStopped, StoppedStages
<1> HIDE DEF n
<1>6. \A q \in PeerIds : LifeKept(q)
  BY <1>1, SamePeerLife
<1>7. \A q \in PeerIds : StopKept(q) /\ EvictKept(q) /\ TeardownKept(q)
  BY <1>1, <1>2, <1>3, <1>4, <1>5, MoveOwner
<1>8. \A q \in PeerIds : WaitsKept(q)
  BY <1>1, <1>2, <1>4, MoveWaits
<1> QED
  BY <1>1, <1>6, <1>7, <1>8, GoroutineStep DEF SessionShrinks

\* OnPeerDisconnect, once dispatch has stopped, leaves the peer quiet.
LEMMA DropIsQuiet ==
    ASSUME SInv, NEW p \in PeerIds, NEW k \in StoppedStages, work[p][k] > 0,
           DropSession(peer[p].dev), peer' = peer
    PROVE  Quiet(p)' /\ SessionShrinks
<1>1. peer[p].dispatch = "stopped"
  BY DEF SInv, OwnerInv, DispatchStopped
<1>2. p <= born
  BY WorkedOnIsBorn, StageSets DEF SInv
<1>3. peer[p].dev \in Devices
  BY <1>2 DEF SInv, OwnerInv, PeerHasDevice
<1>4. \A d \in Devices : session'[d] = IF d = peer[p].dev THEN NoPeer ELSE session[d]
  BY <1>3 DEF DropSession, SInv, IInv, TypeOK
<1>5. p # NoPeer
  BY DEF PeerIds, NoPeer
<1>6. \A d \in Devices : session'[d] # p
  BY <1>4, <1>5 DEF SInv, OwnerInv, SessionIsOwn
<1> QED
  BY <1>1, <1>4, <1>6 DEF Quiet, SessionShrinks

\* The disconnect handler of scheduleCleanup.
LEMMA NotifyOwner ==
    ASSUME SInv, NEW p \in PeerIds, Notify(p)
    PROVE  OwnerInv' /\ WaitInv'
<1>1. work[p]["notify"] > 0 /\ work' = Move(work, p, "notify", "evict") /\ GoroutineFrame
      /\ pclosed' = pclosed /\ DropSession(peer[p].dev) /\ peer' = peer
  BY DEF Notify, GoroutineFrame
<1>2. /\ "notify" \in Stages /\ "evict" \in Stages
      /\ "notify" \in StoppedStages /\ "evict" \notin StoppedStages
      /\ "evict" \in TeardownStages => "notify" \in TeardownStages
      /\ "evict" \in CleanupStages => "notify" \in CleanupStages
      /\ "notify" \in SnapStages => "evict" \in SnapStages
  BY DEF Stages, StoppedStages, SnapStages, CleanupStages, TeardownStages
<1>3. Quiet(p)' /\ SessionShrinks
  BY <1>1, <1>2, DropIsQuiet
<1>4. \A q \in PeerIds : LifeKept(q)
  BY <1>1, SamePeerLife
<1>5. \A q \in PeerIds : StopKept(q) /\ EvictKept(q) /\ TeardownKept(q)
  BY <1>1, <1>2, <1>3, MoveOwner
<1>6. \A q \in PeerIds : WaitsKept(q)
  BY <1>1, <1>2, MoveWaits
<1> QED
  BY <1>1, <1>3, <1>4, <1>5, <1>6, GoroutineStep

\* The disconnect handler of closeAll.
LEMMA NotifyClosingOwner ==
    ASSUME SInv, NEW p \in PeerIds, NotifyClosing(p)
    PROVE  OwnerInv' /\ WaitInv'
<1>1. work[p]["cnotify"] > 0 /\ work' = Move(work, p, "cnotify", "cclose") /\ GoroutineFrame
      /\ pclosed' = pclosed /\ DropSession(peer[p].dev) /\ peer' = peer
  BY DEF NotifyClosing, GoroutineFrame
<1>2. /\ "cnotify" \in Stages /\ "cclose" \in Stages
      /\ "cnotify" \in StoppedStages /\ "cclose" \notin StoppedStages
      /\ "cclose" \in TeardownStages => "cnotify" \in TeardownStages
      /\ "cclose" \in CleanupStages => "cnotify" \in CleanupStages
      /\ "cnotify" \in SnapStages => "cclose" \in SnapStages
  BY DEF Stages, StoppedStages, SnapStages, CleanupStages, TeardownStages
<1>3. Quiet(p)' /\ SessionShrinks
  BY <1>1, <1>2, DropIsQuiet
<1>4. \A q \in PeerIds : LifeKept(q)
  BY <1>1, SamePeerLife
<1>5. \A q \in PeerIds : StopKept(q) /\ EvictKept(q) /\ TeardownKept(q)
  BY <1>1, <1>2, <1>3, MoveOwner
<1>6. \A q \in PeerIds : WaitsKept(q)
  BY <1>1, <1>2, MoveWaits
<1> QED
  BY <1>1, <1>3, <1>4, <1>5, <1>6, GoroutineStep

\* A goroutine that ends: a handler call of a replaced peer, or a Close.
LEMMA FinishOwner ==
    ASSUME SInv, NEW p \in PeerIds, NEW k \in Stages, work[p][k] > 0,
           work' = Finish(work, p, k), pclosed' = pclosed,
           k \in SureStages => Quiet(p)',
           k \in SnapStages => pclosed[p] = "done"
    PROVE  /\ \A q \in PeerIds : StopKept(q) /\ EvictKept(q) /\ TeardownKept(q)
           /\ \A q \in PeerIds : WaitsKept(q)
<1>1. ASSUME NEW q \in PeerIds, NEW j \in Stages
      PROVE  work'[q][j] = IF q = p /\ j = k THEN work[q][j] - 1 ELSE work[q][j]
  BY FinishValue DEF SInv, IInv, TypeOK
<1>2. ASSUME NEW q \in PeerIds, NEW j \in Stages, work'[q][j] > 0
      PROVE  work[q][j] > 0
  BY <1>1, <1>2, CountType
<1>3. ASSUME NEW q \in PeerIds
      PROVE  StopKept(q) /\ EvictKept(q)
  BY <1>2, StageSets DEF StopKept, EvictKept, Stages
<1>4. ASSUME NEW q \in PeerIds
      PROVE  TeardownKept(q)
  BY <1>1, StageSets DEF TeardownKept, SureTeardown
<1>5. ASSUME NEW q \in PeerIds
      PROVE  WaitsKept(q)
  <2>1. \A j \in SnapStages : work[q][j] > 0 =>
            pclosed'[q] = "done" \/ \E i \in SnapStages : work'[q][i] > 0
    BY <1>1, StageSets
  <2>2. \A j \in {"cstop", "cnotify"} : work'[q][j] > 0 => work[q][j] > 0
    BY <1>2 DEF Stages
  <2>3. \A j \in TeardownStages : work'[q][j] > 0 => work[q][j] > 0
    BY <1>2, StageSets
  <2>4. \A j \in CleanupStages : work'[q][j] > 0 => work[q][j] > 0
    BY <1>2, StageSets
  <2> QED
    BY <2>1, <2>2, <2>3, <2>4 DEF WaitsKept
<1> QED
  BY <1>3, <1>4, <1>5

\* The disconnect handler of a replaced peer.
LEMMA NotifyReplacedOwner ==
    ASSUME SInv, NEW p \in PeerIds, NotifyReplaced(p)
    PROVE  OwnerInv' /\ WaitInv'
<1>1. work[p]["rnotify"] > 0 /\ work' = Finish(work, p, "rnotify") /\ GoroutineFrame
      /\ pclosed' = pclosed /\ DropSession(peer[p].dev) /\ peer' = peer
  BY DEF NotifyReplaced, GoroutineFrame
<1>2. "rnotify" \in Stages /\ "rnotify" \in StoppedStages /\ "rnotify" \notin SnapStages
  BY DEF Stages, StoppedStages, SnapStages
<1>3. Quiet(p)' /\ SessionShrinks
  BY <1>1, <1>2, DropIsQuiet
<1>4. \A q \in PeerIds : LifeKept(q)
  BY <1>1, SamePeerLife
<1>5. /\ \A q \in PeerIds : StopKept(q) /\ EvictKept(q) /\ TeardownKept(q)
      /\ \A q \in PeerIds : WaitsKept(q)
  BY <1>1, <1>2, <1>3, FinishOwner
<1> QED
  BY <1>1, <1>3, <1>4, <1>5, GoroutineStep

\* Peer.Close returns to a caller that found the peer closed.
LEMMA CloseReturnsOwner ==
    ASSUME SInv, NEW p \in PeerIds, NEW k \in CloseStages, CloseReturns(p, k)
    PROVE  OwnerInv' /\ WaitInv'
<1>1. work[p][k] > 0 /\ work' = Finish(work, p, k) /\ GoroutineFrame
      /\ pclosed' = pclosed /\ pclosed[p] = "done" /\ session' = session /\ peer' = peer
  BY DEF CloseReturns, GoroutineFrame
<1>2. k \in Stages /\ k \notin SureStages
  BY DEF CloseStages, Stages, SureStages
<1>3. \A q \in PeerIds : LifeKept(q)
  BY <1>1, SamePeerLife
<1>4. /\ \A q \in PeerIds : StopKept(q) /\ EvictKept(q) /\ TeardownKept(q)
      /\ \A q \in PeerIds : WaitsKept(q)
  BY <1>1, <1>2, FinishOwner
<1> QED
  BY <1>1, <1>3, <1>4, GoroutineStep DEF SessionShrinks

\* Peer.Close takes p.mu.
LEMMA CloseBeginsOwner ==
    ASSUME SInv, NEW p \in PeerIds, CloseBegins(p)
    PROVE  OwnerInv' /\ WaitInv'
<1>1. GoroutineFrame /\ work' = work /\ session' = session /\ peer' = peer
  BY DEF CloseBegins, GoroutineFrame
<1>2. \A q \in PeerIds : pclosed[q] = "done" => pclosed'[q] = "done"
  BY DEF CloseBegins, SInv, IInv, TypeOK
<1>3. \A q \in PeerIds : LifeKept(q)
  BY <1>1, SamePeerLife
<1>4. \A q \in PeerIds : StopKept(q) /\ EvictKept(q) /\ TeardownKept(q)
  BY <1>1 DEF StopKept, EvictKept, TeardownKept, SureTeardown
<1>5. \A q \in PeerIds : WaitsKept(q)
  BY <1>1, <1>2 DEF WaitsKept
<1> QED
  BY <1>1, <1>3, <1>4, <1>5, GoroutineStep DEF SessionShrinks

\* Pion has closed the connection, and every waiting Close returns.
LEMMA CloseEndsOwner ==
    ASSUME SInv, NEW p \in PeerIds, CloseEnds(p)
    PROVE  OwnerInv' /\ WaitInv'
<1>1. GoroutineFrame /\ session' = session
  BY DEF CloseEnds, GoroutineFrame
<1>2. \A q \in PeerIds : (pclosed[q] = "done" => pclosed'[q] = "done") /\ pclosed'[p] = "done"
  BY DEF CloseEnds, SInv, IInv, TypeOK
<1>3. \A q \in PeerIds : LifeKept(q)
  BY StructOf, SetPeerLife, TameConn DEF CloseEnds
<1>4. ASSUME NEW q \in PeerIds, NEW j \in Stages
      PROVE  work'[q][j] = IF q = p /\ j \in CloseStages THEN 0 ELSE work[q][j]
  BY DEF CloseEnds, SInv, IInv, TypeOK, Works
<1>5. ASSUME NEW q \in PeerIds, NEW j \in Stages, work'[q][j] > 0
      PROVE  work[q][j] > 0
  BY <1>4, <1>5
<1>6. ASSUME NEW q \in PeerIds
      PROVE  StopKept(q) /\ EvictKept(q) /\ TeardownKept(q)
  <2>1. StopKept(q) /\ EvictKept(q)
    BY <1>5, StageSets DEF StopKept, EvictKept, Stages
  <2>2. \A j \in SureStages : j \in Stages /\ j \notin CloseStages
    BY DEF SureStages, CloseStages, Stages
  <2>3. TeardownKept(q)
    BY <1>4, <2>2 DEF TeardownKept, SureTeardown
  <2> QED
    BY <2>1, <2>3
<1>7. ASSUME NEW q \in PeerIds PROVE WaitsKept(q)
  <2>1. \A j \in SnapStages : work[q][j] > 0 =>
            pclosed'[q] = "done" \/ \E i \in SnapStages : work'[q][i] > 0
    BY <1>2, <1>4, StageSets
  <2>2. \A j \in {"cstop", "cnotify"} : work'[q][j] > 0 => work[q][j] > 0
    BY <1>5 DEF Stages
  <2>3. \A j \in TeardownStages : work'[q][j] > 0 => work[q][j] > 0
    BY <1>5, StageSets
  <2>4. \A j \in CleanupStages : work'[q][j] > 0 => work[q][j] > 0
    BY <1>5, StageSets
  <2> QED
    BY <1>2, <2>1, <2>2, <2>3, <2>4 DEF WaitsKept
<1> QED
  BY <1>1, <1>3, <1>6, <1>7, GoroutineStep DEF SessionShrinks

\* ClosePeerIfCurrent takes only a peer out of the map that has nothing to tear down.
LEMMA EvictOwner ==
    ASSUME SInv, NEW p \in PeerIds, NEW k \in {"evict", "evictU"}, ClosePeerIfCurrent(p, k)
    PROVE  OwnerInv' /\ WaitInv'
<1> DEFINE n == AfterEvict(k)
<1>1. work[p][k] > 0 /\ work' = Move(work, p, k, n) /\ pclosed' = pclosed
      /\ session' = session /\ peer' = peer /\ born' = born /\ loop' = loop
      /\ UNCHANGED callerVars
  BY DEF ClosePeerIfCurrent
<1>2. /\ k \in Stages /\ n \in Stages /\ k # n /\ n \in CloseStages
      /\ n \notin TeardownStages /\ n \notin StoppedStages
      /\ n \notin {"evict", "evictU", "cstop", "cnotify"}
      /\ n \in CleanupStages => k \in CleanupStages
      /\ k \notin SureStages /\ k \notin SnapStages
  BY DEF AfterEvict, Stages, CloseStages, CleanupStages, TeardownStages, StoppedStages,
         SureStages, SnapStages
<1> HIDE DEF n
<1>3. peers' = peers \/ (Current(p) /\ peers' = [peers EXCEPT ![peer[p].dev] = NoPeer])
  BY DEF ClosePeerIfCurrent
<1>4. MapShrinks
  BY <1>3 DEF MapShrinks, SInv, IInv, TypeOK
<1>5. \A q \in PeerIds : LifeKept(q)
  BY <1>1, SamePeerLife
<1>6. \A q \in PeerIds : StopKept(q) /\ EvictKept(q) /\ TeardownKept(q)
  BY <1>1, <1>2, MoveOwner
<1>7. \A q \in PeerIds : WaitsKept(q)
  BY <1>1, <1>2, MoveWaits
<1>8. ASSUME NEW q \in PeerIds, Current(q), ~Current(q)'
      PROVE  SureTeardown(q)' \/ peer'[q].noticed \/ Quiet(q)' \/ Inert(q)'
  <2>1. q = p
    BY <1>1, <1>3, <1>8 DEF Current, SInv, IInv, TypeOK
  <2>2. peer[p].noticed \/ Quiet(p)
    BY <1>1, <1>8, <2>1 DEF SInv, OwnerInv, EvictedIsQuiet
  <2> QED
    BY <1>1, <2>1, <2>2 DEF Quiet
<1>9. OwnerInv'
  BY <1>1, <1>4, <1>5, <1>6, <1>8, OwnerStep DEF NoSetup, SessionShrinks, LeaveKept
<1>10. WaitInv'
  BY <1>1, <1>7, WaitStep
<1> QED
  BY <1>9, <1>10

\* The background goroutines.
LEMMA GoroutineOwner == ASSUME SInv, Goroutine PROVE OwnerInv' /\ WaitInv'
BY StopDispatchOwner, CheckCurrentOwner, NotifyOwner, NotifyReplacedOwner,
   NotifyClosingOwner, EvictOwner, CloseBeginsOwner, CloseEndsOwner, CloseReturnsOwner
   DEF Goroutine

-----------------------------------------------------------------------------
(* The steps that change the map, create handler state or drop it.          *)

\* A step that leaves the goroutines and the closes alone keeps what WaitStep asks.
LEMMA SameWaits ==
    ASSUME work' = work, pclosed' = pclosed
    PROVE  \A q \in PeerIds : WaitsKept(q)
BY DEF WaitsKept

\* A step that leaves peers, goroutines and handler state alone.
LEMMA SameOwner ==
    ASSUME SInv, peers' = peers, born' = born, peer' = peer, work' = work,
           session' = session, NoSetup
    PROVE  OwnerInv'
<1>1. \A q \in PeerIds : LifeKept(q)
  BY SamePeerLife
<1>2. MapShrinks /\ \A q \in PeerIds : LeaveKept(q)
  BY <1>1, SameMap
<1>3. \A q \in PeerIds : StopKept(q) /\ EvictKept(q) /\ TeardownKept(q)
  BY DEF StopKept, EvictKept, TeardownKept, SureTeardown
<1> QED
  BY <1>1, <1>2, <1>3, OwnerStep DEF SessionShrinks

\* A goroutine of p is started, and nothing else changes in the counts.
LEMMA SpawnOwner ==
    ASSUME SInv, NEW p \in PeerIds, NEW k \in Stages, work' = Spawn(work, p, k),
           pclosed' = pclosed, k \notin StoppedStages, k \notin {"evict", "evictU"},
           k \in CleanupStages => ~closed, k \notin SnapStages
    PROVE  /\ \A q \in PeerIds : StopKept(q) /\ EvictKept(q) /\ TeardownKept(q)
           /\ \A q \in PeerIds : WaitsKept(q)
           /\ work'[p][k] > 0
<1>1. ASSUME NEW q \in PeerIds, NEW j \in Stages
      PROVE  work'[q][j] = IF q = p /\ j = k THEN work[q][j] + 1 ELSE work[q][j]
  BY SpawnValue DEF SInv, IInv, TypeOK
<1>2. ASSUME NEW q \in PeerIds, NEW j \in Stages, work[q][j] > 0
      PROVE  work'[q][j] > 0
  BY <1>1, <1>2, CountType
<1>3. ASSUME NEW q \in PeerIds, NEW j \in Stages, work'[q][j] > 0, j # k
      PROVE  work[q][j] > 0
  BY <1>1, <1>3
<1>4. ASSUME NEW q \in PeerIds PROVE StopKept(q) /\ EvictKept(q) /\ TeardownKept(q)
  <2>1. StopKept(q) /\ EvictKept(q)
    BY <1>3, StageSets DEF StopKept, EvictKept, Stages
  <2>2. TeardownKept(q)
    BY <1>2, StageSets DEF TeardownKept, SureTeardown
  <2> QED
    BY <2>1, <2>2
<1>5. ASSUME NEW q \in PeerIds PROVE WaitsKept(q)
  <2>1. k \in TeardownStages => ~closed
    BY DEF CleanupStages
  <2>2. \A j \in TeardownStages : work'[q][j] > 0 => ~closed \/ work[q][j] > 0
    BY <1>3, <2>1, StageSets
  <2>3. \A j \in CleanupStages : work'[q][j] > 0 => ~closed \/ work[q][j] > 0
    BY <1>3, StageSets
  <2>4. \A j \in {"cstop", "cnotify"} : work'[q][j] > 0 => work[q][j] > 0
    BY <1>3 DEF SnapStages, Stages
  <2>5. \A j \in SnapStages : work[q][j] > 0 => work'[q][j] > 0
    BY <1>2, StageSets
  <2> QED
    BY <2>2, <2>3, <2>4, <2>5 DEF WaitsKept
<1>6. work'[p][k] > 0
  BY <1>1, CountType
<1> QED
  BY <1>4, <1>5, <1>6

\* The old peer of a reconnecting device leaves the map into its teardown.
LEMMA ReplaceOldOwner == ASSUME SInv, ReplaceOld PROVE OwnerInv' /\ WaitInv'
<1> DEFINE e == loop.dev
           o == peers[e]
<1>1. e \in Devices /\ o \in PeerIds \cup {NoPeer}
  BY DEF ReplaceOld, SInv, IInv, TypeOK, LoopInv, LoopServesDevice
<1>2. /\ born' = born /\ peer' = peer /\ session' = session /\ pclosed' = pclosed
      /\ UNCHANGED callerVars /\ NoSetup
  BY DEF ReplaceOld, NoSetup, SInv, IInv, TypeOK, LoopStruct
<1>3. CASE o = NoPeer
  <2>1. peers' = peers /\ work' = work
    BY <1>3 DEF ReplaceOld
  <2> QED
    BY <1>2, <2>1, SameOwner, SameWaits, WaitStep
<1>4. CASE o # NoPeer
  <2>1. peers' = [peers EXCEPT ![e] = NoPeer] /\ work' = Spawn(work, o, "rstop")
    BY <1>4 DEF ReplaceOld
  <2>2. o \in PeerIds /\ ~closed
    BY <1>1, <1>4 DEF SInv, IInv, ManagerInv, ClosedTracksNothing
  <2>3. /\ "rstop" \in Stages /\ "rstop" \notin StoppedStages /\ "rstop" \notin SnapStages
        /\ "rstop" \in SureStages
    BY DEF Stages, StoppedStages, SnapStages, SureStages
  <2> HIDE DEF o
  <2>4. /\ \A q \in PeerIds : StopKept(q) /\ EvictKept(q) /\ TeardownKept(q)
        /\ \A q \in PeerIds : WaitsKept(q)
        /\ work'[o]["rstop"] > 0
    BY <1>2, <2>1, <2>2, <2>3, SpawnOwner
  <2>5. \A q \in PeerIds : LifeKept(q)
    BY <1>2, SamePeerLife
  <2>6. MapShrinks
    BY <1>1, <2>1 DEF MapShrinks, SInv, IInv, TypeOK
  <2>7. ASSUME NEW q \in PeerIds, Current(q), ~Current(q)'
        PROVE  SureTeardown(q)'
    <3>1. q = o
      BY <1>1, <1>2, <2>1, <2>7 DEF Current, SInv, IInv, TypeOK, o
    <3> QED
      BY <2>3, <2>4, <3>1 DEF SureTeardown
  <2>8. OwnerInv'
    BY <1>2, <2>4, <2>5, <2>6, <2>7, OwnerStep DEF LeaveKept, SessionShrinks
  <2> QED
    BY <1>2, <2>4, <2>8, WaitStep
<1> QED
  BY <1>3, <1>4

\* A peer whose offer could not be made is closed at once: it never had a channel.
LEMMA SetupFailsOwner == ASSUME SInv, SetupFails PROVE OwnerInv' /\ WaitInv'
<1> DEFINE e == loop.dev
           o == peers[e]
<1>1. e \in Devices /\ o \in PeerIds \cup {NoPeer}
  BY DEF SetupFails, SInv, IInv, TypeOK, LoopInv, LoopServesDevice
<1>2. /\ born' = born /\ peer' = peer /\ session' = session /\ pclosed' = pclosed
      /\ UNCHANGED callerVars /\ NoSetup
  <2>1. loop'.pc = "idle" \/ loop'.pc = "close"
    <3>1. CASE peers[loop.dev] = NoPeer
      BY <3>1 DEF SetupFails, LoopIdle
    <3>2. CASE peers[loop.dev] # NoPeer
      BY <3>2 DEF SetupFails, SInv, IInv, TypeOK, LoopStruct
    <3> QED
      BY <3>1, <3>2
  <2> QED
    BY <2>1 DEF SetupFails, NoSetup
<1>3. CASE o = NoPeer
  <2>1. peers' = peers /\ work' = work
    BY <1>3 DEF SetupFails
  <2> QED
    BY <1>2, <2>1, SameOwner, SameWaits, WaitStep
<1>4. CASE o # NoPeer
  <2>1. peers' = [peers EXCEPT ![e] = NoPeer] /\ work' = Spawn(work, o, "lclose")
    BY <1>4 DEF SetupFails
  <2>2. o \in PeerIds /\ Inert(o)
    BY <1>1, <1>4 DEF SetupFails, SInv, OwnerInv, SetupIsFresh
  <2>3. /\ "lclose" \in Stages /\ "lclose" \notin StoppedStages /\ "lclose" \notin SnapStages
        /\ "lclose" \notin CleanupStages
    BY DEF Stages, StoppedStages, SnapStages, CleanupStages, TeardownStages
  <2> HIDE DEF o
  <2>4. /\ \A q \in PeerIds : StopKept(q) /\ EvictKept(q) /\ TeardownKept(q)
        /\ \A q \in PeerIds : WaitsKept(q)
    BY <1>2, <2>1, <2>2, <2>3, SpawnOwner
  <2>5. \A q \in PeerIds : LifeKept(q)
    BY <1>2, SamePeerLife
  <2>6. MapShrinks
    BY <1>1, <2>1 DEF MapShrinks, SInv, IInv, TypeOK
  <2>7. ASSUME NEW q \in PeerIds, Current(q), ~Current(q)'
        PROVE  Inert(q)'
    <3>1. q = o
      BY <1>1, <1>2, <2>1, <2>7 DEF Current, SInv, IInv, TypeOK, o
    <3> QED
      BY <1>2, <2>2, <3>1 DEF Inert
  <2>8. OwnerInv'
    BY <1>2, <2>4, <2>5, <2>6, <2>7, OwnerStep DEF LeaveKept, SessionShrinks
  <2> QED
    BY <1>2, <2>4, <2>8, WaitStep
<1> QED
  BY <1>3, <1>4

\* The new peer is created for the device of the request and tracked.
LEMMA InsertPeerOwner == ASSUME SInv, InsertPeer PROVE OwnerInv' /\ WaitInv'
<1>1. work' = work /\ pclosed' = pclosed /\ session' = session /\ UNCHANGED callerVars
  BY DEF InsertPeer
<1>2. WaitInv'
  BY <1>1, SameWaits, WaitStep
<1>3. CASE ~MayInsert(loop.dev)
  <2>1. peers' = peers /\ born' = born /\ peer' = peer /\ NoSetup
    BY <1>3 DEF InsertPeer, NoSetup, LoopIdle
  <2> QED
    BY <1>1, <1>2, <2>1, SameOwner
<1>4. CASE MayInsert(loop.dev)
  <2> DEFINE p == born + 1
             e == loop.dev
  <2>1. p \in PeerIds /\ p > born /\ born \in Nat
    BY BoundAssumption DEF InsertPeer, SInv, IInv, TypeOK, PeerIds
  <2>2. e \in Devices /\ peers[e] = NoPeer /\ loop.attempt \in Attempts \cup {NoAttempt}
    BY DEF InsertPeer, SInv, IInv, LoopInv, LoopServesDevice, LoopFoundNoPeer, TypeOK,
           LoopStruct
  <2>3. /\ born' = p /\ peers' = [peers EXCEPT ![e] = p]
        /\ loop' = [loop EXCEPT !.pc = "setup", !.new = p]
    BY <1>4 DEF InsertPeer
  <2>4. /\ \A q \in PeerIds : q # p => peer'[q] = peer[q]
        /\ peer'[p].dev = e /\ peer'[p].auth = "none" /\ peer'[p].conn = "new"
        /\ peer'[p].dispatch = "idle"
    <3> DEFINE r == [NoStruct EXCEPT !.dev = e, !.attempt = loop.attempt]
    <3>1. r.dev = e /\ r.auth = "none" /\ r.conn = "new" /\ r.dispatch = "idle"
      BY DEF NoStruct
    <3>2. SetPeer(p, r)
      BY <1>4 DEF InsertPeer
    <3> HIDE DEF r
    <3>3. \A q \in PeerIds : peer'[q] = IF q = p THEN r ELSE peer[q]
      BY <2>1, <3>2 DEF SetPeer, SInv, IInv, TypeOK
    <3> QED
      BY <2>1, <3>1, <3>3
  <2>5. loop'.pc = "setup" /\ loop'.dev = e /\ loop'.new = p
    BY <2>3 DEF SInv, IInv, TypeOK, LoopStruct
  <2>6. peers'[e] = p /\ \A d \in Devices : d # e => peers'[d] = peers[d]
    BY <2>2, <2>3 DEF SInv, IInv, TypeOK
  <2>7. (\A k \in Stages : work[p][k] = 0) /\ peer[p].auth = "none"
    BY <2>1 DEF SInv, IInv, PeerInv, UnbornIsFresh
  <2>8. \A q \in PeerIds : q <= born' => q <= born \/ q = p
    BY <2>1, <2>3 DEF PeerIds
  <2>9. p # NoPeer
    BY <2>1 DEF PeerIds, NoPeer
  <2> HIDE DEF p, e
  <2>10. \A d \in Devices : session[d] # p
    BY <2>7, <2>9 DEF SInv, OwnerInv, SessionIsOwn
  <2>11. PeerHasDevice'
    BY <2>2, <2>4, <2>8 DEF SInv, OwnerInv, PeerHasDevice
  <2>12. SessionIsOwn'
    <3> SUFFICES ASSUME NEW d \in Devices, session[d] # NoPeer
                 PROVE  peer'[session[d]].dev = d /\ peer'[session[d]].auth = "ok"
      BY <1>1 DEF SessionIsOwn
    <3>1. session[d] \in PeerIds /\ session[d] # p
      BY <2>10 DEF SInv, IInv, TypeOK
    <3> QED
      BY <2>4, <3>1 DEF SInv, OwnerInv, SessionIsOwn
  <2>13. DispatchStopped'
    <3> SUFFICES ASSUME NEW q \in PeerIds, NEW k \in StoppedStages, work[q][k] > 0
                 PROVE  peer'[q].dispatch = "stopped"
      BY <1>1 DEF DispatchStopped
    <3>1. q # p
      BY <2>7, StageSets
    <3> QED
      BY <2>4, <3>1 DEF SInv, OwnerInv, DispatchStopped
  <2>14. \A q \in PeerIds : q # p => (Quiet(q) <=> Quiet(q)') /\ (Inert(q) <=> Inert(q)')
    BY <1>1, <2>4 DEF Quiet, Inert
  <2>15. \A q \in PeerIds : q # p => (Current(q) <=> Current(q)')
    <3> SUFFICES ASSUME NEW q \in PeerIds, q # p PROVE Current(q) <=> Current(q)'
      OBVIOUS
    <3>1. peer'[q].dev = peer[q].dev /\ q # NoPeer
      BY <2>4 DEF PeerIds, NoPeer
    <3> QED
      BY <2>2, <2>6, <3>1 DEF Current
  <2>16. EvictedIsQuiet'
    <3> SUFFICES ASSUME NEW q \in PeerIds, NEW k \in {"evict", "evictU"}, work[q][k] > 0
                 PROVE  peer'[q].noticed \/ Quiet(q)' \/ ~Current(q)'
      BY <1>1 DEF EvictedIsQuiet
    <3>1. q # p
      BY <2>7 DEF Stages
    <3>2. peer[q].noticed \/ Quiet(q) \/ ~Current(q)
      BY DEF SInv, OwnerInv, EvictedIsQuiet
    <3>3. peer'[q] = peer[q]
      BY <2>4, <3>1
    <3> QED
      BY <2>14, <2>15, <3>1, <3>2, <3>3
  <2>17. CaredFor'
    <3> SUFFICES ASSUME NEW q \in PeerIds, q <= born'
                 PROVE  \/ Current(q)' \/ SureTeardown(q)' \/ peer'[q].noticed
                        \/ Quiet(q)' \/ Inert(q)'
      BY DEF CaredFor
    <3>1. CASE q = p
      BY <2>2, <2>4, <2>6, <3>1 DEF Current
    <3>2. CASE q # p
      <4>1. Current(q) \/ SureTeardown(q) \/ peer[q].noticed \/ Quiet(q) \/ Inert(q)
        BY <2>8, <3>2 DEF SInv, OwnerInv, CaredFor
      <4>2. peer'[q] = peer[q]
        BY <2>4, <3>2
      <4>3. SureTeardown(q) => SureTeardown(q)'
        BY <1>1 DEF SureTeardown
      <4> QED
        BY <2>14, <2>15, <3>2, <4>1, <4>2, <4>3
    <3> QED
      BY <3>1, <3>2
  <2>18. SetupIsFresh'
    BY <2>4, <2>5, <2>6 DEF SetupIsFresh, Inert
  <2> QED
    BY <1>2, <2>11, <2>12, <2>13, <2>16, <2>17, <2>18 DEF OwnerInv
<1> QED
  BY <1>3, <1>4

\* A request ends and leaves handler state behind: its peer is authenticated and
\* was not past stopDispatch.
LEMMA RequestEndsOwner ==
    ASSUME SInv, NEW p \in PeerIds, RequestEnds(p)
    PROVE  OwnerInv' /\ WaitInv'
<1>1. /\ peers' = peers /\ born' = born /\ work' = work /\ pclosed' = pclosed
      /\ UNCHANGED callerVars /\ loop' = loop /\ peer[p].dispatch = "busy"
  BY DEF RequestEnds
<1>2. WaitInv'
  BY <1>1, SameWaits, WaitStep
<1>3. peer[p].auth = "ok"
  BY <1>1 DEF SInv, OwnerInv, PeerHasDevice
<1>4. p <= born
  BY <1>3 DEF SInv, IInv, PeerInv, UnbornIsFresh, TypeOK, PeerIds
<1>5. peer[p].dev \in Devices
  BY <1>4 DEF SInv, OwnerInv, PeerHasDevice
<1>6. \A q \in PeerIds : LifeKept(q)
  BY <1>1, StructOf, SetPeerLife, TameChannel DEF RequestEnds
<1>7. \A d \in Devices : session'[d] = IF d = peer[p].dev THEN p ELSE session[d]
  BY <1>5 DEF RequestEnds, SInv, IInv, TypeOK
<1>8. PeerHasDevice'
  BY <1>1, <1>6 DEF SInv, OwnerInv, PeerHasDevice, LifeKept
<1>9. SessionIsOwn'
  <2> SUFFICES ASSUME NEW d \in Devices, session'[d] # NoPeer
               PROVE  peer'[session'[d]].dev = d /\ peer'[session'[d]].auth = "ok"
    BY DEF SessionIsOwn
  <2>1. CASE d = peer[p].dev
    BY <1>3, <1>6, <1>7, <2>1 DEF LifeKept
  <2>2. CASE d # peer[p].dev
    <3>1. session'[d] = session[d] /\ session[d] \in PeerIds
      BY <1>7, <2>2 DEF SInv, IInv, TypeOK
    <3> QED
      BY <1>6, <3>1 DEF SInv, OwnerInv, SessionIsOwn, LifeKept
  <2> QED
    BY <2>1, <2>2
<1>10. DispatchStopped'
  BY <1>1, <1>6 DEF SInv, OwnerInv, DispatchStopped, LifeKept
<1>11. \A q \in PeerIds : Quiet(q) => Quiet(q)'
  BY <1>1, <1>6, <1>7 DEF Quiet, LifeKept
<1>12. \A q \in PeerIds : Current(q) <=> Current(q)'
  BY <1>1, <1>6 DEF Current, LifeKept
<1>13. EvictedIsQuiet'
  <2> SUFFICES ASSUME NEW q \in PeerIds, NEW k \in {"evict", "evictU"}, work[q][k] > 0
               PROVE  peer'[q].noticed \/ Quiet(q)' \/ ~Current(q)'
    BY <1>1 DEF EvictedIsQuiet
  <2>1. peer[q].noticed \/ Quiet(q) \/ ~Current(q)
    BY DEF SInv, OwnerInv, EvictedIsQuiet
  <2>2. peer[q].noticed => peer'[q].noticed
    BY <1>6 DEF LifeKept
  <2> QED
    BY <1>11, <1>12, <2>1, <2>2
<1>14. CaredFor'
  <2> SUFFICES ASSUME NEW q \in PeerIds, q <= born
               PROVE  \/ Current(q)' \/ SureTeardown(q)' \/ peer'[q].noticed
                      \/ Quiet(q)' \/ Inert(q)'
    BY <1>1 DEF CaredFor
  <2>1. Current(q) \/ SureTeardown(q) \/ peer[q].noticed \/ Quiet(q) \/ Inert(q)
    BY DEF SInv, OwnerInv, CaredFor
  <2>2. peer[q].noticed => peer'[q].noticed
    BY <1>6 DEF LifeKept
  <2>3. Inert(q) => Inert(q)' \/ Current(q)
    BY <1>6 DEF LifeKept
  <2>4. SureTeardown(q) => SureTeardown(q)'
    BY <1>1 DEF SureTeardown
  <2> QED
    BY <1>11, <1>12, <2>1, <2>2, <2>3, <2>4
<1>15. SetupIsFresh'
  <2> SUFFICES ASSUME loop.pc = "setup"
               PROVE  Inert(loop.new)' /\ peers[loop.dev] \in {NoPeer, loop.new}
    BY <1>1 DEF SetupIsFresh
  <2>1. loop.new \in PeerIds
    BY DEF SInv, IInv, LoopInv, LoopHasPeer
  <2>2. Inert(loop.new) /\ peers[loop.dev] \in {NoPeer, loop.new}
    BY DEF SInv, OwnerInv, SetupIsFresh
  <2>3. peer'[loop.new].auth = "none" /\ peer'[loop.new].conn \in {"new", "closed"}
    BY <1>6, <2>1, <2>2 DEF LifeKept, Inert
  <2> QED
    BY <1>1, <2>2, <2>3 DEF Inert
<1> QED
  BY <1>2, <1>8, <1>9, <1>10, <1>13, <1>14, <1>15 DEF OwnerInv

\* The sweep's PeerDisconnected call drops handler state.
LEMMA SweepDropsOwner == ASSUME SInv, SweepDrops PROVE OwnerInv' /\ WaitInv'
<1>1. GoroutineFrame /\ work' = work /\ pclosed' = pclosed /\ peer' = peer
  BY DEF SweepDrops, GoroutineFrame
<1>2. SessionShrinks
  BY DEF SweepDrops, DropSession, SessionShrinks, SInv, IInv, TypeOK
<1>3. \A q \in PeerIds : LifeKept(q)
  BY <1>1, SamePeerLife
<1>4. \A q \in PeerIds : StopKept(q) /\ EvictKept(q) /\ TeardownKept(q)
  BY <1>1 DEF StopKept, EvictKept, TeardownKept, SureTeardown
<1>5. \A q \in PeerIds : WaitsKept(q)
  BY <1>1, SameWaits
<1> QED
  BY <1>1, <1>2, <1>3, <1>4, <1>5, GoroutineStep

-----------------------------------------------------------------------------
(* closeAll.                                                                *)

\* closeAll hands every tracked peer to a goroutine of its own.
LEMMA CloseAllOwner ==
    ASSUME SInv, NEW c \in Callers, CloseAllPeers(c), born' = born, peer' = peer,
           session' = session, loop' = loop
    PROVE  /\ OwnerInv'
           /\ \A q \in PeerIds : \A j \in Stages :
                 /\ j # "cstop" => work'[q][j] = work[q][j]
                 /\ work[q][j] > 0 => work'[q][j] > 0
           /\ \A q \in PeerIds : work'[q]["cstop"] > 0 =>
                 work[q]["cstop"] > 0 \/ q \in snap'[c]
           /\ \A q \in snap'[c] : q \in PeerIds /\ work'[q]["cstop"] > 0
           /\ \A x \in Callers : x # c => snap'[x] = snap[x]
<1>1. ASSUME NEW q \in PeerIds, NEW j \in Stages
      PROVE  work'[q][j] = IF Tracked(q) /\ j = "cstop" THEN work[q][j] + 1 ELSE work[q][j]
  BY DEF CloseAllPeers, SInv, IInv, TypeOK, Works
<1>2. snap'[c] = {peers[d] : d \in TrackedDevices} /\ \A x \in Callers : x # c => snap'[x] = snap[x]
  BY DEF CloseAllPeers, SInv, IInv, TypeOK
<1>3. \A q \in PeerIds : q \in snap'[c] <=> Tracked(q)
  BY <1>2 DEF Tracked, TrackedDevices, PeerIds, NoPeer
<1>4. snap'[c] \subseteq PeerIds
  BY <1>2 DEF TrackedDevices, SInv, IInv, TypeOK
<1>5. "cstop" \in Stages /\ "cstop" \in SureStages /\ "cstop" \notin StoppedStages
  BY DEF Stages, SureStages, StoppedStages
<1>6. ASSUME NEW q \in PeerIds, NEW j \in Stages
      PROVE  /\ j # "cstop" => work'[q][j] = work[q][j]
             /\ work[q][j] > 0 => work'[q][j] > 0
  BY <1>1, CountType
<1>7. ASSUME NEW q \in PeerIds, Tracked(q) PROVE work'[q]["cstop"] > 0
  BY <1>1, <1>5, <1>7, CountType
<1>8. ASSUME NEW q \in PeerIds, work'[q]["cstop"] > 0
      PROVE  work[q]["cstop"] > 0 \/ q \in snap'[c]
  BY <1>1, <1>3, <1>5, <1>8
<1>9. \A q \in PeerIds : LifeKept(q)
  BY SamePeerLife
<1>10. MapShrinks
  BY DEF MapShrinks, CloseAllPeers
<1>11. ASSUME NEW q \in PeerIds PROVE StopKept(q) /\ EvictKept(q) /\ TeardownKept(q)
  <2>1. StopKept(q)
    BY <1>5, <1>6, StageSets DEF StopKept
  <2>2. EvictKept(q)
    BY <1>6 DEF EvictKept, Stages
  <2>3. TeardownKept(q)
    BY <1>6, StageSets DEF TeardownKept, SureTeardown
  <2> QED
    BY <2>1, <2>2, <2>3
<1>12. ASSUME NEW q \in PeerIds PROVE LeaveKept(q)
  <2>1. Current(q) => Tracked(q)
    BY DEF Current, Tracked
  <2> QED
    BY <1>5, <1>7, <2>1 DEF LeaveKept, SureTeardown
<1>13. OwnerInv'
  BY <1>9, <1>10, <1>11, <1>12, OwnerStep DEF SessionShrinks, NoSetup
<1> QED
  BY <1>2, <1>3, <1>4, <1>6, <1>7, <1>8, <1>13

\* SetAllowedDeviceID of the reload.
LEMMA ReloadPairingOwner ==
    ASSUME SInv, NEW d \in Devices \cup {Unpaired}, ReloadPairing(d)
    PROVE  OwnerInv' /\ WaitInv'
<1>1. OwnerInv'
  BY SameOwner DEF ReloadPairing, timerVars, NoSetup
<1>2. reload = "idle" /\ reload' = "loaded" /\ stopper' = stopper /\ snap' = snap
      /\ work' = work /\ pclosed' = pclosed
  BY DEF ReloadPairing
<1>3. WaitInv'
  BY <1>2 DEF SInv, WaitInv, SnapshotAwaited, GroupsStayZero, SnapshotCloses, Waiting, Busy
<1> QED
  BY <1>1, <1>3

\* closeAll of the reload.
LEMMA ReloadCloseAllOwner == ASSUME SInv, ReloadCloseAll PROVE OwnerInv' /\ WaitInv'
<1>1. /\ reload = "loaded" /\ reload' = "waiting" /\ stopper' = stopper
      /\ pclosed' = pclosed /\ "reload" \in Callers /\ "stopper" \in Callers
      /\ Callers = {"reload", "stopper"}
  BY DEF ReloadCloseAll, Callers
<1>2. /\ OwnerInv'
      /\ \A q \in PeerIds : \A j \in Stages :
            /\ j # "cstop" => work'[q][j] = work[q][j]
            /\ work[q][j] > 0 => work'[q][j] > 0
      /\ \A q \in PeerIds : work'[q]["cstop"] > 0 =>
            work[q]["cstop"] > 0 \/ q \in snap'["reload"]
      /\ snap'["stopper"] = snap["stopper"]
  BY <1>1, CloseAllOwner DEF ReloadCloseAll
<1>3. "cnotify" \in Stages /\ "cstop" \notin CleanupStages /\ "cstop" \notin TeardownStages
  BY DEF Stages, CleanupStages, TeardownStages
<1>4. SnapshotAwaited'
  <2> SUFFICES ASSUME NEW q \in PeerIds, work'[q]["cstop"] > 0 \/ work'[q]["cnotify"] > 0
               PROVE  \E c \in Callers : Waiting(c)' /\ q \in snap'[c]
    BY DEF SnapshotAwaited
  <2>1. Waiting("reload")' /\ (Waiting("stopper") => Waiting("stopper")') /\ ~Waiting("reload")
    BY <1>1 DEF Waiting
  <2>2. CASE q \in snap'["reload"]
    BY <1>1, <2>1, <2>2
  <2>3. CASE q \notin snap'["reload"]
    <3>1. work[q]["cstop"] > 0 \/ work[q]["cnotify"] > 0
      BY <1>2, <1>3, <2>3
    <3>2. \E c \in Callers : Waiting(c) /\ q \in snap[c]
      BY <3>1 DEF SInv, WaitInv, SnapshotAwaited
    <3>3. Waiting("stopper") /\ q \in snap["stopper"]
      BY <1>1, <2>1, <3>2
    <3> QED
      BY <1>1, <1>2, <2>1, <3>3
  <2> QED
    BY <2>2, <2>3
<1>5. GroupsStayZero'
  BY <1>1, <1>2, <1>3, StageSets DEF SInv, WaitInv, GroupsStayZero, Busy
<1>6. SnapshotCloses'
  <2>1. snap["stopper"] \subseteq PeerIds
    BY <1>1 DEF SInv, IInv, TypeOK
  <2> QED
    BY <1>1, <1>2, <2>1, StageSets DEF SInv, WaitInv, SnapshotCloses
<1> QED
  BY <1>2, <1>4, <1>5, <1>6 DEF WaitInv

\* closeAll of the shutdown.
LEMMA ShutdownCloseAllOwner == ASSUME SInv, ShutdownCloseAll PROVE OwnerInv' /\ WaitInv'
<1>1. /\ stopper = "flagged" /\ stopper' = "waiting" /\ reload' = reload
      /\ pclosed' = pclosed /\ "reload" \in Callers /\ "stopper" \in Callers
      /\ Callers = {"reload", "stopper"}
  BY DEF ShutdownCloseAll, Callers
<1>2. /\ OwnerInv'
      /\ \A q \in PeerIds : \A j \in Stages :
            /\ j # "cstop" => work'[q][j] = work[q][j]
            /\ work[q][j] > 0 => work'[q][j] > 0
      /\ \A q \in PeerIds : work'[q]["cstop"] > 0 =>
            work[q]["cstop"] > 0 \/ q \in snap'["stopper"]
      /\ \A q \in snap'["stopper"] : q \in PeerIds /\ work'[q]["cstop"] > 0
      /\ snap'["reload"] = snap["reload"]
  BY <1>1, CloseAllOwner DEF ShutdownCloseAll
<1>3. "cnotify" \in Stages /\ "cstop" \notin CleanupStages /\ "cstop" \notin TeardownStages
      /\ "cstop" \in SnapStages
  BY DEF Stages, CleanupStages, TeardownStages, SnapStages
<1>4. SnapshotAwaited'
  <2> SUFFICES ASSUME NEW q \in PeerIds, work'[q]["cstop"] > 0 \/ work'[q]["cnotify"] > 0
               PROVE  \E c \in Callers : Waiting(c)' /\ q \in snap'[c]
    BY DEF SnapshotAwaited
  <2>1. Waiting("stopper")' /\ (Waiting("reload") => Waiting("reload")') /\ ~Waiting("stopper")
    BY <1>1 DEF Waiting
  <2>2. CASE q \in snap'["stopper"]
    BY <1>1, <2>1, <2>2
  <2>3. CASE q \notin snap'["stopper"]
    <3>1. work[q]["cstop"] > 0 \/ work[q]["cnotify"] > 0
      BY <1>2, <1>3, <2>3
    <3>2. \E c \in Callers : Waiting(c) /\ q \in snap[c]
      BY <3>1 DEF SInv, WaitInv, SnapshotAwaited
    <3>3. Waiting("reload") /\ q \in snap["reload"]
      BY <1>1, <2>1, <3>2
    <3> QED
      BY <1>1, <1>2, <2>1, <3>3
  <2> QED
    BY <2>2, <2>3
<1>5. GroupsStayZero'
  BY <1>1, <1>2, <1>3, StageSets DEF SInv, WaitInv, GroupsStayZero, Busy
<1>6. SnapshotCloses'
  BY <1>1, <1>2, <1>3 DEF SnapshotCloses
<1> QED
  BY <1>2, <1>4, <1>5, <1>6 DEF WaitInv

\* The reload's waits return.
LEMMA ReloadWaitedOwner == ASSUME SInv, ReloadWaited PROVE OwnerInv' /\ WaitInv'
<1>1. OwnerInv'
  BY SameOwner DEF ReloadWaited, NoSetup
<1>2. /\ reload = "waiting" /\ reload' = "reopen" /\ stopper' = stopper /\ snap' = snap
      /\ work' = work /\ pclosed' = pclosed /\ HandlersTornDown("reload")
  BY DEF ReloadWaited
<1>3. SnapshotAwaited'
  <2> SUFFICES ASSUME NEW q \in PeerIds, work[q]["cstop"] > 0 \/ work[q]["cnotify"] > 0
               PROVE  \E c \in Callers : Waiting(c)' /\ q \in snap[c]
    BY <1>2 DEF SnapshotAwaited
  <2>1. PICK c \in Callers : Waiting(c) /\ q \in snap[c]
    BY DEF SInv, WaitInv, SnapshotAwaited
  <2>2. c # "reload"
    BY <1>2, <2>1 DEF HandlersTornDown
  <2> QED
    BY <1>2, <2>1, <2>2 DEF Waiting
<1>4. GroupsStayZero'
  BY <1>2 DEF SInv, WaitInv, GroupsStayZero, HandlersTornDown, Busy
<1>5. SnapshotCloses'
  BY <1>2 DEF SInv, WaitInv, SnapshotCloses
<1> QED
  BY <1>1, <1>3, <1>4, <1>5 DEF WaitInv

\* CloseAllAndReopen returns.
LEMMA ReopenOwner == ASSUME SInv, Reopen PROVE OwnerInv' /\ WaitInv'
<1>1. OwnerInv'
  BY SameOwner DEF Reopen, NoSetup
<1>2. /\ reload = "reopen" /\ reload' = "idle" /\ stopper' = stopper /\ snap' = snap
      /\ work' = work /\ pclosed' = pclosed
  BY DEF Reopen
<1>3. WaitInv'
  BY <1>2 DEF SInv, WaitInv, SnapshotAwaited, GroupsStayZero, SnapshotCloses, Waiting, Busy
<1> QED
  BY <1>1, <1>3

\* CloseAll sets shutDown.
LEMMA BeginShutdownOwner == ASSUME SInv, BeginShutdown PROVE OwnerInv' /\ WaitInv'
<1>1. loop'.pc = "exited"
  BY DEF BeginShutdown, SInv, IInv, TypeOK, LoopStruct
<1>2. OwnerInv'
  BY <1>1, SameOwner DEF BeginShutdown, NoSetup
<1>3. /\ stopper = "idle" /\ stopper' = "flagged" /\ reload' = reload /\ snap' = snap
      /\ work' = work /\ pclosed' = pclosed
  BY DEF BeginShutdown
<1>4. WaitInv'
  BY <1>3 DEF SInv, WaitInv, SnapshotAwaited, GroupsStayZero, SnapshotCloses, Waiting, Busy
<1> QED
  BY <1>2, <1>4

\* CloseAll's waits return: every peer of its snapshot is closed.
LEMMA ShutdownWaitedOwner == ASSUME SInv, ShutdownWaited PROVE OwnerInv' /\ WaitInv'
<1>1. OwnerInv'
  BY SameOwner DEF ShutdownWaited, NoSetup
<1>2. /\ stopper = "waiting" /\ stopper' = "done" /\ reload' = reload /\ snap' = snap
      /\ work' = work /\ pclosed' = pclosed
      /\ HandlersTornDown("stopper") /\ PeersClosed("stopper")
  BY DEF ShutdownWaited
<1>3. SnapshotAwaited'
  <2> SUFFICES ASSUME NEW q \in PeerIds, work[q]["cstop"] > 0 \/ work[q]["cnotify"] > 0
               PROVE  \E c \in Callers : Waiting(c)' /\ q \in snap[c]
    BY <1>2 DEF SnapshotAwaited
  <2>1. PICK c \in Callers : Waiting(c) /\ q \in snap[c]
    BY DEF SInv, WaitInv, SnapshotAwaited
  <2>2. c # "stopper"
    BY <1>2, <2>1 DEF HandlersTornDown
  <2> QED
    BY <1>2, <2>1, <2>2 DEF Waiting
<1>4. GroupsStayZero'
  BY <1>2 DEF SInv, WaitInv, GroupsStayZero, HandlersTornDown, PeersClosed, Busy
<1>5. SnapshotCloses'
  <2> SUFFICES ASSUME NEW q \in snap["stopper"] PROVE pclosed[q] = "done"
    BY <1>2 DEF SnapshotCloses
  <2>1. \A k \in SnapStages : work[q][k] = 0
    BY <1>2 DEF HandlersTornDown, PeersClosed, SnapStages
  <2> QED
    BY <1>2, <2>1 DEF SInv, WaitInv, SnapshotCloses
<1> QED
  BY <1>1, <1>3, <1>4, <1>5 DEF WaitInv

-----------------------------------------------------------------------------
(* The invariant and what follows from it.                                  *)

\* A manager that has just been created satisfies SInv.
LEMMA InitSInv == Init => SInv
<1> SUFFICES ASSUME Init PROVE SInv
  OBVIOUS
<1>1. IInv
  BY InitIInv
<1>2. /\ \A p \in PeerIds : peer[p] = NoStruct /\ \A k \in Stages : work[p][k] = 0
      /\ \A d \in Devices : session[d] = NoPeer
      /\ born = 0 /\ loop.pc = "idle" /\ reload = "idle" /\ stopper = "idle"
      /\ \A c \in Callers : snap[c] = {}
  BY DEF Init, Idle, LoopIdle
<1>3. \A p \in PeerIds : ~(p <= born) /\ p # NoPeer
  BY <1>2 DEF PeerIds, NoPeer
<1>4. OwnerInv
  BY <1>2, <1>3, StageSets DEF OwnerInv, PeerHasDevice, SessionIsOwn, DispatchStopped,
     EvictedIsQuiet, CaredFor, SetupIsFresh, NoStruct, Stages
<1>5. WaitInv
  BY <1>2 DEF WaitInv, SnapshotAwaited, GroupsStayZero, SnapshotCloses, Stages, Callers
<1> QED
  BY <1>1, <1>4, <1>5 DEF SInv

\* Every step of the manager keeps SInv.
LEMMA NextSInv == SInv /\ [Next]_vars => SInv'
<1> SUFFICES ASSUME SInv, [Next]_vars PROVE SInv'
  OBVIOUS
<1>1. IInv'
  BY NextIInv, StutterIInv DEF SInv
<1> SUFFICES OwnerInv' /\ WaitInv'
  BY <1>1 DEF SInv
<1>2. CASE ReadLoop
  BY <1>2, ReadLoopOrdinary, ReplaceOldOwner, InsertPeerOwner, SetupFailsOwner
     DEF ReadLoop, OrdinaryReadLoop
<1>3. CASE Pion
  BY <1>3, PionOrdinary
<1>4. CASE Callback
  BY <1>4, CallbackOrdinary, RequestEndsOwner DEF Callback, OrdinaryCallback
<1>5. CASE Goroutine
  BY <1>5, GoroutineOwner
<1>6. CASE CloseAll
  BY <1>6, ReloadPairingOwner, ReloadCloseAllOwner, ReloadWaitedOwner, ReopenOwner,
     BeginShutdownOwner, ShutdownCloseAllOwner, ShutdownWaitedOwner DEF CloseAll
<1>7. CASE Timers
  BY <1>7, TimersOrdinary
<1>8. CASE Sweep
  BY <1>8, SweepOrdinary, SweepDropsOwner DEF Sweep, OrdinarySweep
<1>9. CASE UNCHANGED vars
  BY <1>9, SameOwner, SameWaits, WaitStep DEF vars, pmVars, callerVars, timerVars, NoSetup
<1> QED
  BY <1>2, <1>3, <1>4, <1>5, <1>6, <1>7, <1>8, <1>9 DEF Next

\* SInv holds in every state of the manager.
THEOREM SessionInvariance == Spec => []SInv
BY InitSInv, NextSInv, PTL DEF Spec

\* Handler state is never left without someone to tear it down, whatever the order
\* of replacement, cleanup, reload, shutdown and sweep.
THEOREM SessionHasOwner == Spec => []NoOrphanSession
<1>1. SInv => NoOrphanSession
  <2> SUFFICES ASSUME SInv, NEW d \in Devices, session[d] # NoPeer
               PROVE  \/ peers[d] = session[d]
                      \/ TeardownPending(session[d])
                      \/ peer[session[d]].noticed
    BY DEF NoOrphanSession
  <2> DEFINE p == session[d]
  <2>1. p \in PeerIds /\ peer[p].dev = d /\ peer[p].auth = "ok"
    BY DEF SInv, IInv, TypeOK, OwnerInv, SessionIsOwn
  <2>2. p <= born
    BY <2>1 DEF SInv, IInv, TypeOK, PeerInv, UnbornIsFresh, PeerIds
  <2>3. Current(p) \/ SureTeardown(p) \/ peer[p].noticed \/ Quiet(p) \/ Inert(p)
    BY <2>1, <2>2 DEF SInv, OwnerInv, CaredFor
  <2>4. ~Quiet(p) /\ ~Inert(p)
    BY <2>1 DEF Quiet, Inert
  <2>5. SureTeardown(p) => TeardownPending(p)
    BY DEF SureTeardown, TeardownPending, SureStages, TeardownStages
  <2> QED
    BY <2>1, <2>3, <2>4, <2>5 DEF Current
<1> QED
  BY <1>1, SessionInvariance, PTL

\* Once a reload is about to reopen, or the shutdown is over, no handler state of an
\* earlier peer is left but what an overlapping closeAll is still tearing down.
THEOREM CloseAllLeavesNothing == Spec => []NothingSurvivesCloseAll
<1>1. SInv => NothingSurvivesCloseAll
  <2> SUFFICES ASSUME SInv, reload = "reopen" \/ stopper = "done",
                      NEW d \in Devices, session[d] # NoPeer, ~peer[session[d]].noticed
               PROVE  \E c \in Callers : Waiting(c) /\ session[d] \in snap[c]
    BY DEF NothingSurvivesCloseAll
  <2> DEFINE p == session[d]
  <2>1. p \in PeerIds /\ peer[p].dev = d /\ peer[p].auth = "ok"
    BY DEF SInv, IInv, TypeOK, OwnerInv, SessionIsOwn
  <2>2. p <= born /\ p # NoPeer
    BY <2>1 DEF SInv, IInv, TypeOK, PeerInv, UnbornIsFresh, PeerIds
  <2>3. Current(p) \/ SureTeardown(p) \/ Quiet(p) \/ Inert(p)
    BY <2>1, <2>2 DEF SInv, OwnerInv, CaredFor
  <2>4. ~Quiet(p) /\ ~Inert(p)
    BY <2>1 DEF Quiet, Inert
  <2>5. ~Current(p)
    BY <2>1, <2>2 DEF Current, SInv, IInv, ManagerInv, WaitsOnlyWhileClosed,
                      ClosedTracksNothing
  <2>6. \A k \in TeardownStages : ~(work[p][k] > 0)
    BY <2>1 DEF SInv, WaitInv, GroupsStayZero, Busy
  <2>7. work[p]["cstop"] > 0 \/ work[p]["cnotify"] > 0
    BY <2>3, <2>4, <2>5, <2>6 DEF SureTeardown, SureStages, TeardownStages
  <2> QED
    BY <2>1, <2>7 DEF SInv, WaitInv, SnapshotAwaited
<1> QED
  BY <1>1, SessionInvariance, PTL

\* When CloseAll has returned, cleanupWg is zero and stays zero, and every peer of
\* its snapshot is closed.
THEOREM ShutdownIsComplete == Spec => []ShutdownWaitsForAll
<1>1. SInv => ShutdownWaitsForAll
  BY DEF SInv, WaitInv, GroupsStayZero, SnapshotCloses, ShutdownWaitsForAll
<1> QED
  BY <1>1, SessionInvariance, PTL

=============================================================================
