------------------------- MODULE PeerManager_proofs -------------------------
(***************************************************************************)
(* Safety of the PeerManager for every number of devices, peers, reloads    *)
(* and losses: the inductive invariant IInv, and what follows from it.      *)
(***************************************************************************)
EXTENDS PeerManager, SequenceTheorems, TLAPS

\* The read loop serves a device from the early checks to the end of a request.
LoopServesDevice == loop.pc \notin {"idle", "exited"} => loop.dev \in Devices

\* Between the removal of the old peer and the insertion of the new one the
\* device has no peer: only the read loop itself inserts.
LoopFoundNoPeer == loop.pc \in {"torn", "fetch"} => peers[loop.dev] = NoPeer

\* The old peer whose teardown the read loop waits for is out of the map.
LoopOldIsGone ==
    loop.pc = "torn" =>
        /\ loop.old \in PeerIds
        /\ loop.old <= born
        /\ \A d \in Devices : peers[d] # loop.old

\* The read loop sets up, closes or looks at a peer that was created.
LoopHasPeer ==
    /\ loop.pc \in {"setup", "close", "notice", "condemn"} => loop.new \in PeerIds
    /\ loop.pc \in {"notice", "condemn"} => loop.new <= born

\* CloseAll sets shutDown before anything else.
ShutdownFlagged == stopper # "idle" => shutDown

\* A tracked peer was created, and for the device that maps to it.
TrackedIsOwn ==
    \A d \in Devices : peers[d] # NoPeer => peers[d] <= born /\ peer[peers[d]].dev = d

\* Stages a peer's goroutine reaches only after the peer left the map.
GoneStages == CloseStages \cup {"rstop", "rnotify", "cstop", "cnotify"}

\* What has begun to close, or is about to, is out of the map and stays out.
GoneIsUntracked ==
    \A p \in PeerIds :
        (pclosed[p] # "no" \/ \E k \in GoneStages : work[p][k] > 0) =>
            \A d \in Devices : peers[d] # p

\* Nothing has happened yet to a peer that is not created.
UnbornIsFresh ==
    \A p \in PeerIds : p > born =>
        /\ pclosed[p] = "no"
        /\ \A k \in Stages : work[p][k] = 0
        /\ peer[p].conn = "new"
        /\ peer[p].auth = "none"

\* A grace-timer callback that looked its peer up holds a peer that was created.
TimerHoldsPeer ==
    \A d \in Devices : timer[d].pc \in {"check", "offer", "arm"} =>
        timer[d].peer \in PeerIds /\ timer[d].peer <= born

\* The inductive form of OnlyPairedTracked: between SetAllowedDeviceID and the
\* closeAll that follows it, peers of the previous pairing are still tracked.
PairedUnlessLoaded ==
    reload # "loaded" => \A d \in Devices : peers[d] # NoPeer => d = allowedDeviceID

LoopInv == LoopServesDevice /\ LoopFoundNoPeer /\ LoopOldIsGone /\ LoopHasPeer
PeerInv == TrackedIsOwn /\ GoneIsUntracked /\ UnbornIsFresh /\ TimerHoldsPeer
ManagerInv ==
    /\ ClosedTracksNothing
    /\ ShutdownFlagged
    /\ WaitsOnlyWhileClosed
    /\ PairedUnlessLoaded
    /\ WatchdogWatchesTracked

IInv == TypeOK /\ LoopInv /\ PeerInv /\ ManagerInv

-----------------------------------------------------------------------------
(* Goroutines: the work function keeps its shape.                           *)

\* Starting a goroutine keeps the counts natural numbers.
LEMMA SpawnType ==
    ASSUME NEW w \in Works, NEW p \in PeerIds, NEW k \in Stages
    PROVE  Spawn(w, p, k) \in Works
BY DEF Works, Spawn

\* So does ending one that exists.
LEMMA FinishType ==
    ASSUME NEW w \in Works, NEW p \in PeerIds, NEW k \in Stages, w[p][k] > 0
    PROVE  Finish(w, p, k) \in Works
BY DEF Works, Finish

\* So does moving one from a stage to another.
LEMMA MoveType ==
    ASSUME NEW w \in Works, NEW p \in PeerIds, NEW k \in Stages,
           NEW n \in Stages, w[p][k] > 0
    PROVE  Move(w, p, k, n) \in Works
BY FinishType, SpawnType DEF Move

\* Starting a goroutine for a tracked, closing or failed peer.
LEMMA GoType ==
    ASSUME NEW w \in Works, NEW p \in PeerIds
    PROVE  /\ GoClose(w, p) \in Works
           /\ GoEvict(w, p) \in Works
           /\ ScheduleCleanup(w, p) \in Works
           /\ CloseViaManager(w, p) \in Works
BY SpawnType DEF Stages, GoClose, GoEvict, ScheduleCleanup, CloseViaManager


(* Peer structs: the updates the actions make.                              *)

\* Two structs of the same device, connection state and channel state.
SameLife(r, s) == r.dev = s.dev /\ r.conn = s.conn /\ r.auth = s.auth

\* The fields of a peer struct have their types.
LEMMA StructFields ==
    ASSUME TypeOK, NEW p \in PeerIds
    PROVE  /\ peer[p] \in PeerStruct
           /\ peer[p].dev \in Devices \cup {Unpaired}
           /\ peer[p].attempt \in Attempts \cup {NoAttempt}
           /\ peer[p].conn \in ConnStates
           /\ peer[p].cbs \in SUBSET Callbacks
BY DEF TypeOK, PeerStruct

\* A connection state change, with its callback, keeps the device.
LEMMA StructConn ==
    ASSUME NEW r \in PeerStruct, NEW c \in ConnStates, NEW b \in SUBSET Callbacks
    PROVE  /\ [r EXCEPT !.conn = c, !.cbs = b] \in PeerStruct
           /\ [r EXCEPT !.conn = c, !.cbs = b].dev = r.dev
BY DEF PeerStruct

\* A callback that has run leaves the rest alone.
LEMMA StructCbs ==
    ASSUME NEW r \in PeerStruct, NEW b \in SUBSET Callbacks
    PROVE  /\ [r EXCEPT !.cbs = b] \in PeerStruct
           /\ SameLife([r EXCEPT !.cbs = b], r)
BY DEF PeerStruct, SameLife

\* Offer, answer watchdog and notice leave device, connection and channel alone.
LEMMA StructFlags ==
    ASSUME NEW r \in PeerStruct, NEW o \in BOOLEAN
    PROVE  /\ [r EXCEPT !.offer = o] \in PeerStruct
           /\ [r EXCEPT !.answerTimer = o] \in PeerStruct
           /\ [r EXCEPT !.offer = o, !.answerTimer = o] \in PeerStruct
           /\ [r EXCEPT !.noticed = o] \in PeerStruct
           /\ SameLife([r EXCEPT !.offer = o], r)
           /\ SameLife([r EXCEPT !.answerTimer = o], r)
           /\ SameLife([r EXCEPT !.offer = o, !.answerTimer = o], r)
           /\ SameLife([r EXCEPT !.noticed = o], r)
BY DEF PeerStruct, SameLife

\* An applied answer keeps the device.
LEMMA StructAnswered ==
    ASSUME NEW r \in PeerStruct, NEW c \in ConnStates
    PROVE  /\ [r EXCEPT !.offer = FALSE, !.answerTimer = FALSE, !.conn = c] \in PeerStruct
           /\ [r EXCEPT !.offer = FALSE, !.answerTimer = FALSE, !.conn = c].dev = r.dev
BY DEF PeerStruct

\* So do the steps of the handshake and of dispatch.
LEMMA StructChannel ==
    ASSUME NEW r \in PeerStruct, NEW u \in {"none", "challenged", "ok", "failed"},
           NEW g \in {"idle", "busy", "stopped"}
    PROVE  /\ [r EXCEPT !.auth = u] \in PeerStruct
           /\ [r EXCEPT !.dispatch = g] \in PeerStruct
           /\ [r EXCEPT !.auth = u].dev = r.dev
           /\ SameLife([r EXCEPT !.dispatch = g], r)
BY DEF PeerStruct, SameLife

\* Replacing one struct by another keeps the shape of the function.
LEMMA SetPeerType ==
    ASSUME peer \in [PeerIds -> PeerStruct], NEW p \in PeerIds,
           NEW r \in PeerStruct, SetPeer(p, r)
    PROVE  peer' \in [PeerIds -> PeerStruct]
BY DEF SetPeer

\* The struct handleConnectRequest inserts belongs to the requesting device.
LEMMA NewStruct ==
    ASSUME NEW d \in Devices, NEW a \in Attempts \cup {NoAttempt}
    PROVE  /\ [NoStruct EXCEPT !.dev = d, !.attempt = a] \in PeerStruct
           /\ [NoStruct EXCEPT !.dev = d, !.attempt = a].dev = d
BY DEF NoStruct, PeerStruct, ConnStates, Callbacks

\* A list of replaced attempts stays one.
LEMMA RecordType ==
    ASSUME TypeOK, NEW a \in Attempts \cup {NoAttempt}
    PROVE  RecordReplaced(a) \in Seq(Attempts \cup {NoAttempt})
<1> DEFINE A == Attempts \cup {NoAttempt}
           s == Append(replacedAttempts, a)
<1>1. replacedAttempts \in Seq(A)
  BY DEF TypeOK
<1>2. s \in Seq(A) /\ s # <<>>
  BY <1>1, AppendProperties
<1>3. Tail(s) \in Seq(A)
  BY <1>2, HeadTailProperties
<1> QED
  BY <1>1, <1>2, <1>3 DEF RecordReplaced

\* The read loop at rest.
LEMMA LoopIdleType == LoopIdle \in LoopStruct
BY DEF LoopIdle, LoopStruct

\* The steps of the signaling read loop keep every variable's shape.
LEMMA ReadLoopType == ASSUME IInv, ReadLoop PROVE TypeOK'
<1>1. ASSUME NEW d \in Devices, NEW a \in Attempts \cup {NoAttempt}, ConnectRequest(d, a)
      PROVE  TypeOK'
  <2>1. loop' \in LoopStruct
    BY <1>1 DEF IInv, TypeOK, ConnectRequest, LoopStruct, LoopIdle, NoPeer
  <2> QED
    BY <1>1, <2>1 DEF IInv, TypeOK, ConnectRequest, pmVars, timerVars, callerVars
<1>2. ASSUME NEW d \in Devices, NEW a \in Attempts \cup {NoAttempt}, NEW ok \in BOOLEAN,
             SDPAnswer(d, a, ok)
      PROVE  TypeOK'
  <2>1. peers[d] \in PeerIds
    BY <1>2 DEF IInv, TypeOK, SDPAnswer
  <2>2. (IF peer[peers[d]].conn = "new" THEN "connecting" ELSE peer[peers[d]].conn)
            \in ConnStates
    BY <2>1, StructFields DEF IInv, ConnStates
  <2>3. peer' \in [PeerIds -> PeerStruct]
    BY <1>2, <2>1, <2>2, StructFields, StructAnswered, SetPeerType DEF SDPAnswer, IInv,
       TypeOK
  <2>4. work' \in Works
    BY <1>2, <2>1, GoType DEF IInv, TypeOK, SDPAnswer
  <2>5. left' \in [Budgets -> Nat]
    BY <1>2 DEF IInv, TypeOK, SDPAnswer, Use, Budgets
  <2> QED
    BY <1>2, <2>1, <2>3, <2>4, <2>5 DEF IInv, TypeOK, SDPAnswer, pmVars, timerVars, callerVars
<1>3. ASSUME NEW d \in Devices, NEW a \in Attempts \cup {NoAttempt}, PeerUnavailable(d, a)
      PROVE  TypeOK'
  <2>1. loop' \in LoopStruct
    BY <1>3 DEF IInv, TypeOK, PeerUnavailable, LoopStruct, LoopIdle, NoPeer
  <2> QED
    BY <1>3, <2>1 DEF IInv, TypeOK, PeerUnavailable, Use, Budgets, pmVars, timerVars, callerVars
<1>4. ASSUME SecretUnavailable PROVE TypeOK'
  <2>1. loop' \in LoopStruct
    BY <1>4 DEF IInv, TypeOK, SecretUnavailable, LoopStruct, LoopIdle, NoPeer
  <2> QED
    BY <1>4, <2>1 DEF IInv, TypeOK, SecretUnavailable, pmVars, timerVars, callerVars
<1>5. ASSUME CheckLimit PROVE TypeOK'
  <2>1. loop' \in LoopStruct
    BY <1>5 DEF IInv, TypeOK, CheckLimit, LoopStruct, LoopIdle, NoPeer
  <2> QED
    BY <1>5, <2>1 DEF IInv, TypeOK, CheckLimit, pmVars, timerVars, callerVars
<1>6. ASSUME ReplaceOld PROVE TypeOK'
  <2>1. work' \in Works
    BY <1>6, SpawnType DEF IInv, TypeOK, ReplaceOld, LoopInv, LoopServesDevice, Stages
  <2>2. loop' \in LoopStruct
    BY <1>6 DEF IInv, TypeOK, ReplaceOld, LoopStruct, LoopInv, LoopServesDevice
  <2>3. replacedAttempts' \in Seq(Attempts \cup {NoAttempt})
    <3>1. loop.dev \in Devices
      BY <1>6 DEF IInv, LoopInv, LoopServesDevice, ReplaceOld
    <3>2. peers[loop.dev] \in PeerIds \cup {NoPeer}
      BY <3>1 DEF IInv, TypeOK
    <3>3. CASE peers[loop.dev] = NoPeer
      BY <1>6, <3>3 DEF ReplaceOld, IInv, TypeOK
    <3>4. CASE peers[loop.dev] # NoPeer
      <4>1. peer[peers[loop.dev]].attempt \in Attempts \cup {NoAttempt}
        BY <3>2, <3>4, StructFields DEF IInv
      <4> QED
        BY <1>6, <3>4, <4>1, RecordType DEF ReplaceOld, IInv
    <3> QED
      BY <3>3, <3>4
  <2> QED
    BY <1>6, <2>1, <2>2, <2>3 DEF IInv, TypeOK, ReplaceOld, StopTimers, NoPeer,
                                  pmVars, callerVars
<1>7. ASSUME OldTornDown PROVE TypeOK'
  <2>1. work' \in Works
    BY <1>7, GoType DEF IInv, TypeOK, OldTornDown, LoopInv, LoopOldIsGone
  <2>2. loop' \in LoopStruct
    BY <1>7 DEF IInv, TypeOK, OldTornDown, LoopStruct
  <2> QED
    BY <1>7, <2>1, <2>2 DEF IInv, TypeOK, OldTornDown, pmVars, timerVars, callerVars
<1>8. ASSUME CreateFails PROVE TypeOK'
  <2>1. loop' \in LoopStruct
    BY <1>8 DEF IInv, TypeOK, CreateFails, LoopStruct, LoopIdle, NoPeer
  <2> QED
    BY <1>8, <2>1 DEF IInv, TypeOK, CreateFails, pmVars, timerVars, callerVars
<1>9. ASSUME InsertPeer PROVE TypeOK'
  <2>1. born + 1 \in PeerIds
    BY <1>9, BoundAssumption DEF IInv, TypeOK, PeerIds, InsertPeer
  <2>2. loop.dev \in Devices /\ loop.attempt \in Attempts \cup {NoAttempt}
    BY <1>9 DEF IInv, TypeOK, LoopStruct, LoopInv, LoopServesDevice, InsertPeer
  <2>3. peer' \in [PeerIds -> PeerStruct]
    BY <1>9, <2>1, <2>2, NewStruct, SetPeerType DEF InsertPeer, IInv, TypeOK
  <2>4. loop' \in LoopStruct
    <3>1. CASE MayInsert(loop.dev)
      BY <1>9, <2>1, <3>1 DEF IInv, TypeOK, InsertPeer, LoopStruct
    <3>2. CASE ~MayInsert(loop.dev)
      BY <1>9, <3>2, LoopIdleType DEF InsertPeer
    <3> QED
      BY <3>1, <3>2
  <2>5. born' \in 0 .. MaxConnects
    BY <1>9, BoundAssumption DEF IInv, TypeOK, InsertPeer
  <2> QED
    BY <1>9, <2>1, <2>3, <2>4, <2>5 DEF IInv, TypeOK, InsertPeer, pmVars, timerVars,
       callerVars
<1>10. ASSUME SetupFails PROVE TypeOK'
  <2>1. work' \in Works
    BY <1>10, SpawnType DEF IInv, TypeOK, SetupFails, LoopInv, LoopServesDevice, Stages
  <2>2. loop' \in LoopStruct
    <3>1. peers[loop.dev] \in PeerIds \cup {NoPeer}
      BY <1>10 DEF IInv, TypeOK, LoopInv, LoopServesDevice, SetupFails
    <3>2. CASE peers[loop.dev] = NoPeer
      BY <1>10, <3>2, LoopIdleType DEF SetupFails
    <3>3. CASE peers[loop.dev] # NoPeer
      BY <1>10, <3>1, <3>3 DEF SetupFails, LoopStruct, IInv, TypeOK
    <3> QED
      BY <3>2, <3>3
  <2> QED
    BY <1>10, <2>1, <2>2 DEF IInv, TypeOK, SetupFails, StopTimers, pmVars, timerVars,
       callerVars
<1>11. ASSUME SetupCloseReturns PROVE TypeOK'
  <2>1. loop' \in LoopStruct
    BY <1>11 DEF IInv, TypeOK, SetupCloseReturns, LoopStruct, LoopIdle, NoPeer
  <2> QED
    BY <1>11, <2>1 DEF IInv, TypeOK, SetupCloseReturns, pmVars, timerVars, callerVars
<1>12. ASSUME OfferSent PROVE TypeOK'
  <2>1. peer' \in [PeerIds -> PeerStruct]
    BY <1>12, StructFields, StructFlags, SetPeerType DEF IInv, TypeOK, OfferSent,
       LoopInv, LoopHasPeer
  <2>2. loop' \in LoopStruct
    BY <1>12 DEF IInv, TypeOK, OfferSent, LoopStruct, LoopIdle, NoPeer
  <2> QED
    BY <1>12, <2>1, <2>2 DEF IInv, TypeOK, OfferSent, pmVars, timerVars, callerVars
<1>13. ASSUME NoticeIgnored PROVE TypeOK'
  BY <1>13, LoopIdleType DEF IInv, TypeOK, NoticeIgnored, pmVars, timerVars, callerVars
<1>14. ASSUME NoticeChecked PROVE TypeOK'
  <2>1. loop' \in LoopStruct
    BY <1>14 DEF IInv, TypeOK, NoticeChecked, LoopStruct
  <2> QED
    BY <1>14, <2>1 DEF IInv, TypeOK, NoticeChecked, pmVars, timerVars, callerVars
<1>15. ASSUME NoticeCloses PROVE TypeOK'
  <2>1. work' \in Works
    BY <1>15, GoType DEF IInv, TypeOK, NoticeCloses, LoopInv, LoopHasPeer
  <2>2. peer' \in [PeerIds -> PeerStruct]
    BY <1>15, StructFields, StructFlags, SetPeerType DEF IInv, TypeOK, NoticeCloses,
       LoopInv, LoopHasPeer
  <2> QED
    BY <1>15, <2>1, <2>2, LoopIdleType DEF IInv, TypeOK, NoticeCloses, pmVars, timerVars, callerVars
<1> QED
  BY <1>1, <1>2, <1>3, <1>4, <1>5, <1>6, <1>7, <1>8, <1>9, <1>10, <1>11,
     <1>12, <1>13, <1>14, <1>15 DEF ReadLoop

\* The steps of pion and the mobile keep every variable's shape.
LEMMA PionType == ASSUME IInv, Pion PROVE TypeOK'
<1>1. ASSUME NEW p \in PeerIds, ConnUp(p) PROVE TypeOK'
  <2>1. peer[p].cbs \cup ({"connected"} \cap Callbacks) \in SUBSET Callbacks
    BY StructFields DEF IInv
  <2>2. [peer[p] EXCEPT !.conn = "connected", !.cbs = @ \cup ({"connected"} \cap Callbacks)]
            \in PeerStruct
    BY <2>1, StructFields, StructConn DEF IInv, ConnStates
  <2>3. peer' \in [PeerIds -> PeerStruct]
    BY <1>1, <2>2, SetPeerType DEF ConnUp, ConnChange, IInv, TypeOK
  <2> QED
    BY <1>1, <2>3 DEF IInv, TypeOK, ConnUp, pmVars, timerVars, callerVars
<1>2. ASSUME NEW p \in PeerIds, ConnLost(p) PROVE TypeOK'
  <2>1. peer[p].cbs \cup ({"disconnected"} \cap Callbacks) \in SUBSET Callbacks
    BY StructFields DEF IInv
  <2>2. [peer[p] EXCEPT !.conn = "disconnected",
                        !.cbs = @ \cup ({"disconnected"} \cap Callbacks)]
            \in PeerStruct
    BY <2>1, StructFields, StructConn DEF IInv, ConnStates
  <2>3. peer' \in [PeerIds -> PeerStruct]
    BY <1>2, <2>2, SetPeerType DEF ConnLost, ConnChange, IInv, TypeOK
  <2> QED
    BY <1>2, <2>3 DEF IInv, TypeOK, ConnLost, Use, Budgets, pmVars, timerVars, callerVars
<1>3. ASSUME NEW p \in PeerIds, ConnFailed(p) PROVE TypeOK'
  <2>1. peer[p].cbs \cup ({"failed"} \cap Callbacks) \in SUBSET Callbacks
    BY StructFields DEF IInv
  <2>2. [peer[p] EXCEPT !.conn = "failed", !.cbs = @ \cup ({"failed"} \cap Callbacks)]
            \in PeerStruct
    BY <2>1, StructFields, StructConn DEF IInv, ConnStates
  <2>3. peer' \in [PeerIds -> PeerStruct]
    BY <1>3, <2>2, SetPeerType DEF ConnFailed, ConnChange, IInv, TypeOK
  <2> QED
    BY <1>3, <2>3 DEF IInv, TypeOK, ConnFailed, pmVars, timerVars, callerVars
<1>4. ASSUME NEW p \in PeerIds, ChannelOpens(p) PROVE TypeOK'
  <2>1. peer' \in [PeerIds -> PeerStruct]
    BY <1>4, StructFields, StructChannel, SetPeerType DEF IInv, TypeOK, ChannelOpens
  <2> QED
    BY <1>4, <2>1 DEF IInv, TypeOK, ChannelOpens, pmVars, timerVars, callerVars
<1>5. ASSUME NEW p \in PeerIds, AuthSucceeds(p) PROVE TypeOK'
  <2>1. peer' \in [PeerIds -> PeerStruct]
    BY <1>5, StructFields, StructChannel, SetPeerType DEF IInv, TypeOK, AuthSucceeds
  <2> QED
    BY <1>5, <2>1 DEF IInv, TypeOK, AuthSucceeds, pmVars, timerVars, callerVars
<1>6. ASSUME NEW p \in PeerIds, RequestBegins(p) PROVE TypeOK'
  <2>1. peer' \in [PeerIds -> PeerStruct]
    BY <1>6, StructFields, StructChannel, SetPeerType DEF IInv, TypeOK, RequestBegins
  <2> QED
    BY <1>6, <2>1 DEF IInv, TypeOK, RequestBegins, pmVars, timerVars, callerVars
<1> QED
  BY <1>1, <1>2, <1>3, <1>4, <1>5, <1>6 DEF Pion

\* The steps of the callbacks keep every variable's shape.
LEMMA CallbackType == ASSUME IInv, Callback PROVE TypeOK'
<1>1. ASSUME NEW p \in PeerIds, NEW s \in {"failed", "closed"}, OnFailedOrClosed(p, s)
      PROVE  TypeOK'
  <2>1. work' \in Works
    BY <1>1, GoType DEF IInv, TypeOK, OnFailedOrClosed
  <2>2. peer' \in [PeerIds -> PeerStruct]
    BY <1>1, StructFields, StructCbs, SetPeerType DEF IInv, TypeOK, OnFailedOrClosed,
       CallbackDone
  <2> QED
    BY <1>1, <2>1, <2>2 DEF IInv, TypeOK, OnFailedOrClosed, StopTimers, Current, pmVars,
       timerVars, callerVars
<1>2. ASSUME NEW p \in PeerIds, OnConnected(p) PROVE TypeOK'
  <2>1. peer' \in [PeerIds -> PeerStruct]
    BY <1>2, StructFields, StructCbs, SetPeerType DEF IInv, TypeOK, OnConnected,
       CallbackDone
  <2> QED
    BY <1>2, <2>1 DEF IInv, TypeOK, OnConnected, StopTimers, Current, pmVars, timerVars,
       callerVars
<1>3. ASSUME NEW p \in PeerIds, OnDisconnected(p) PROVE TypeOK'
  <2>1. peer' \in [PeerIds -> PeerStruct]
    BY <1>3, StructFields, StructCbs, SetPeerType DEF IInv, TypeOK, OnDisconnected,
       CallbackDone
  <2> QED
    BY <1>3, <2>1 DEF IInv, TypeOK, OnDisconnected, Current, pmVars, timerVars, callerVars
<1>4. ASSUME NEW p \in PeerIds, AuthFails(p) PROVE TypeOK'
  <2>1. work' \in Works
    BY <1>4, GoType DEF IInv, TypeOK, AuthFails
  <2>2. peer' \in [PeerIds -> PeerStruct]
    BY <1>4, StructFields, StructChannel, SetPeerType DEF IInv, TypeOK, AuthFails
  <2> QED
    BY <1>4, <2>1, <2>2 DEF IInv, TypeOK, AuthFails, pmVars, timerVars, callerVars
<1>5. ASSUME NEW p \in PeerIds, RequestEnds(p) PROVE TypeOK'
  <2>1. peer' \in [PeerIds -> PeerStruct]
    BY <1>5, StructFields, StructChannel, SetPeerType DEF IInv, TypeOK, RequestEnds
  <2> QED
    BY <1>5, <2>1 DEF IInv, TypeOK, RequestEnds, pmVars, timerVars, callerVars
<1>6. ASSUME NEW p \in PeerIds, AnswerTimeout(p) PROVE TypeOK'
  <2>1. work' \in Works
    BY <1>6, GoType DEF IInv, TypeOK, AnswerTimeout
  <2>2. peer' \in [PeerIds -> PeerStruct]
    BY <1>6, StructFields, StructFlags, SetPeerType DEF IInv, TypeOK, AnswerTimeout
  <2> QED
    BY <1>6, <2>1, <2>2 DEF IInv, TypeOK, AnswerTimeout, pmVars, timerVars, callerVars
<1> QED
  BY <1>1, <1>2, <1>3, <1>4, <1>5, <1>6 DEF Callback

\* The steps of the background goroutines keep every variable's shape.
LEMMA GoroutineType == ASSUME IInv, Goroutine PROVE TypeOK'
<1>1. ASSUME NEW p \in PeerIds, NEW k \in {"stop", "rstop", "cstop"}, StopDispatch(p, k)
      PROVE  TypeOK'
  <2>1. work' \in Works
    BY <1>1, MoveType DEF IInv, TypeOK, StopDispatch, AfterStop, Stages
  <2>2. peer' \in [PeerIds -> PeerStruct]
    BY <1>1, StructFields, StructChannel, SetPeerType DEF IInv, TypeOK, StopDispatch
  <2> QED
    BY <1>1, <2>1, <2>2 DEF IInv, TypeOK, StopDispatch, pmVars, timerVars, callerVars
<1>2. ASSUME NEW p \in PeerIds, CheckCurrent(p) PROVE TypeOK'
  <2>1. work' \in Works
    BY <1>2, MoveType DEF IInv, TypeOK, CheckCurrent, Stages
  <2> QED
    BY <1>2, <2>1 DEF IInv, TypeOK, CheckCurrent, pmVars, timerVars, callerVars
<1>3. ASSUME NEW p \in PeerIds, Notify(p) PROVE TypeOK'
  <2>1. work' \in Works
    BY <1>3, MoveType DEF IInv, TypeOK, Notify, Stages
  <2> QED
    BY <1>3, <2>1 DEF IInv, TypeOK, Notify, DropSession, pmVars, timerVars, callerVars
<1>4. ASSUME NEW p \in PeerIds, NotifyReplaced(p) PROVE TypeOK'
  <2>1. work' \in Works
    BY <1>4, FinishType DEF IInv, TypeOK, NotifyReplaced, Stages
  <2> QED
    BY <1>4, <2>1 DEF IInv, TypeOK, NotifyReplaced, DropSession, pmVars, timerVars,
       callerVars
<1>5. ASSUME NEW p \in PeerIds, NotifyClosing(p) PROVE TypeOK'
  <2>1. work' \in Works
    BY <1>5, MoveType DEF IInv, TypeOK, NotifyClosing, Stages
  <2> QED
    BY <1>5, <2>1 DEF IInv, TypeOK, NotifyClosing, DropSession, pmVars, timerVars,
       callerVars
<1>6. ASSUME NEW p \in PeerIds, NEW k \in {"evict", "evictU"}, ClosePeerIfCurrent(p, k)
      PROVE  TypeOK'
  <2>1. work' \in Works
    BY <1>6, MoveType DEF IInv, TypeOK, ClosePeerIfCurrent, AfterEvict, Stages
  <2> QED
    BY <1>6, <2>1 DEF IInv, TypeOK, ClosePeerIfCurrent, StopTimers, Current, NoPeer,
       pmVars, timerVars, callerVars
<1>7. ASSUME NEW p \in PeerIds, CloseBegins(p) PROVE TypeOK'
  BY <1>7 DEF IInv, TypeOK, CloseBegins, pmVars, timerVars, callerVars
<1>8. ASSUME NEW p \in PeerIds, CloseEnds(p) PROVE TypeOK'
  <2>1. work' \in Works
    BY <1>8 DEF IInv, TypeOK, CloseEnds, Works
  <2>2. peer' \in [PeerIds -> PeerStruct]
    BY <1>8, StructFields, StructConn, SetPeerType DEF IInv, TypeOK, CloseEnds,
       Callbacks, ConnStates
  <2> QED
    BY <1>8, <2>1, <2>2 DEF IInv, TypeOK, CloseEnds, pmVars, timerVars, callerVars
<1>9. ASSUME NEW p \in PeerIds, NEW k \in CloseStages, CloseReturns(p, k) PROVE TypeOK'
  <2>1. work' \in Works
    BY <1>9, FinishType DEF IInv, TypeOK, CloseReturns, CloseStages, Stages
  <2> QED
    BY <1>9, <2>1 DEF IInv, TypeOK, CloseReturns, pmVars, timerVars, callerVars
<1> QED
  BY <1>1, <1>2, <1>3, <1>4, <1>5, <1>6, <1>7, <1>8, <1>9 DEF Goroutine

\* The steps of reload and shutdown keep every variable's shape.
LEMMA CloseAllType == ASSUME IInv, CloseAll PROVE TypeOK'
<1>1. ASSUME NEW d \in Devices \cup {Unpaired}, ReloadPairing(d) PROVE TypeOK'
  BY <1>1 DEF IInv, TypeOK, ReloadPairing, Use, Budgets, pmVars, timerVars, callerVars
<1>2. ASSUME ReloadCloseAll PROVE TypeOK'
  <2>1. work' \in Works
    BY <1>2 DEF IInv, TypeOK, ReloadCloseAll, CloseAllPeers, Works, Stages
  <2> QED
    BY <1>2, <2>1 DEF IInv, TypeOK, ReloadCloseAll, CloseAllPeers, Callers,
       TrackedDevices, pmVars, timerVars, callerVars
<1>3. ASSUME ReloadWaited PROVE TypeOK'
  BY <1>3 DEF IInv, TypeOK, ReloadWaited, pmVars, timerVars, callerVars
<1>4. ASSUME Reopen PROVE TypeOK'
  BY <1>4 DEF IInv, TypeOK, Reopen, Reopened, pmVars, timerVars, callerVars
<1>5. ASSUME BeginShutdown PROVE TypeOK'
  <2>1. loop' \in LoopStruct
    BY <1>5 DEF IInv, TypeOK, BeginShutdown, LoopStruct
  <2> QED
    BY <1>5, <2>1 DEF IInv, TypeOK, BeginShutdown, pmVars, timerVars, callerVars
<1>6. ASSUME ShutdownCloseAll PROVE TypeOK'
  <2>1. work' \in Works
    BY <1>6 DEF IInv, TypeOK, ShutdownCloseAll, CloseAllPeers, Works, Stages
  <2> QED
    BY <1>6, <2>1 DEF IInv, TypeOK, ShutdownCloseAll, CloseAllPeers, Callers,
       TrackedDevices, pmVars, timerVars, callerVars
<1>7. ASSUME ShutdownWaited PROVE TypeOK'
  BY <1>7 DEF IInv, TypeOK, ShutdownWaited, pmVars, timerVars, callerVars
<1> QED
  BY <1>1, <1>2, <1>3, <1>4, <1>5, <1>6, <1>7 DEF CloseAll

\* The steps of the grace timer and the watchdogs keep every variable's shape.
LEMMA TimersType == ASSUME IInv, Timers PROVE TypeOK'
<1>1. ASSUME NEW d \in Devices, GraceExpires(d) PROVE TypeOK'
  <2>1. timer' \in [Devices -> TimerStruct]
    BY <1>1 DEF IInv, TypeOK, GraceExpires, TimerStruct, TimerIdle, NoPeer
  <2> QED
    BY <1>1, <2>1 DEF IInv, TypeOK, GraceExpires, pmVars, timerVars, callerVars
<1>2. ASSUME NEW d \in Devices, GraceLookup(d) PROVE TypeOK'
  <2>1. timer' \in [Devices -> TimerStruct]
    BY <1>2 DEF IInv, TypeOK, GraceLookup, TimerStruct, TimerIdle, NoPeer
  <2> QED
    BY <1>2, <2>1 DEF IInv, TypeOK, GraceLookup, pmVars, timerVars, callerVars
<1>3. ASSUME NEW d \in Devices, GraceRecovered(d) PROVE TypeOK'
  <2>1. timer' \in [Devices -> TimerStruct]
    BY <1>3 DEF IInv, TypeOK, GraceRecovered, TimerStruct, TimerIdle, NoPeer
  <2> QED
    BY <1>3, <2>1 DEF IInv, TypeOK, GraceRecovered, pmVars, timerVars, callerVars
<1>4. ASSUME NEW d \in Devices, GraceEarly(d) PROVE TypeOK'
  <2>1. timer' \in [Devices -> TimerStruct]
    BY <1>4 DEF IInv, TypeOK, GraceEarly, TimerStruct, TimerIdle, NoPeer
  <2> QED
    BY <1>4, <2>1 DEF IInv, TypeOK, GraceEarly, pmVars, timerVars, callerVars
<1>5. ASSUME NEW d \in Devices, RestartBegins(d) PROVE TypeOK'
  <2>1. timer' \in [Devices -> TimerStruct]
    BY <1>5 DEF IInv, TypeOK, RestartBegins, TimerStruct, TimerIdle, NoPeer
  <2> QED
    BY <1>5, <2>1 DEF IInv, TypeOK, RestartBegins, pmVars, timerVars, callerVars
<1>6. ASSUME NEW d \in Devices, RestartFails(d) PROVE TypeOK'
  <2>1. work' \in Works
    BY <1>6, GoType DEF IInv, TypeOK, RestartFails, PeerInv, TimerHoldsPeer
  <2>2. timer' \in [Devices -> TimerStruct]
    BY <1>6 DEF IInv, TypeOK, RestartFails, TimerStruct, TimerIdle, NoPeer
  <2> QED
    BY <1>6, <2>1, <2>2 DEF IInv, TypeOK, RestartFails, pmVars, timerVars, callerVars
<1>7. ASSUME NEW d \in Devices, RestartOffered(d) PROVE TypeOK'
  <2>1. peer' \in [PeerIds -> PeerStruct]
    BY <1>7, StructFields, StructFlags, SetPeerType DEF IInv, TypeOK, RestartOffered,
       PeerInv, TimerHoldsPeer
  <2>2. timer' \in [Devices -> TimerStruct]
    BY <1>7 DEF IInv, TypeOK, RestartOffered, TimerStruct, TimerIdle, NoPeer
  <2> QED
    BY <1>7, <2>1, <2>2 DEF IInv, TypeOK, RestartOffered, pmVars, timerVars, callerVars
<1>8. ASSUME NEW d \in Devices, ArmWatchdog(d) PROVE TypeOK'
  <2>1. timer' \in [Devices -> TimerStruct]
    BY <1>8 DEF IInv, TypeOK, ArmWatchdog, TimerStruct, TimerIdle, NoPeer
  <2> QED
    BY <1>8, <2>1 DEF IInv, TypeOK, ArmWatchdog, MayArm, pmVars, timerVars, callerVars
<1>9. ASSUME NEW d \in Devices, WatchdogExpires(d) PROVE TypeOK'
  BY <1>9 DEF IInv, TypeOK, WatchdogExpires, pmVars, timerVars, callerVars
<1>10. ASSUME NEW p \in PeerIds, WatchdogRuns(p) PROVE TypeOK'
  <2>1. work' \in Works
    BY <1>10, GoType DEF IInv, TypeOK, WatchdogRuns
  <2> QED
    BY <1>10, <2>1 DEF IInv, TypeOK, WatchdogRuns, pmVars, timerVars, callerVars
<1> QED
  BY <1>1, <1>2, <1>3, <1>4, <1>5, <1>6, <1>7, <1>8, <1>9, <1>10 DEF Timers

\* The steps of the idle sweep keep every variable's shape.
LEMMA SweepType == ASSUME IInv, Sweep PROVE TypeOK'
<1>1. ASSUME NEW d \in Devices, SweepTracked(d) PROVE TypeOK'
  <2>1. work' \in Works
    BY <1>1, GoType DEF IInv, TypeOK, SweepTracked
  <2> QED
    BY <1>1, <2>1 DEF IInv, TypeOK, SweepTracked, Use, Budgets, pmVars, timerVars,
       callerVars
<1>2. ASSUME NEW d \in Devices, SweepUntracked(d) PROVE TypeOK'
  BY <1>2 DEF IInv, TypeOK, SweepUntracked, Use, Budgets, pmVars, timerVars, callerVars
<1>3. ASSUME SweepDrops PROVE TypeOK'
  BY <1>3 DEF IInv, TypeOK, SweepDrops, DropSession, pmVars, timerVars, callerVars
<1> QED
  BY <1>1, <1>2, <1>3 DEF Sweep

-----------------------------------------------------------------------------
(* What a stage change does to the counts.                                  *)

\* Starting a goroutine changes one count.
LEMMA SpawnValue ==
    ASSUME NEW w \in Works, NEW p \in PeerIds, NEW k \in Stages,
           NEW q \in PeerIds, NEW j \in Stages
    PROVE  Spawn(w, p, k)[q][j] = IF q = p /\ j = k THEN w[q][j] + 1 ELSE w[q][j]
BY DEF Works, Spawn

\* So does ending one.
LEMMA FinishValue ==
    ASSUME NEW w \in Works, NEW p \in PeerIds, NEW k \in Stages,
           NEW q \in PeerIds, NEW j \in Stages
    PROVE  Finish(w, p, k)[q][j] = IF q = p /\ j = k THEN w[q][j] - 1 ELSE w[q][j]
BY DEF Works, Finish

\* The steps of the signaling read loop keep LoopInv.
LEMMA ReadLoopLoop == ASSUME IInv, ReadLoop PROVE LoopInv'
<1>1. ASSUME NEW d \in Devices, NEW a \in Attempts \cup {NoAttempt}, ConnectRequest(d, a)
      PROVE  LoopInv'
  BY <1>1 DEF IInv, TypeOK, LoopInv, LoopServesDevice, LoopFoundNoPeer, LoopOldIsGone,
     LoopHasPeer, ConnectRequest, LoopIdle, NoPeer, PeerIds
<1>2. ASSUME NEW d \in Devices, NEW a \in Attempts \cup {NoAttempt}, NEW ok \in BOOLEAN,
             SDPAnswer(d, a, ok)
      PROVE  LoopInv'
  BY <1>2 DEF IInv, TypeOK, LoopInv, LoopServesDevice, LoopFoundNoPeer, LoopOldIsGone,
     LoopHasPeer, SDPAnswer, Use, Budgets, ConnStates, NoPeer, PeerIds
<1>3. ASSUME NEW d \in Devices, NEW a \in Attempts \cup {NoAttempt}, PeerUnavailable(d, a)
      PROVE  LoopInv'
  <2>1. peers[d] \in PeerIds /\ peers[d] <= born
    BY <1>3 DEF PeerUnavailable, IInv, TypeOK, PeerInv, TrackedIsOwn
  <2>2. loop'.pc = "notice" /\ loop'.dev = d /\ loop'.new = peers[d] /\ born' = born
    BY <1>3 DEF PeerUnavailable, LoopIdle
  <2> QED
    BY <2>1, <2>2 DEF LoopInv, LoopServesDevice, LoopFoundNoPeer, LoopOldIsGone, LoopHasPeer
<1>4. ASSUME SecretUnavailable PROVE LoopInv'
  BY <1>4 DEF IInv, TypeOK, LoopInv, LoopServesDevice, LoopFoundNoPeer, LoopOldIsGone,
     LoopHasPeer, SecretUnavailable, LoopIdle, NoPeer, PeerIds
<1>5. ASSUME CheckLimit PROVE LoopInv'
  BY <1>5 DEF IInv, TypeOK, LoopInv, LoopServesDevice, LoopFoundNoPeer, LoopOldIsGone,
     LoopHasPeer, CheckLimit, LoopIdle, NoPeer, PeerIds
<1>6. ASSUME ReplaceOld PROVE LoopInv'
  <2>1. loop.dev \in Devices
    BY <1>6 DEF IInv, LoopInv, LoopServesDevice, ReplaceOld
  <2>2. CASE peers[loop.dev] = NoPeer
    <3>1. loop'.pc = "fetch" /\ loop'.dev = loop.dev /\ peers' = peers
      BY <1>6, <2>2 DEF ReplaceOld, IInv, TypeOK, LoopStruct
    <3> QED
      BY <2>1, <2>2, <3>1 DEF LoopInv, LoopServesDevice, LoopFoundNoPeer, LoopOldIsGone,
                              LoopHasPeer
  <2>3. CASE peers[loop.dev] # NoPeer
    <3>1. /\ loop'.pc = "torn" /\ loop'.dev = loop.dev /\ loop'.old = peers[loop.dev]
          /\ peers' = [peers EXCEPT ![loop.dev] = NoPeer] /\ born' = born
      BY <1>6, <2>3 DEF ReplaceOld, IInv, TypeOK, LoopStruct
    <3>2. \A d \in Devices : peers[d] = peers[loop.dev] => d = loop.dev
      BY <2>1, <2>3 DEF IInv, PeerInv, TrackedIsOwn
    <3>3. peers[loop.dev] \in PeerIds /\ peers[loop.dev] <= born
      BY <2>1, <2>3 DEF IInv, TypeOK, PeerInv, TrackedIsOwn
    <3>4. peers'[loop.dev] = NoPeer /\ \A d \in Devices : peers'[d] # peers[loop.dev]
      BY <2>1, <2>3, <3>1, <3>2 DEF IInv, TypeOK
    <3> QED
      BY <2>1, <3>1, <3>3, <3>4 DEF LoopInv, LoopServesDevice, LoopFoundNoPeer,
                                    LoopOldIsGone, LoopHasPeer
  <2> QED
    BY <2>2, <2>3
<1>7. ASSUME OldTornDown PROVE LoopInv'
  BY <1>7 DEF IInv, TypeOK, LoopInv, LoopServesDevice, LoopFoundNoPeer, LoopOldIsGone,
     LoopHasPeer, OldTornDown, NoPeer, PeerIds
<1>8. ASSUME CreateFails PROVE LoopInv'
  BY <1>8 DEF IInv, TypeOK, LoopInv, LoopServesDevice, LoopFoundNoPeer, LoopOldIsGone,
     LoopHasPeer, CreateFails, LoopIdle, NoPeer, PeerIds
<1>9. ASSUME InsertPeer PROVE LoopInv'
  <2>1. CASE MayInsert(loop.dev)
    <3>1. loop'.pc = "setup" /\ loop'.dev = loop.dev /\ loop'.new = born + 1
      BY <1>9, <2>1 DEF InsertPeer, IInv, TypeOK, LoopStruct
    <3>2. loop.dev \in Devices /\ born + 1 \in PeerIds
      BY <1>9, BoundAssumption DEF InsertPeer, IInv, TypeOK, LoopInv, LoopServesDevice,
         PeerIds
    <3> QED
      BY <3>1, <3>2 DEF LoopInv, LoopServesDevice, LoopFoundNoPeer, LoopOldIsGone,
         LoopHasPeer
  <2>2. CASE ~MayInsert(loop.dev)
    BY <1>9, <2>2 DEF InsertPeer, LoopIdle, LoopInv, LoopServesDevice, LoopFoundNoPeer,
                      LoopOldIsGone, LoopHasPeer
  <2> QED
    BY <2>1, <2>2
<1>10. ASSUME SetupFails PROVE LoopInv'
  <2>1. loop.dev \in Devices /\ peers[loop.dev] \in PeerIds \cup {NoPeer}
    BY <1>10 DEF SetupFails, IInv, TypeOK, LoopInv, LoopServesDevice
  <2>2. CASE peers[loop.dev] = NoPeer
    BY <1>10, <2>2 DEF SetupFails, LoopIdle, LoopInv, LoopServesDevice, LoopFoundNoPeer,
                       LoopOldIsGone, LoopHasPeer
  <2>3. CASE peers[loop.dev] # NoPeer
    <3>1. loop'.pc = "close" /\ loop'.dev = loop.dev /\ loop'.new = peers[loop.dev]
      BY <1>10, <2>3 DEF SetupFails, IInv, TypeOK, LoopStruct
    <3> QED
      BY <2>1, <2>3, <3>1 DEF LoopInv, LoopServesDevice, LoopFoundNoPeer, LoopOldIsGone,
                              LoopHasPeer
  <2> QED
    BY <2>2, <2>3
<1>11. ASSUME SetupCloseReturns PROVE LoopInv'
  BY <1>11 DEF IInv, TypeOK, LoopInv, LoopServesDevice, LoopFoundNoPeer, LoopOldIsGone,
     LoopHasPeer, SetupCloseReturns, LoopIdle, NoPeer, PeerIds
<1>12. ASSUME OfferSent PROVE LoopInv'
  BY <1>12 DEF IInv, TypeOK, LoopInv, LoopServesDevice, LoopFoundNoPeer, LoopOldIsGone,
     LoopHasPeer, OfferSent, LoopIdle, NoPeer, PeerIds
<1>13. ASSUME NoticeIgnored PROVE LoopInv'
  BY <1>13 DEF LoopInv, LoopServesDevice, LoopFoundNoPeer, LoopOldIsGone,
     LoopHasPeer, NoticeIgnored, LoopIdle
<1>14. ASSUME NoticeChecked PROVE LoopInv'
  BY <1>14 DEF IInv, TypeOK, LoopStruct, LoopInv, LoopServesDevice, LoopFoundNoPeer, LoopOldIsGone,
     LoopHasPeer, NoticeChecked
<1>15. ASSUME NoticeCloses PROVE LoopInv'
  BY <1>15 DEF LoopInv, LoopServesDevice, LoopFoundNoPeer, LoopOldIsGone,
     LoopHasPeer, NoticeCloses, LoopIdle
<1> QED
  BY <1>1, <1>2, <1>3, <1>4, <1>5, <1>6, <1>7, <1>8, <1>9, <1>10, <1>11,
     <1>12, <1>13, <1>14, <1>15 DEF ReadLoop

\* The steps of pion and the mobile keep LoopInv.
LEMMA PionLoop == ASSUME IInv, Pion PROVE LoopInv'
<1>1. ASSUME NEW p \in PeerIds, ConnUp(p) PROVE LoopInv'
  BY <1>1 DEF IInv, TypeOK, LoopInv, LoopServesDevice, LoopFoundNoPeer, LoopOldIsGone,
     LoopHasPeer, ConnUp, ConnChange, NoPeer, PeerIds
<1>2. ASSUME NEW p \in PeerIds, ConnLost(p) PROVE LoopInv'
  BY <1>2 DEF IInv, TypeOK, LoopInv, LoopServesDevice, LoopFoundNoPeer, LoopOldIsGone,
     LoopHasPeer, ConnLost, ConnChange, Use, Budgets, NoPeer, PeerIds
<1>3. ASSUME NEW p \in PeerIds, ConnFailed(p) PROVE LoopInv'
  BY <1>3 DEF IInv, TypeOK, LoopInv, LoopServesDevice, LoopFoundNoPeer, LoopOldIsGone,
     LoopHasPeer, ConnFailed, ConnChange, NoPeer, PeerIds
<1>4. ASSUME NEW p \in PeerIds, ChannelOpens(p) PROVE LoopInv'
  BY <1>4 DEF IInv, TypeOK, LoopInv, LoopServesDevice, LoopFoundNoPeer, LoopOldIsGone,
     LoopHasPeer, ChannelOpens, NoPeer, PeerIds
<1>5. ASSUME NEW p \in PeerIds, AuthSucceeds(p) PROVE LoopInv'
  BY <1>5 DEF IInv, TypeOK, LoopInv, LoopServesDevice, LoopFoundNoPeer, LoopOldIsGone,
     LoopHasPeer, AuthSucceeds, NoPeer, PeerIds
<1>6. ASSUME NEW p \in PeerIds, RequestBegins(p) PROVE LoopInv'
  BY <1>6 DEF IInv, TypeOK, LoopInv, LoopServesDevice, LoopFoundNoPeer, LoopOldIsGone,
     LoopHasPeer, RequestBegins, NoPeer, PeerIds
<1> QED
  BY <1>1, <1>2, <1>3, <1>4, <1>5, <1>6 DEF Pion

\* The steps of the callbacks keep LoopInv.
LEMMA CallbackLoop == ASSUME IInv, Callback PROVE LoopInv'
<1>1. ASSUME NEW p \in PeerIds, NEW s \in {"failed", "closed"}, OnFailedOrClosed(p, s)
      PROVE  LoopInv'
  BY <1>1 DEF IInv, TypeOK, LoopInv, LoopServesDevice, LoopFoundNoPeer, LoopOldIsGone,
     LoopHasPeer, OnFailedOrClosed, CallbackDone, StopTimers, Current, NoPeer, PeerIds
<1>2. ASSUME NEW p \in PeerIds, OnConnected(p) PROVE LoopInv'
  BY <1>2 DEF IInv, TypeOK, LoopInv, LoopServesDevice, LoopFoundNoPeer, LoopOldIsGone,
     LoopHasPeer, OnConnected, CallbackDone, StopTimers, Current, NoPeer, PeerIds
<1>3. ASSUME NEW p \in PeerIds, OnDisconnected(p) PROVE LoopInv'
  BY <1>3 DEF IInv, TypeOK, LoopInv, LoopServesDevice, LoopFoundNoPeer, LoopOldIsGone,
     LoopHasPeer, OnDisconnected, CallbackDone, Current, NoPeer, PeerIds
<1>4. ASSUME NEW p \in PeerIds, AuthFails(p) PROVE LoopInv'
  BY <1>4 DEF IInv, TypeOK, LoopInv, LoopServesDevice, LoopFoundNoPeer, LoopOldIsGone,
     LoopHasPeer, AuthFails, NoPeer, PeerIds
<1>5. ASSUME NEW p \in PeerIds, RequestEnds(p) PROVE LoopInv'
  BY <1>5 DEF IInv, TypeOK, LoopInv, LoopServesDevice, LoopFoundNoPeer, LoopOldIsGone,
     LoopHasPeer, RequestEnds, NoPeer, PeerIds
<1>6. ASSUME NEW p \in PeerIds, AnswerTimeout(p) PROVE LoopInv'
  BY <1>6 DEF IInv, TypeOK, LoopInv, LoopServesDevice, LoopFoundNoPeer, LoopOldIsGone,
     LoopHasPeer, AnswerTimeout, Current, NoPeer, PeerIds
<1> QED
  BY <1>1, <1>2, <1>3, <1>4, <1>5, <1>6 DEF Callback

\* The steps of the background goroutines keep LoopInv.
LEMMA GoroutineLoop == ASSUME IInv, Goroutine PROVE LoopInv'
<1>1. ASSUME NEW p \in PeerIds, NEW k \in {"stop", "rstop", "cstop"}, StopDispatch(p, k)
      PROVE  LoopInv'
  BY <1>1 DEF IInv, TypeOK, LoopInv, LoopServesDevice, LoopFoundNoPeer, LoopOldIsGone,
     LoopHasPeer, StopDispatch, MayStopDispatch, AfterStop, NoPeer, PeerIds
<1>2. ASSUME NEW p \in PeerIds, CheckCurrent(p) PROVE LoopInv'
  BY <1>2 DEF IInv, TypeOK, LoopInv, LoopServesDevice, LoopFoundNoPeer, LoopOldIsGone,
     LoopHasPeer, CheckCurrent, Current, NoPeer, PeerIds
<1>3. ASSUME NEW p \in PeerIds, Notify(p) PROVE LoopInv'
  BY <1>3 DEF IInv, TypeOK, LoopInv, LoopServesDevice, LoopFoundNoPeer, LoopOldIsGone,
     LoopHasPeer, Notify, DropSession, NoPeer, PeerIds
<1>4. ASSUME NEW p \in PeerIds, NotifyReplaced(p) PROVE LoopInv'
  BY <1>4 DEF IInv, TypeOK, LoopInv, LoopServesDevice, LoopFoundNoPeer, LoopOldIsGone,
     LoopHasPeer, NotifyReplaced, DropSession, NoPeer, PeerIds
<1>5. ASSUME NEW p \in PeerIds, NotifyClosing(p) PROVE LoopInv'
  BY <1>5 DEF IInv, TypeOK, LoopInv, LoopServesDevice, LoopFoundNoPeer, LoopOldIsGone,
     LoopHasPeer, NotifyClosing, DropSession, NoPeer, PeerIds
<1>6. ASSUME NEW p \in PeerIds, NEW k \in {"evict", "evictU"}, ClosePeerIfCurrent(p, k)
      PROVE  LoopInv'
  BY <1>6 DEF IInv, TypeOK, LoopInv, LoopServesDevice, LoopFoundNoPeer, LoopOldIsGone,
     LoopHasPeer, ClosePeerIfCurrent, AfterEvict, StopTimers, Current, NoPeer, PeerIds
<1>7. ASSUME NEW p \in PeerIds, CloseBegins(p) PROVE LoopInv'
  BY <1>7 DEF IInv, TypeOK, LoopInv, LoopServesDevice, LoopFoundNoPeer, LoopOldIsGone,
     LoopHasPeer, CloseBegins, NoPeer, PeerIds
<1>8. ASSUME NEW p \in PeerIds, CloseEnds(p) PROVE LoopInv'
  BY <1>8 DEF IInv, TypeOK, LoopInv, LoopServesDevice, LoopFoundNoPeer, LoopOldIsGone,
     LoopHasPeer, CloseEnds, NoPeer, PeerIds
<1>9. ASSUME NEW p \in PeerIds, NEW k \in CloseStages, CloseReturns(p, k) PROVE LoopInv'
  BY <1>9 DEF IInv, TypeOK, LoopInv, LoopServesDevice, LoopFoundNoPeer, LoopOldIsGone,
     LoopHasPeer, CloseReturns, NoPeer, PeerIds
<1> QED
  BY <1>1, <1>2, <1>3, <1>4, <1>5, <1>6, <1>7, <1>8, <1>9 DEF Goroutine

\* The steps of reload and shutdown keep LoopInv.
LEMMA CloseAllLoop == ASSUME IInv, CloseAll PROVE LoopInv'
<1>1. ASSUME NEW d \in Devices \cup {Unpaired}, ReloadPairing(d) PROVE LoopInv'
  BY <1>1 DEF IInv, TypeOK, LoopInv, LoopServesDevice, LoopFoundNoPeer, LoopOldIsGone,
     LoopHasPeer, ReloadPairing, Use, Budgets, NoPeer, PeerIds
<1>2. ASSUME ReloadCloseAll PROVE LoopInv'
  BY <1>2 DEF IInv, TypeOK, LoopInv, LoopServesDevice, LoopFoundNoPeer, LoopOldIsGone,
     LoopHasPeer, ReloadCloseAll, CloseAllPeers, Callers, TrackedDevices, Tracked,
     NoPeer, PeerIds
<1>3. ASSUME ReloadWaited PROVE LoopInv'
  BY <1>3 DEF IInv, TypeOK, LoopInv, LoopServesDevice, LoopFoundNoPeer, LoopOldIsGone,
     LoopHasPeer, ReloadWaited, NoPeer, PeerIds
<1>4. ASSUME Reopen PROVE LoopInv'
  BY <1>4 DEF IInv, TypeOK, LoopInv, LoopServesDevice, LoopFoundNoPeer, LoopOldIsGone,
     LoopHasPeer, Reopen, Reopened, NoPeer, PeerIds
<1>5. ASSUME BeginShutdown PROVE LoopInv'
  BY <1>5 DEF IInv, TypeOK, LoopInv, LoopServesDevice, LoopFoundNoPeer, LoopOldIsGone,
     LoopHasPeer, BeginShutdown, NoPeer, PeerIds
<1>6. ASSUME ShutdownCloseAll PROVE LoopInv'
  BY <1>6 DEF IInv, TypeOK, LoopInv, LoopServesDevice, LoopFoundNoPeer, LoopOldIsGone,
     LoopHasPeer, ShutdownCloseAll, CloseAllPeers, Callers, TrackedDevices, Tracked,
     NoPeer, PeerIds
<1>7. ASSUME ShutdownWaited PROVE LoopInv'
  BY <1>7 DEF IInv, TypeOK, LoopInv, LoopServesDevice, LoopFoundNoPeer, LoopOldIsGone,
     LoopHasPeer, ShutdownWaited, NoPeer, PeerIds
<1> QED
  BY <1>1, <1>2, <1>3, <1>4, <1>5, <1>6, <1>7 DEF CloseAll

\* The steps of the grace timer and the watchdogs keep LoopInv.
LEMMA TimersLoop == ASSUME IInv, Timers PROVE LoopInv'
<1>1. ASSUME NEW d \in Devices, GraceExpires(d) PROVE LoopInv'
  BY <1>1 DEF IInv, TypeOK, LoopInv, LoopServesDevice, LoopFoundNoPeer, LoopOldIsGone,
     LoopHasPeer, GraceExpires, NoPeer, PeerIds
<1>2. ASSUME NEW d \in Devices, GraceLookup(d) PROVE LoopInv'
  BY <1>2 DEF IInv, TypeOK, LoopInv, LoopServesDevice, LoopFoundNoPeer, LoopOldIsGone,
     LoopHasPeer, GraceLookup, TimerIdle, NoPeer, PeerIds
<1>3. ASSUME NEW d \in Devices, GraceRecovered(d) PROVE LoopInv'
  BY <1>3 DEF IInv, TypeOK, LoopInv, LoopServesDevice, LoopFoundNoPeer, LoopOldIsGone,
     LoopHasPeer, GraceRecovered, TimerIdle, NoPeer, PeerIds
<1>4. ASSUME NEW d \in Devices, GraceEarly(d) PROVE LoopInv'
  BY <1>4 DEF IInv, TypeOK, LoopInv, LoopServesDevice, LoopFoundNoPeer, LoopOldIsGone,
     LoopHasPeer, GraceEarly, TimerIdle, NoPeer, PeerIds
<1>5. ASSUME NEW d \in Devices, RestartBegins(d) PROVE LoopInv'
  BY <1>5 DEF IInv, TypeOK, LoopInv, LoopServesDevice, LoopFoundNoPeer, LoopOldIsGone,
     LoopHasPeer, RestartBegins, TimerIdle, NoPeer, PeerIds
<1>6. ASSUME NEW d \in Devices, RestartFails(d) PROVE LoopInv'
  BY <1>6 DEF IInv, TypeOK, LoopInv, LoopServesDevice, LoopFoundNoPeer, LoopOldIsGone,
     LoopHasPeer, RestartFails, TimerIdle, NoPeer, PeerIds
<1>7. ASSUME NEW d \in Devices, RestartOffered(d) PROVE LoopInv'
  BY <1>7 DEF IInv, TypeOK, LoopInv, LoopServesDevice, LoopFoundNoPeer, LoopOldIsGone,
     LoopHasPeer, RestartOffered, NoPeer, PeerIds
<1>8. ASSUME NEW d \in Devices, ArmWatchdog(d) PROVE LoopInv'
  BY <1>8 DEF IInv, TypeOK, LoopInv, LoopServesDevice, LoopFoundNoPeer, LoopOldIsGone,
     LoopHasPeer, ArmWatchdog, TimerIdle, MayArm, NoPeer, PeerIds
<1>9. ASSUME NEW d \in Devices, WatchdogExpires(d) PROVE LoopInv'
  BY <1>9 DEF IInv, TypeOK, LoopInv, LoopServesDevice, LoopFoundNoPeer, LoopOldIsGone,
     LoopHasPeer, WatchdogExpires, NoPeer, PeerIds
<1>10. ASSUME NEW p \in PeerIds, WatchdogRuns(p) PROVE LoopInv'
  BY <1>10 DEF IInv, TypeOK, LoopInv, LoopServesDevice, LoopFoundNoPeer, LoopOldIsGone,
     LoopHasPeer, WatchdogRuns, Current, NoPeer, PeerIds
<1> QED
  BY <1>1, <1>2, <1>3, <1>4, <1>5, <1>6, <1>7, <1>8, <1>9, <1>10 DEF Timers

\* The steps of the idle sweep keep LoopInv.
LEMMA SweepLoop == ASSUME IInv, Sweep PROVE LoopInv'
<1>1. ASSUME NEW d \in Devices, SweepTracked(d) PROVE LoopInv'
  BY <1>1 DEF IInv, TypeOK, LoopInv, LoopServesDevice, LoopFoundNoPeer, LoopOldIsGone,
     LoopHasPeer, SweepTracked, Use, Budgets, NoPeer, PeerIds
<1>2. ASSUME NEW d \in Devices, SweepUntracked(d) PROVE LoopInv'
  BY <1>2 DEF IInv, TypeOK, LoopInv, LoopServesDevice, LoopFoundNoPeer, LoopOldIsGone,
     LoopHasPeer, SweepUntracked, Use, Budgets, NoPeer, PeerIds
<1>3. ASSUME SweepDrops PROVE LoopInv'
  BY <1>3 DEF IInv, TypeOK, LoopInv, LoopServesDevice, LoopFoundNoPeer, LoopOldIsGone,
     LoopHasPeer, SweepDrops, DropSession, NoPeer, PeerIds
<1> QED
  BY <1>1, <1>2, <1>3 DEF Sweep

\* The steps of the signaling read loop keep ManagerInv.
LEMMA ReadLoopManager == ASSUME IInv, ReadLoop PROVE ManagerInv'
<1>1. ASSUME NEW d \in Devices, NEW a \in Attempts \cup {NoAttempt}, ConnectRequest(d, a)
      PROVE  ManagerInv'
  BY <1>1 DEF IInv, TypeOK, ManagerInv, ClosedTracksNothing, ShutdownFlagged,
     WaitsOnlyWhileClosed, PairedUnlessLoaded, WatchdogWatchesTracked, ConnectRequest,
     LoopIdle, pmVars, timerVars, callerVars, NoPeer, PeerIds
<1>2. ASSUME NEW d \in Devices, NEW a \in Attempts \cup {NoAttempt}, NEW ok \in BOOLEAN,
             SDPAnswer(d, a, ok)
      PROVE  ManagerInv'
  BY <1>2 DEF IInv, TypeOK, ManagerInv, ClosedTracksNothing, ShutdownFlagged,
     WaitsOnlyWhileClosed, PairedUnlessLoaded, WatchdogWatchesTracked, SDPAnswer, Use,
     Budgets, ConnStates, pmVars, timerVars, callerVars, NoPeer, PeerIds
<1>3. ASSUME NEW d \in Devices, NEW a \in Attempts \cup {NoAttempt}, PeerUnavailable(d, a)
      PROVE  ManagerInv'
  BY <1>3 DEF IInv, TypeOK, ManagerInv, ClosedTracksNothing, ShutdownFlagged,
     WaitsOnlyWhileClosed, PairedUnlessLoaded, WatchdogWatchesTracked, PeerUnavailable,
     Use, Budgets, pmVars, timerVars, callerVars, NoPeer, PeerIds
<1>4. ASSUME SecretUnavailable PROVE ManagerInv'
  BY <1>4 DEF IInv, TypeOK, ManagerInv, ClosedTracksNothing, ShutdownFlagged,
     WaitsOnlyWhileClosed, PairedUnlessLoaded, WatchdogWatchesTracked, SecretUnavailable,
     LoopIdle, pmVars, timerVars, callerVars, NoPeer, PeerIds
<1>5. ASSUME CheckLimit PROVE ManagerInv'
  BY <1>5 DEF IInv, TypeOK, ManagerInv, ClosedTracksNothing, ShutdownFlagged,
     WaitsOnlyWhileClosed, PairedUnlessLoaded, WatchdogWatchesTracked, CheckLimit,
     LoopIdle, pmVars, timerVars, callerVars, NoPeer, PeerIds
<1>6. ASSUME ReplaceOld PROVE ManagerInv'
  BY <1>6 DEF IInv, TypeOK, ManagerInv, ClosedTracksNothing, ShutdownFlagged,
     WaitsOnlyWhileClosed, PairedUnlessLoaded, WatchdogWatchesTracked, ReplaceOld,
     StopTimers, RecordReplaced, pmVars, timerVars, callerVars, NoPeer, PeerIds
<1>7. ASSUME OldTornDown PROVE ManagerInv'
  BY <1>7 DEF IInv, TypeOK, ManagerInv, ClosedTracksNothing, ShutdownFlagged,
     WaitsOnlyWhileClosed, PairedUnlessLoaded, WatchdogWatchesTracked, OldTornDown,
     pmVars, timerVars, callerVars, NoPeer, PeerIds
<1>8. ASSUME CreateFails PROVE ManagerInv'
  BY <1>8 DEF IInv, TypeOK, ManagerInv, ClosedTracksNothing, ShutdownFlagged,
     WaitsOnlyWhileClosed, PairedUnlessLoaded, WatchdogWatchesTracked, CreateFails,
     LoopIdle, pmVars, timerVars, callerVars, NoPeer, PeerIds
<1>9. ASSUME InsertPeer PROVE ManagerInv'
  <2>1. CASE MayInsert(loop.dev)
    <3>1. /\ loop.dev \in Devices /\ peers[loop.dev] = NoPeer
          /\ ~closed /\ loop.dev = allowedDeviceID
      BY <1>9, <2>1 DEF InsertPeer, MayInsert, IInv, LoopInv, LoopServesDevice,
         LoopFoundNoPeer
    <3>2. /\ peers' = [peers EXCEPT ![loop.dev] = born + 1]
          /\ UNCHANGED <<closed, shutDown, allowedDeviceID, reload, stopper, watchdog>>
      BY <1>9, <2>1 DEF InsertPeer, pmVars, callerVars, timerVars
    <3> QED
      BY <3>1, <3>2 DEF IInv, TypeOK, ManagerInv, ClosedTracksNothing, ShutdownFlagged,
                        WaitsOnlyWhileClosed, PairedUnlessLoaded, WatchdogWatchesTracked
  <2>2. CASE ~MayInsert(loop.dev)
    BY <1>9, <2>2 DEF InsertPeer, pmVars, callerVars, timerVars, IInv, ManagerInv,
                      ClosedTracksNothing, ShutdownFlagged, WaitsOnlyWhileClosed,
                      PairedUnlessLoaded, WatchdogWatchesTracked
  <2> QED
    BY <2>1, <2>2
<1>10. ASSUME SetupFails PROVE ManagerInv'
  BY <1>10 DEF IInv, TypeOK, ManagerInv, ClosedTracksNothing, ShutdownFlagged,
     WaitsOnlyWhileClosed, PairedUnlessLoaded, WatchdogWatchesTracked, SetupFails,
     LoopIdle, StopTimers, pmVars, timerVars, callerVars, NoPeer, PeerIds
<1>11. ASSUME SetupCloseReturns PROVE ManagerInv'
  BY <1>11 DEF IInv, TypeOK, ManagerInv, ClosedTracksNothing, ShutdownFlagged,
     WaitsOnlyWhileClosed, PairedUnlessLoaded, WatchdogWatchesTracked, SetupCloseReturns,
     LoopIdle, pmVars, timerVars, callerVars, NoPeer, PeerIds
<1>12. ASSUME OfferSent PROVE ManagerInv'
  BY <1>12 DEF IInv, TypeOK, ManagerInv, ClosedTracksNothing, ShutdownFlagged,
     WaitsOnlyWhileClosed, PairedUnlessLoaded, WatchdogWatchesTracked, OfferSent,
     LoopIdle, pmVars, timerVars, callerVars, NoPeer, PeerIds
<1>13. ASSUME NoticeIgnored PROVE ManagerInv'
  BY <1>13 DEF IInv, TypeOK, ManagerInv, ClosedTracksNothing, ShutdownFlagged,
     WaitsOnlyWhileClosed, PairedUnlessLoaded, WatchdogWatchesTracked, NoticeIgnored,
     pmVars, timerVars, callerVars, NoPeer, PeerIds
<1>14. ASSUME NoticeChecked PROVE ManagerInv'
  BY <1>14 DEF IInv, TypeOK, ManagerInv, ClosedTracksNothing, ShutdownFlagged,
     WaitsOnlyWhileClosed, PairedUnlessLoaded, WatchdogWatchesTracked, NoticeChecked,
     pmVars, timerVars, callerVars, NoPeer, PeerIds
<1>15. ASSUME NoticeCloses PROVE ManagerInv'
  BY <1>15 DEF IInv, TypeOK, ManagerInv, ClosedTracksNothing, ShutdownFlagged,
     WaitsOnlyWhileClosed, PairedUnlessLoaded, WatchdogWatchesTracked, NoticeCloses,
     pmVars, timerVars, callerVars, NoPeer, PeerIds
<1> QED
  BY <1>1, <1>2, <1>3, <1>4, <1>5, <1>6, <1>7, <1>8, <1>9, <1>10, <1>11,
     <1>12, <1>13, <1>14, <1>15 DEF ReadLoop

\* The steps of pion and the mobile keep ManagerInv.
LEMMA PionManager == ASSUME IInv, Pion PROVE ManagerInv'
<1>1. ASSUME NEW p \in PeerIds, ConnUp(p) PROVE ManagerInv'
  BY <1>1 DEF IInv, TypeOK, ManagerInv, ClosedTracksNothing, ShutdownFlagged,
     WaitsOnlyWhileClosed, PairedUnlessLoaded, WatchdogWatchesTracked, ConnUp,
     ConnChange, pmVars, timerVars, callerVars, NoPeer, PeerIds
<1>2. ASSUME NEW p \in PeerIds, ConnLost(p) PROVE ManagerInv'
  BY <1>2 DEF IInv, TypeOK, ManagerInv, ClosedTracksNothing, ShutdownFlagged,
     WaitsOnlyWhileClosed, PairedUnlessLoaded, WatchdogWatchesTracked, ConnLost,
     ConnChange, Use, Budgets, pmVars, timerVars, callerVars, NoPeer, PeerIds
<1>3. ASSUME NEW p \in PeerIds, ConnFailed(p) PROVE ManagerInv'
  BY <1>3 DEF IInv, TypeOK, ManagerInv, ClosedTracksNothing, ShutdownFlagged,
     WaitsOnlyWhileClosed, PairedUnlessLoaded, WatchdogWatchesTracked, ConnFailed,
     ConnChange, pmVars, timerVars, callerVars, NoPeer, PeerIds
<1>4. ASSUME NEW p \in PeerIds, ChannelOpens(p) PROVE ManagerInv'
  BY <1>4 DEF IInv, TypeOK, ManagerInv, ClosedTracksNothing, ShutdownFlagged,
     WaitsOnlyWhileClosed, PairedUnlessLoaded, WatchdogWatchesTracked, ChannelOpens,
     pmVars, timerVars, callerVars, NoPeer, PeerIds
<1>5. ASSUME NEW p \in PeerIds, AuthSucceeds(p) PROVE ManagerInv'
  BY <1>5 DEF IInv, TypeOK, ManagerInv, ClosedTracksNothing, ShutdownFlagged,
     WaitsOnlyWhileClosed, PairedUnlessLoaded, WatchdogWatchesTracked, AuthSucceeds,
     pmVars, timerVars, callerVars, NoPeer, PeerIds
<1>6. ASSUME NEW p \in PeerIds, RequestBegins(p) PROVE ManagerInv'
  BY <1>6 DEF IInv, TypeOK, ManagerInv, ClosedTracksNothing, ShutdownFlagged,
     WaitsOnlyWhileClosed, PairedUnlessLoaded, WatchdogWatchesTracked, RequestBegins,
     pmVars, timerVars, callerVars, NoPeer, PeerIds
<1> QED
  BY <1>1, <1>2, <1>3, <1>4, <1>5, <1>6 DEF Pion

\* The steps of the callbacks keep ManagerInv.
LEMMA CallbackManager == ASSUME IInv, Callback PROVE ManagerInv'
<1>1. ASSUME NEW p \in PeerIds, NEW s \in {"failed", "closed"}, OnFailedOrClosed(p, s)
      PROVE  ManagerInv'
  BY <1>1 DEF IInv, TypeOK, ManagerInv, ClosedTracksNothing, ShutdownFlagged,
     WaitsOnlyWhileClosed, PairedUnlessLoaded, WatchdogWatchesTracked, OnFailedOrClosed,
     CallbackDone, StopTimers, Current, pmVars, timerVars, callerVars, NoPeer, PeerIds
<1>2. ASSUME NEW p \in PeerIds, OnConnected(p) PROVE ManagerInv'
  BY <1>2 DEF IInv, TypeOK, ManagerInv, ClosedTracksNothing, ShutdownFlagged,
     WaitsOnlyWhileClosed, PairedUnlessLoaded, WatchdogWatchesTracked, OnConnected,
     CallbackDone, StopTimers, Current, pmVars, timerVars, callerVars, NoPeer, PeerIds
<1>3. ASSUME NEW p \in PeerIds, OnDisconnected(p) PROVE ManagerInv'
  BY <1>3 DEF IInv, TypeOK, ManagerInv, ClosedTracksNothing, ShutdownFlagged,
     WaitsOnlyWhileClosed, PairedUnlessLoaded, WatchdogWatchesTracked, OnDisconnected,
     CallbackDone, Current, pmVars, timerVars, callerVars, NoPeer, PeerIds
<1>4. ASSUME NEW p \in PeerIds, AuthFails(p) PROVE ManagerInv'
  BY <1>4 DEF IInv, TypeOK, ManagerInv, ClosedTracksNothing, ShutdownFlagged,
     WaitsOnlyWhileClosed, PairedUnlessLoaded, WatchdogWatchesTracked, AuthFails, pmVars,
     timerVars, callerVars, NoPeer, PeerIds
<1>5. ASSUME NEW p \in PeerIds, RequestEnds(p) PROVE ManagerInv'
  BY <1>5 DEF IInv, TypeOK, ManagerInv, ClosedTracksNothing, ShutdownFlagged,
     WaitsOnlyWhileClosed, PairedUnlessLoaded, WatchdogWatchesTracked, RequestEnds,
     pmVars, timerVars, callerVars, NoPeer, PeerIds
<1>6. ASSUME NEW p \in PeerIds, AnswerTimeout(p) PROVE ManagerInv'
  BY <1>6 DEF IInv, TypeOK, ManagerInv, ClosedTracksNothing, ShutdownFlagged,
     WaitsOnlyWhileClosed, PairedUnlessLoaded, WatchdogWatchesTracked, AnswerTimeout,
     Current, pmVars, timerVars, callerVars, NoPeer, PeerIds
<1> QED
  BY <1>1, <1>2, <1>3, <1>4, <1>5, <1>6 DEF Callback

\* The steps of the background goroutines keep ManagerInv.
LEMMA GoroutineManager == ASSUME IInv, Goroutine PROVE ManagerInv'
<1>1. ASSUME NEW p \in PeerIds, NEW k \in {"stop", "rstop", "cstop"}, StopDispatch(p, k)
      PROVE  ManagerInv'
  BY <1>1 DEF IInv, TypeOK, ManagerInv, ClosedTracksNothing, ShutdownFlagged,
     WaitsOnlyWhileClosed, PairedUnlessLoaded, WatchdogWatchesTracked, StopDispatch,
     MayStopDispatch, AfterStop, pmVars, timerVars, callerVars, NoPeer, PeerIds
<1>2. ASSUME NEW p \in PeerIds, CheckCurrent(p) PROVE ManagerInv'
  BY <1>2 DEF IInv, TypeOK, ManagerInv, ClosedTracksNothing, ShutdownFlagged,
     WaitsOnlyWhileClosed, PairedUnlessLoaded, WatchdogWatchesTracked, CheckCurrent,
     Current, pmVars, timerVars, callerVars, NoPeer, PeerIds
<1>3. ASSUME NEW p \in PeerIds, Notify(p) PROVE ManagerInv'
  BY <1>3 DEF IInv, TypeOK, ManagerInv, ClosedTracksNothing, ShutdownFlagged,
     WaitsOnlyWhileClosed, PairedUnlessLoaded, WatchdogWatchesTracked, Notify,
     DropSession, pmVars, timerVars, callerVars, NoPeer, PeerIds
<1>4. ASSUME NEW p \in PeerIds, NotifyReplaced(p) PROVE ManagerInv'
  BY <1>4 DEF IInv, TypeOK, ManagerInv, ClosedTracksNothing, ShutdownFlagged,
     WaitsOnlyWhileClosed, PairedUnlessLoaded, WatchdogWatchesTracked, NotifyReplaced,
     DropSession, pmVars, timerVars, callerVars, NoPeer, PeerIds
<1>5. ASSUME NEW p \in PeerIds, NotifyClosing(p) PROVE ManagerInv'
  BY <1>5 DEF IInv, TypeOK, ManagerInv, ClosedTracksNothing, ShutdownFlagged,
     WaitsOnlyWhileClosed, PairedUnlessLoaded, WatchdogWatchesTracked, NotifyClosing,
     DropSession, pmVars, timerVars, callerVars, NoPeer, PeerIds
<1>6. ASSUME NEW p \in PeerIds, NEW k \in {"evict", "evictU"}, ClosePeerIfCurrent(p, k)
      PROVE  ManagerInv'
  BY <1>6 DEF IInv, TypeOK, ManagerInv, ClosedTracksNothing, ShutdownFlagged,
     WaitsOnlyWhileClosed, PairedUnlessLoaded, WatchdogWatchesTracked,
     ClosePeerIfCurrent, AfterEvict, StopTimers, Current, pmVars, timerVars, callerVars,
     NoPeer, PeerIds
<1>7. ASSUME NEW p \in PeerIds, CloseBegins(p) PROVE ManagerInv'
  BY <1>7 DEF IInv, TypeOK, ManagerInv, ClosedTracksNothing, ShutdownFlagged,
     WaitsOnlyWhileClosed, PairedUnlessLoaded, WatchdogWatchesTracked, CloseBegins,
     pmVars, timerVars, callerVars, NoPeer, PeerIds
<1>8. ASSUME NEW p \in PeerIds, CloseEnds(p) PROVE ManagerInv'
  BY <1>8 DEF IInv, TypeOK, ManagerInv, ClosedTracksNothing, ShutdownFlagged,
     WaitsOnlyWhileClosed, PairedUnlessLoaded, WatchdogWatchesTracked, CloseEnds, pmVars,
     timerVars, callerVars, NoPeer, PeerIds
<1>9. ASSUME NEW p \in PeerIds, NEW k \in CloseStages, CloseReturns(p, k) PROVE ManagerInv'
  BY <1>9 DEF IInv, TypeOK, ManagerInv, ClosedTracksNothing, ShutdownFlagged,
     WaitsOnlyWhileClosed, PairedUnlessLoaded, WatchdogWatchesTracked, CloseReturns,
     pmVars, timerVars, callerVars, NoPeer, PeerIds
<1> QED
  BY <1>1, <1>2, <1>3, <1>4, <1>5, <1>6, <1>7, <1>8, <1>9 DEF Goroutine

\* The steps of reload and shutdown keep ManagerInv.
LEMMA CloseAllManager == ASSUME IInv, CloseAll PROVE ManagerInv'
<1>1. ASSUME NEW d \in Devices \cup {Unpaired}, ReloadPairing(d) PROVE ManagerInv'
  BY <1>1 DEF IInv, TypeOK, ManagerInv, ClosedTracksNothing, ShutdownFlagged,
     WaitsOnlyWhileClosed, PairedUnlessLoaded, WatchdogWatchesTracked, ReloadPairing,
     Use, Budgets, pmVars, timerVars, callerVars, NoPeer, PeerIds
<1>2. ASSUME ReloadCloseAll PROVE ManagerInv'
  BY <1>2 DEF IInv, TypeOK, ManagerInv, ClosedTracksNothing, ShutdownFlagged,
     WaitsOnlyWhileClosed, PairedUnlessLoaded, WatchdogWatchesTracked, ReloadCloseAll,
     CloseAllPeers, Callers, TrackedDevices, Tracked, pmVars, timerVars, callerVars,
     NoPeer, PeerIds
<1>3. ASSUME ReloadWaited PROVE ManagerInv'
  BY <1>3 DEF IInv, TypeOK, ManagerInv, ClosedTracksNothing, ShutdownFlagged,
     WaitsOnlyWhileClosed, PairedUnlessLoaded, WatchdogWatchesTracked, ReloadWaited,
     pmVars, timerVars, callerVars, NoPeer, PeerIds
<1>4. ASSUME Reopen PROVE ManagerInv'
  BY <1>4 DEF IInv, TypeOK, ManagerInv, ClosedTracksNothing, ShutdownFlagged,
     WaitsOnlyWhileClosed, PairedUnlessLoaded, WatchdogWatchesTracked, Reopen, Reopened,
     pmVars, timerVars, callerVars, NoPeer, PeerIds
<1>5. ASSUME BeginShutdown PROVE ManagerInv'
  BY <1>5 DEF IInv, TypeOK, ManagerInv, ClosedTracksNothing, ShutdownFlagged,
     WaitsOnlyWhileClosed, PairedUnlessLoaded, WatchdogWatchesTracked, BeginShutdown,
     pmVars, timerVars, callerVars, NoPeer, PeerIds
<1>6. ASSUME ShutdownCloseAll PROVE ManagerInv'
  BY <1>6 DEF IInv, TypeOK, ManagerInv, ClosedTracksNothing, ShutdownFlagged,
     WaitsOnlyWhileClosed, PairedUnlessLoaded, WatchdogWatchesTracked, ShutdownCloseAll,
     CloseAllPeers, Callers, TrackedDevices, Tracked, pmVars, timerVars, callerVars,
     NoPeer, PeerIds
<1>7. ASSUME ShutdownWaited PROVE ManagerInv'
  BY <1>7 DEF IInv, TypeOK, ManagerInv, ClosedTracksNothing, ShutdownFlagged,
     WaitsOnlyWhileClosed, PairedUnlessLoaded, WatchdogWatchesTracked, ShutdownWaited,
     pmVars, timerVars, callerVars, NoPeer, PeerIds
<1> QED
  BY <1>1, <1>2, <1>3, <1>4, <1>5, <1>6, <1>7 DEF CloseAll

\* The steps of the grace timer and the watchdogs keep ManagerInv.
LEMMA TimersManager == ASSUME IInv, Timers PROVE ManagerInv'
<1>1. ASSUME NEW d \in Devices, GraceExpires(d) PROVE ManagerInv'
  BY <1>1 DEF IInv, TypeOK, ManagerInv, ClosedTracksNothing, ShutdownFlagged,
     WaitsOnlyWhileClosed, PairedUnlessLoaded, WatchdogWatchesTracked, GraceExpires,
     pmVars, timerVars, callerVars, NoPeer, PeerIds
<1>2. ASSUME NEW d \in Devices, GraceLookup(d) PROVE ManagerInv'
  BY <1>2 DEF IInv, TypeOK, ManagerInv, ClosedTracksNothing, ShutdownFlagged,
     WaitsOnlyWhileClosed, PairedUnlessLoaded, WatchdogWatchesTracked, GraceLookup,
     TimerIdle, pmVars, timerVars, callerVars, NoPeer, PeerIds
<1>3. ASSUME NEW d \in Devices, GraceRecovered(d) PROVE ManagerInv'
  BY <1>3 DEF IInv, TypeOK, ManagerInv, ClosedTracksNothing, ShutdownFlagged,
     WaitsOnlyWhileClosed, PairedUnlessLoaded, WatchdogWatchesTracked, GraceRecovered,
     TimerIdle, pmVars, timerVars, callerVars, NoPeer, PeerIds
<1>4. ASSUME NEW d \in Devices, GraceEarly(d) PROVE ManagerInv'
  BY <1>4 DEF IInv, TypeOK, ManagerInv, ClosedTracksNothing, ShutdownFlagged,
     WaitsOnlyWhileClosed, PairedUnlessLoaded, WatchdogWatchesTracked, GraceEarly,
     TimerIdle, pmVars, timerVars, callerVars, NoPeer, PeerIds
<1>5. ASSUME NEW d \in Devices, RestartBegins(d) PROVE ManagerInv'
  BY <1>5 DEF IInv, TypeOK, ManagerInv, ClosedTracksNothing, ShutdownFlagged,
     WaitsOnlyWhileClosed, PairedUnlessLoaded, WatchdogWatchesTracked, RestartBegins,
     TimerIdle, pmVars, timerVars, callerVars, NoPeer, PeerIds
<1>6. ASSUME NEW d \in Devices, RestartFails(d) PROVE ManagerInv'
  BY <1>6 DEF IInv, TypeOK, ManagerInv, ClosedTracksNothing, ShutdownFlagged,
     WaitsOnlyWhileClosed, PairedUnlessLoaded, WatchdogWatchesTracked, RestartFails,
     TimerIdle, pmVars, timerVars, callerVars, NoPeer, PeerIds
<1>7. ASSUME NEW d \in Devices, RestartOffered(d) PROVE ManagerInv'
  BY <1>7 DEF IInv, TypeOK, ManagerInv, ClosedTracksNothing, ShutdownFlagged,
     WaitsOnlyWhileClosed, PairedUnlessLoaded, WatchdogWatchesTracked, RestartOffered,
     pmVars, timerVars, callerVars, NoPeer, PeerIds
<1>8. ASSUME NEW d \in Devices, ArmWatchdog(d) PROVE ManagerInv'
  BY <1>8 DEF IInv, TypeOK, ManagerInv, ClosedTracksNothing, ShutdownFlagged,
     WaitsOnlyWhileClosed, PairedUnlessLoaded, WatchdogWatchesTracked, ArmWatchdog,
     TimerIdle, MayArm, pmVars, timerVars, callerVars, NoPeer, PeerIds
<1>9. ASSUME NEW d \in Devices, WatchdogExpires(d) PROVE ManagerInv'
  BY <1>9 DEF IInv, TypeOK, ManagerInv, ClosedTracksNothing, ShutdownFlagged,
     WaitsOnlyWhileClosed, PairedUnlessLoaded, WatchdogWatchesTracked, WatchdogExpires,
     pmVars, timerVars, callerVars, NoPeer, PeerIds
<1>10. ASSUME NEW p \in PeerIds, WatchdogRuns(p) PROVE ManagerInv'
  BY <1>10 DEF IInv, TypeOK, ManagerInv, ClosedTracksNothing, ShutdownFlagged,
     WaitsOnlyWhileClosed, PairedUnlessLoaded, WatchdogWatchesTracked, WatchdogRuns,
     Current, pmVars, timerVars, callerVars, NoPeer, PeerIds
<1> QED
  BY <1>1, <1>2, <1>3, <1>4, <1>5, <1>6, <1>7, <1>8, <1>9, <1>10 DEF Timers

\* The steps of the idle sweep keep ManagerInv.
LEMMA SweepManager == ASSUME IInv, Sweep PROVE ManagerInv'
<1>1. ASSUME NEW d \in Devices, SweepTracked(d) PROVE ManagerInv'
  BY <1>1 DEF IInv, TypeOK, ManagerInv, ClosedTracksNothing, ShutdownFlagged,
     WaitsOnlyWhileClosed, PairedUnlessLoaded, WatchdogWatchesTracked, SweepTracked, Use,
     Budgets, pmVars, timerVars, callerVars, NoPeer, PeerIds
<1>2. ASSUME NEW d \in Devices, SweepUntracked(d) PROVE ManagerInv'
  BY <1>2 DEF IInv, TypeOK, ManagerInv, ClosedTracksNothing, ShutdownFlagged,
     WaitsOnlyWhileClosed, PairedUnlessLoaded, WatchdogWatchesTracked, SweepUntracked,
     Use, Budgets, pmVars, timerVars, callerVars, NoPeer, PeerIds
<1>3. ASSUME SweepDrops PROVE ManagerInv'
  BY <1>3 DEF IInv, TypeOK, ManagerInv, ClosedTracksNothing, ShutdownFlagged,
     WaitsOnlyWhileClosed, PairedUnlessLoaded, WatchdogWatchesTracked, SweepDrops,
     DropSession, pmVars, timerVars, callerVars, NoPeer, PeerIds
<1> QED
  BY <1>1, <1>2, <1>3 DEF Sweep

-----------------------------------------------------------------------------
(* PeerInv: what a step must respect, and which updates respect it.         *)

\* Peers only leave the map.
MapShrinks == \A d \in Devices : peers'[d] = peers[d] \/ peers'[d] = NoPeer

\* The owner of a peer is fixed, and an unborn peer stays fresh.
StructKept ==
    \A q \in PeerIds :
        /\ peer'[q].dev = peer[q].dev
        /\ q > born => peer'[q].conn = peer[q].conn /\ peer'[q].auth = peer[q].auth

\* No goroutine works on an unborn peer, and one that reaches a stage of
\* GoneStages works on a peer that was gone before or is out of the map now.
WorkKept ==
    \A q \in PeerIds :
        /\ q > born => \A k \in Stages : work'[q][k] = 0
        /\ \A k \in GoneStages : work'[q][k] > 0 =>
              (\E j \in GoneStages : work[q][j] > 0) \/ \A d \in Devices : peers'[d] # q

ClosedKept ==
    \A q \in PeerIds :
        \/ pclosed'[q] = pclosed[q]
        \/ pclosed[q] # "no"
        \/ \E j \in GoneStages : work[q][j] > 0

\* A step that creates no peer and respects the four conditions keeps PeerInv.
LEMMA PeerInvKept ==
    ASSUME IInv, MapShrinks, StructKept, WorkKept, ClosedKept, born' = born,
           TimerHoldsPeer'
    PROVE  PeerInv'
<1> USE DEF IInv, PeerInv
<1>1. TrackedIsOwn'
  <2> SUFFICES ASSUME NEW d \in Devices, peers'[d] # NoPeer
               PROVE  peers'[d] <= born /\ peer'[peers'[d]].dev = d
    BY DEF TrackedIsOwn
  <2>1. peers'[d] = peers[d] /\ peers[d] \in PeerIds
    BY DEF MapShrinks, TypeOK
  <2> QED
    BY <2>1 DEF TrackedIsOwn, StructKept
<1>2. GoneIsUntracked'
  <2> SUFFICES ASSUME NEW q \in PeerIds, NEW d \in Devices,
                      pclosed'[q] # "no" \/ \E k \in GoneStages : work'[q][k] > 0
               PROVE  peers'[d] # q
    BY DEF GoneIsUntracked
  <2>1. (pclosed[q] # "no" \/ \E k \in GoneStages : work[q][k] > 0) \/ peers'[d] # q
    BY DEF WorkKept, ClosedKept
  <2>2. q # NoPeer
    BY DEF PeerIds, NoPeer
  <2> QED
    BY <2>1, <2>2 DEF GoneIsUntracked, MapShrinks
<1>3. UnbornIsFresh'
  <2> SUFFICES ASSUME NEW q \in PeerIds, q > born
               PROVE  /\ pclosed'[q] = "no"
                      /\ \A k \in Stages : work'[q][k] = 0
                      /\ peer'[q].conn = "new"
                      /\ peer'[q].auth = "none"
    BY DEF UnbornIsFresh
  <2>1. pclosed'[q] = "no"
    BY DEF ClosedKept, UnbornIsFresh, GoneStages, CloseStages, Stages
  <2> QED
    BY <2>1 DEF WorkKept, StructKept, UnbornIsFresh
<1> QED
  BY <1>1, <1>2, <1>3

\* Setting fields other than dev of a created peer, or only fields that are not
\* the connection's or the channel's, respects StructKept.
LEMMA SetPeerKept ==
    ASSUME TypeOK, NEW p \in PeerIds, NEW r \in PeerStruct, SetPeer(p, r),
           (p <= born /\ r.dev = peer[p].dev) \/ SameLife(r, peer[p])
    PROVE  StructKept
<1>1. \A q \in PeerIds : peer'[q] = IF q = p THEN r ELSE peer[q]
  BY DEF SetPeer, TypeOK
<1> QED
  BY <1>1 DEF StructKept, SameLife, TypeOK, PeerIds

\* Starting a goroutine on a created peer: in a stage before it is gone, or when
\* it is out of the map.
LEMMA SpawnKept ==
    ASSUME IInv, NEW p \in PeerIds, NEW k \in Stages, work' = Spawn(work, p, k),
           p <= born, k \notin GoneStages \/ \A d \in Devices : peers'[d] # p
    PROVE  WorkKept
<1>1. ASSUME NEW q \in PeerIds, NEW j \in Stages
      PROVE  work'[q][j] = IF q = p /\ j = k THEN work[q][j] + 1 ELSE work[q][j]
  BY SpawnValue DEF IInv, TypeOK
<1>2. GoneStages \subseteq Stages
  BY DEF GoneStages, CloseStages, Stages
<1>3. ASSUME NEW q \in PeerIds, q > born, NEW j \in Stages
      PROVE  work'[q][j] = 0
  <2>1. q # p
    BY <1>3 DEF IInv, TypeOK, PeerIds
  <2>2. work[q][j] = 0
    BY <1>3 DEF IInv, PeerInv, UnbornIsFresh
  <2> QED
    BY <1>1, <2>1, <2>2
<1>4. ASSUME NEW q \in PeerIds, NEW j \in GoneStages, work'[q][j] > 0
      PROVE  (\E i \in GoneStages : work[q][i] > 0) \/ \A d \in Devices : peers'[d] # q
  BY <1>1, <1>2, <1>4
<1> QED
  BY <1>3, <1>4 DEF WorkKept

\* A goroutine moves on: to a stage before its peer is gone, from a stage after
\* it, or when it is out of the map.
LEMMA MoveKept ==
    ASSUME IInv, NEW p \in PeerIds, NEW k \in Stages, NEW n \in Stages,
           work[p][k] > 0, work' = Move(work, p, k, n),
           n \notin GoneStages \/ k \in GoneStages \/ \A d \in Devices : peers'[d] # p
    PROVE  WorkKept
<1>1. Finish(work, p, k) \in Works
  BY FinishType DEF IInv, TypeOK
<1>2. ASSUME NEW q \in PeerIds, NEW j \in Stages, q # p \/ (j # k /\ j # n)
      PROVE  work'[q][j] = work[q][j]
  BY <1>1, <1>2, SpawnValue, FinishValue DEF Move, IInv, TypeOK
<1>3. GoneStages \subseteq Stages
  BY DEF GoneStages, CloseStages, Stages
<1>4. p <= born
  BY DEF IInv, PeerInv, UnbornIsFresh, TypeOK, PeerIds, Works
<1>5. ASSUME NEW q \in PeerIds, q > born, NEW j \in Stages
      PROVE  work'[q][j] = 0
  <2>1. q # p
    BY <1>4, <1>5 DEF IInv, TypeOK, PeerIds
  <2>2. work[q][j] = 0
    BY <1>5 DEF IInv, PeerInv, UnbornIsFresh
  <2> QED
    BY <1>2, <2>1, <2>2
<1>6. ASSUME NEW q \in PeerIds, NEW j \in GoneStages, work'[q][j] > 0
      PROVE  (\E i \in GoneStages : work[q][i] > 0) \/ \A d \in Devices : peers'[d] # q
  BY <1>2, <1>3, <1>6
<1> QED
  BY <1>5, <1>6 DEF WorkKept

\* A goroutine ends.
LEMMA FinishKept ==
    ASSUME IInv, NEW p \in PeerIds, NEW k \in Stages, work[p][k] > 0,
           work' = Finish(work, p, k)
    PROVE  WorkKept
<1>1. ASSUME NEW q \in PeerIds, NEW j \in Stages
      PROVE  work'[q][j] = IF q = p /\ j = k THEN work[q][j] - 1 ELSE work[q][j]
  BY FinishValue DEF IInv, TypeOK
<1>2. GoneStages \subseteq Stages
  BY DEF GoneStages, CloseStages, Stages
<1>3. p <= born
  BY DEF IInv, PeerInv, UnbornIsFresh, TypeOK, PeerIds, Works
<1>4. ASSUME NEW q \in PeerIds, q > born, NEW j \in Stages
      PROVE  work'[q][j] = 0
  <2>1. q # p
    BY <1>3, <1>4 DEF IInv, TypeOK, PeerIds
  <2>2. work[q][j] = 0
    BY <1>4 DEF IInv, PeerInv, UnbornIsFresh
  <2> QED
    BY <1>1, <2>1, <2>2
<1>5. ASSUME NEW q \in PeerIds, NEW j \in GoneStages, work'[q][j] > 0
      PROVE  \E i \in GoneStages : work[q][i] > 0
  <2>1. work[q][j] \in Nat
    BY <1>2 DEF IInv, TypeOK, Works
  <2> QED
    BY <1>1, <1>2, <1>5, <2>1
<1> QED
  BY <1>4, <1>5 DEF WorkKept

\* The background starts of the manager: scheduleCleanup and goCleanup while the
\* peer may be tracked, closeViaManager while the manager may be closed.
LEMMA GoKept ==
    ASSUME IInv, NEW p \in PeerIds, p <= born, peers' = peers
    PROVE  /\ work' = ScheduleCleanup(work, p) => WorkKept
           /\ work' = GoEvict(work, p) => WorkKept
           /\ work' = CloseViaManager(work, p) => WorkKept
           /\ work' = work => WorkKept
<1>1. work' = work => WorkKept
  BY DEF WorkKept, IInv, PeerInv, UnbornIsFresh
<1>2. \A k \in {"stop", "evict", "evictU"} : work' = Spawn(work, p, k) => WorkKept
  BY SpawnKept DEF Stages, GoneStages, CloseStages
<1>3. closed /\ work' = Spawn(work, p, "closeU") => WorkKept
  <2>1. closed => \A d \in Devices : peers'[d] # p
    BY DEF IInv, ManagerInv, ClosedTracksNothing, PeerIds, NoPeer
  <2> QED
    BY <2>1, SpawnKept DEF Stages
<1> QED
  BY <1>1, <1>2, <1>3 DEF ScheduleCleanup, GoEvict, CloseViaManager

\* A step that leaves the map, the structs or the closes alone.
LEMMA UnchangedKept ==
    ASSUME IInv
    PROVE  /\ peers' = peers => MapShrinks
           /\ peer' = peer => StructKept
           /\ work' = work => WorkKept
           /\ pclosed' = pclosed => ClosedKept
           /\ timer' = timer /\ born' = born => TimerHoldsPeer'
BY DEF MapShrinks, StructKept, WorkKept, ClosedKept, IInv, PeerInv, UnbornIsFresh,
       TimerHoldsPeer

\* The peer a background goroutine works on was created.
LEMMA WorkedOnIsBorn ==
    ASSUME IInv, NEW p \in PeerIds, NEW k \in Stages, work[p][k] > 0
    PROVE  p <= born
BY DEF IInv, PeerInv, UnbornIsFresh, TypeOK, PeerIds, Works

\* So was a tracked peer.
LEMMA TrackedIsBorn ==
    ASSUME IInv, NEW d \in Devices, peers[d] # NoPeer
    PROVE  peers[d] \in PeerIds /\ peers[d] <= born
BY DEF IInv, PeerInv, TrackedIsOwn, TypeOK

\* A device maps to the peer that was created for it, so to one device only.
LEMMA OneDevice ==
    ASSUME IInv, NEW d \in Devices, NEW e \in Devices, peers[d] # NoPeer,
           peers[e] = peers[d]
    PROVE  e = d
BY DEF IInv, PeerInv, TrackedIsOwn

\* So was a peer that is current.
LEMMA CurrentIsBorn ==
    ASSUME IInv, NEW p \in PeerIds, Current(p)
    PROVE  p <= born
BY TrackedIsBorn DEF Current, PeerIds, NoPeer

\* The steps of the signaling read loop keep PeerInv.
LEMMA ReadLoopPeer == ASSUME IInv, ReadLoop PROVE PeerInv'
<1>1. ASSUME NEW d \in Devices, NEW a \in Attempts \cup {NoAttempt}, ConnectRequest(d, a)
      PROVE  PeerInv'
  BY <1>1 DEF IInv, TypeOK, PeerInv, TrackedIsOwn, GoneIsUntracked, UnbornIsFresh,
     TimerHoldsPeer, ConnectRequest, LoopIdle, timerVars, NoPeer
<1>2. ASSUME NEW d \in Devices, NEW a \in Attempts \cup {NoAttempt}, NEW ok \in BOOLEAN,
             SDPAnswer(d, a, ok)
      PROVE  PeerInv'
  <2>1. peers[d] \in PeerIds /\ peers[d] <= born
    BY <1>2, TrackedIsBorn DEF SDPAnswer
  <2>2. StructKept
    <3>1. CASE ok
      <4> DEFINE c == IF peer[peers[d]].conn = "new" THEN "connecting"
                                                   ELSE peer[peers[d]].conn
                 r == [peer[peers[d]] EXCEPT !.offer = FALSE, !.answerTimer = FALSE,
                                             !.conn = c]
      <4>1. c \in ConnStates
        BY <2>1, StructFields DEF IInv, ConnStates
      <4>2. r \in PeerStruct /\ r.dev = peer[peers[d]].dev
        BY <2>1, <4>1, StructFields, StructAnswered DEF IInv
      <4>3. SetPeer(peers[d], r)
        BY <1>2, <3>1 DEF SDPAnswer
      <4> QED
        BY <2>1, <4>2, <4>3, SetPeerKept DEF IInv
    <3>2. CASE ~ok
      BY <1>2, <3>2, UnchangedKept DEF SDPAnswer
    <3> QED
      BY <3>1, <3>2
  <2>3. WorkKept
    BY <1>2, <2>1, GoKept DEF SDPAnswer
  <2>4. MapShrinks /\ ClosedKept /\ TimerHoldsPeer' /\ born' = born
    BY <1>2, UnchangedKept DEF SDPAnswer, timerVars
  <2> QED
    BY <2>2, <2>3, <2>4, PeerInvKept
<1>3. ASSUME NEW d \in Devices, NEW a \in Attempts \cup {NoAttempt}, PeerUnavailable(d, a)
      PROVE  PeerInv'
  BY <1>3 DEF IInv, TypeOK, PeerInv, TrackedIsOwn, GoneIsUntracked, UnbornIsFresh,
     TimerHoldsPeer, PeerUnavailable, LoopIdle, timerVars, NoPeer
<1>4. ASSUME SecretUnavailable PROVE PeerInv'
  BY <1>4 DEF IInv, TypeOK, PeerInv, TrackedIsOwn, GoneIsUntracked, UnbornIsFresh,
     TimerHoldsPeer, SecretUnavailable, LoopIdle, timerVars, NoPeer
<1>5. ASSUME CheckLimit PROVE PeerInv'
  BY <1>5 DEF IInv, TypeOK, PeerInv, TrackedIsOwn, GoneIsUntracked, UnbornIsFresh,
     TimerHoldsPeer, CheckLimit, LoopIdle, timerVars, NoPeer
<1>6. ASSUME ReplaceOld PROVE PeerInv'
  <2>1. loop.dev \in Devices
    BY <1>6 DEF ReplaceOld, IInv, LoopInv, LoopServesDevice
  <2>2. MapShrinks
    BY <1>6, <2>1 DEF ReplaceOld, MapShrinks, IInv, TypeOK
  <2>3. WorkKept
    <3>1. CASE peers[loop.dev] = NoPeer
      BY <1>6, <3>1, UnchangedKept DEF ReplaceOld
    <3>2. CASE peers[loop.dev] # NoPeer
      <4>1. \A d \in Devices : peers'[d] # peers[loop.dev]
        BY <1>6, <2>1, <3>2, OneDevice DEF ReplaceOld, IInv, TypeOK
      <4> QED
        BY <1>6, <2>1, <3>2, <4>1, TrackedIsBorn, SpawnKept DEF ReplaceOld, Stages
    <3> QED
      BY <3>1, <3>2
  <2>4. StructKept /\ ClosedKept /\ TimerHoldsPeer' /\ born' = born
    BY <1>6, UnchangedKept DEF ReplaceOld, StopTimers
  <2> QED
    BY <2>2, <2>3, <2>4, PeerInvKept
<1>7. ASSUME OldTornDown PROVE PeerInv'
  <2>1. WorkKept
    BY <1>7, SpawnKept DEF OldTornDown, GoClose, IInv, LoopInv, LoopOldIsGone, Stages
  <2>2. MapShrinks /\ StructKept /\ ClosedKept /\ TimerHoldsPeer' /\ born' = born
    BY <1>7, UnchangedKept DEF OldTornDown, timerVars
  <2> QED
    BY <2>1, <2>2, PeerInvKept
<1>8. ASSUME CreateFails PROVE PeerInv'
  BY <1>8 DEF IInv, TypeOK, PeerInv, TrackedIsOwn, GoneIsUntracked, UnbornIsFresh,
     TimerHoldsPeer, CreateFails, LoopIdle, timerVars, NoPeer
<1>9. ASSUME InsertPeer PROVE PeerInv'
  <2>1. CASE MayInsert(loop.dev)
    <3> DEFINE n == born + 1
    <3>1. /\ loop.dev \in Devices /\ n \in PeerIds /\ n # NoPeer
          /\ \A d \in Devices : peers[d] # n
      BY <1>9, BoundAssumption DEF InsertPeer, IInv, TypeOK, LoopInv, LoopServesDevice,
                                   PeerInv, TrackedIsOwn, PeerIds, NoPeer
    <3>2. /\ born' = n
          /\ peers' = [peers EXCEPT ![loop.dev] = n]
          /\ UNCHANGED <<pclosed, work, timer>>
      BY <1>9, <2>1 DEF InsertPeer, timerVars
    <3>3. \A q \in PeerIds : q # n => peer'[q] = peer[q]
      BY <1>9, <2>1, <3>1 DEF InsertPeer, SetPeer, IInv, TypeOK
    <3>4. peer'[n].dev = loop.dev
      <4>1. loop.attempt \in Attempts \cup {NoAttempt}
        BY DEF IInv, TypeOK, LoopStruct
      <4> DEFINE s == [NoStruct EXCEPT !.dev = loop.dev, !.attempt = loop.attempt]
      <4>2. peer'[n] = s
        BY <1>9, <2>1, <3>1 DEF InsertPeer, SetPeer, IInv, TypeOK
      <4>3. s.dev = loop.dev
        BY <3>1, <4>1, NewStruct
      <4> QED
        BY <4>2, <4>3 DEF s
    <3>5. TrackedIsOwn'
      BY <3>1, <3>2, <3>3, <3>4 DEF TrackedIsOwn, IInv, TypeOK, PeerInv, PeerIds, NoPeer
    <3>6. GoneIsUntracked'
      <4>1. pclosed[n] = "no" /\ \A k \in GoneStages : ~(work[n][k] > 0)
        BY <3>1 DEF IInv, TypeOK, PeerInv, UnbornIsFresh, GoneStages, CloseStages, Stages,
                    PeerIds
      <4> QED
        BY <3>1, <3>2, <4>1 DEF GoneIsUntracked, IInv, TypeOK, PeerInv
    <3>7. UnbornIsFresh'
      <4> SUFFICES ASSUME NEW q \in PeerIds, q > n
                   PROVE  /\ pclosed[q] = "no"
                          /\ \A k \in Stages : work[q][k] = 0
                          /\ peer'[q].conn = "new"
                          /\ peer'[q].auth = "none"
        BY <3>2 DEF UnbornIsFresh
      <4>1. q > born /\ q # n
        BY DEF PeerIds, IInv, TypeOK
      <4>2. peer'[q] = peer[q]
        BY <3>3, <4>1
      <4> QED
        BY <4>1, <4>2 DEF UnbornIsFresh, IInv, PeerInv
    <3>8. TimerHoldsPeer'
      BY <3>2 DEF TimerHoldsPeer, IInv, TypeOK, PeerInv, PeerIds
    <3> QED
      BY <3>5, <3>6, <3>7, <3>8 DEF PeerInv
  <2>2. CASE ~MayInsert(loop.dev)
    BY <1>9, <2>2, UnchangedKept, PeerInvKept DEF InsertPeer, timerVars
  <2> QED
    BY <2>1, <2>2
<1>10. ASSUME SetupFails PROVE PeerInv'
  <2>1. loop.dev \in Devices
    BY <1>10 DEF SetupFails, IInv, LoopInv, LoopServesDevice
  <2>2. MapShrinks
    BY <1>10, <2>1 DEF SetupFails, MapShrinks, IInv, TypeOK
  <2>3. WorkKept
    <3>1. CASE peers[loop.dev] = NoPeer
      BY <1>10, <3>1, UnchangedKept DEF SetupFails
    <3>2. CASE peers[loop.dev] # NoPeer
      <4>1. \A d \in Devices : peers'[d] # peers[loop.dev]
        BY <1>10, <2>1, <3>2, OneDevice DEF SetupFails, IInv, TypeOK
      <4> QED
        BY <1>10, <2>1, <3>2, <4>1, TrackedIsBorn, SpawnKept DEF SetupFails, Stages
    <3> QED
      BY <3>1, <3>2
  <2>4. StructKept /\ ClosedKept /\ TimerHoldsPeer' /\ born' = born
    BY <1>10, UnchangedKept DEF SetupFails, StopTimers
  <2> QED
    BY <2>2, <2>3, <2>4, PeerInvKept
<1>11. ASSUME SetupCloseReturns PROVE PeerInv'
  BY <1>11 DEF IInv, TypeOK, PeerInv, TrackedIsOwn, GoneIsUntracked, UnbornIsFresh,
     TimerHoldsPeer, SetupCloseReturns, LoopIdle, timerVars, NoPeer
<1>12. ASSUME OfferSent PROVE PeerInv'
  <2>1. StructKept
    BY <1>12, StructFields, StructFlags, SetPeerKept DEF OfferSent, IInv, LoopInv,
       LoopHasPeer
  <2>2. MapShrinks /\ WorkKept /\ ClosedKept /\ TimerHoldsPeer' /\ born' = born
    BY <1>12, UnchangedKept DEF OfferSent, timerVars
  <2> QED
    BY <2>1, <2>2, PeerInvKept
<1>13. ASSUME NoticeIgnored PROVE PeerInv'
  BY <1>13 DEF IInv, TypeOK, PeerInv, TrackedIsOwn, GoneIsUntracked, UnbornIsFresh,
     TimerHoldsPeer, NoticeIgnored, LoopIdle, timerVars, NoPeer
<1>14. ASSUME NoticeChecked PROVE PeerInv'
  <2>1. StructKept /\ MapShrinks /\ WorkKept /\ ClosedKept /\ TimerHoldsPeer' /\ born' = born
    BY <1>14, UnchangedKept DEF NoticeChecked, timerVars
  <2> QED
    BY <2>1, PeerInvKept
<1>15. ASSUME NoticeCloses PROVE PeerInv'
  <2>1. loop.new \in PeerIds /\ loop.new <= born
    BY <1>15 DEF NoticeCloses, IInv, LoopInv, LoopHasPeer
  <2>2. WorkKept
    BY <1>15, <2>1, GoKept DEF NoticeCloses
  <2>3. StructKept
    BY <1>15, <2>1, StructFields, StructFlags, SetPeerKept DEF NoticeCloses, IInv
  <2>4. MapShrinks /\ ClosedKept /\ TimerHoldsPeer' /\ born' = born
    BY <1>15, UnchangedKept DEF NoticeCloses, timerVars
  <2> QED
    BY <2>2, <2>3, <2>4, PeerInvKept
<1> QED
  BY <1>1, <1>2, <1>3, <1>4, <1>5, <1>6, <1>7, <1>8, <1>9, <1>10, <1>11,
     <1>12, <1>13, <1>14, <1>15 DEF ReadLoop

\* The steps of pion and the mobile keep PeerInv.
LEMMA PionPeer == ASSUME IInv, Pion PROVE PeerInv'
<1>1. ASSUME NEW p \in PeerIds, ConnUp(p) PROVE PeerInv'
  <2>1. p <= born
    BY <1>1 DEF ConnUp, ConnChange, IInv, TypeOK, PeerIds, PeerInv, UnbornIsFresh
  <2>2. StructKept
    <3> DEFINE b == peer[p].cbs \cup ({"connected"} \cap Callbacks)
               r == [peer[p] EXCEPT !.conn = "connected", !.cbs = b]
    <3>1. r \in PeerStruct /\ r.dev = peer[p].dev
      BY StructFields, StructConn DEF IInv, ConnStates
    <3>2. SetPeer(p, r)
      BY <1>1 DEF ConnUp, ConnChange
    <3> QED
      BY <2>1, <3>1, <3>2, SetPeerKept DEF IInv
  <2>3. MapShrinks /\ WorkKept /\ ClosedKept /\ TimerHoldsPeer' /\ born' = born
    BY <1>1, UnchangedKept DEF ConnUp, timerVars
  <2> QED
    BY <2>2, <2>3, PeerInvKept
<1>2. ASSUME NEW p \in PeerIds, ConnLost(p) PROVE PeerInv'
  <2>1. p <= born
    BY <1>2 DEF ConnLost, ConnChange, IInv, TypeOK, PeerIds, PeerInv, UnbornIsFresh
  <2>2. StructKept
    <3> DEFINE b == peer[p].cbs \cup ({"disconnected"} \cap Callbacks)
               r == [peer[p] EXCEPT !.conn = "disconnected", !.cbs = b]
    <3>1. r \in PeerStruct /\ r.dev = peer[p].dev
      BY StructFields, StructConn DEF IInv, ConnStates
    <3>2. SetPeer(p, r)
      BY <1>2 DEF ConnLost, ConnChange
    <3> QED
      BY <2>1, <3>1, <3>2, SetPeerKept DEF IInv
  <2>3. MapShrinks /\ WorkKept /\ ClosedKept /\ TimerHoldsPeer' /\ born' = born
    BY <1>2, UnchangedKept DEF ConnLost, timerVars
  <2> QED
    BY <2>2, <2>3, PeerInvKept
<1>3. ASSUME NEW p \in PeerIds, ConnFailed(p) PROVE PeerInv'
  <2>1. p <= born
    BY <1>3 DEF ConnFailed, ConnChange, IInv, TypeOK, PeerIds, PeerInv, UnbornIsFresh
  <2>2. StructKept
    <3> DEFINE b == peer[p].cbs \cup ({"failed"} \cap Callbacks)
               r == [peer[p] EXCEPT !.conn = "failed", !.cbs = b]
    <3>1. r \in PeerStruct /\ r.dev = peer[p].dev
      BY StructFields, StructConn DEF IInv, ConnStates
    <3>2. SetPeer(p, r)
      BY <1>3 DEF ConnFailed, ConnChange
    <3> QED
      BY <2>1, <3>1, <3>2, SetPeerKept DEF IInv
  <2>3. MapShrinks /\ WorkKept /\ ClosedKept /\ TimerHoldsPeer' /\ born' = born
    BY <1>3, UnchangedKept DEF ConnFailed, timerVars
  <2> QED
    BY <2>2, <2>3, PeerInvKept
<1>4. ASSUME NEW p \in PeerIds, ChannelOpens(p) PROVE PeerInv'
  <2>1. p <= born
    BY <1>4 DEF ChannelOpens, IInv, TypeOK, PeerIds, PeerInv, UnbornIsFresh
  <2>2. StructKept
    BY <1>4, <2>1, StructFields, StructChannel, SetPeerKept DEF ChannelOpens, IInv
  <2>3. MapShrinks /\ WorkKept /\ ClosedKept /\ TimerHoldsPeer' /\ born' = born
    BY <1>4, UnchangedKept DEF ChannelOpens, timerVars
  <2> QED
    BY <2>2, <2>3, PeerInvKept
<1>5. ASSUME NEW p \in PeerIds, AuthSucceeds(p) PROVE PeerInv'
  <2>1. p <= born
    BY <1>5 DEF AuthSucceeds, IInv, TypeOK, PeerIds, PeerInv, UnbornIsFresh
  <2>2. StructKept
    BY <1>5, <2>1, StructFields, StructChannel, SetPeerKept DEF AuthSucceeds, IInv
  <2>3. MapShrinks /\ WorkKept /\ ClosedKept /\ TimerHoldsPeer' /\ born' = born
    BY <1>5, UnchangedKept DEF AuthSucceeds, timerVars
  <2> QED
    BY <2>2, <2>3, PeerInvKept
<1>6. ASSUME NEW p \in PeerIds, RequestBegins(p) PROVE PeerInv'
  <2>1. StructKept
    BY <1>6, StructFields, StructChannel, SetPeerKept DEF RequestBegins, IInv
  <2>2. MapShrinks /\ WorkKept /\ ClosedKept /\ TimerHoldsPeer' /\ born' = born
    BY <1>6, UnchangedKept DEF RequestBegins, timerVars
  <2> QED
    BY <2>1, <2>2, PeerInvKept
<1> QED
  BY <1>1, <1>2, <1>3, <1>4, <1>5, <1>6 DEF Pion

\* The steps of the callbacks keep PeerInv.
LEMMA CallbackPeer == ASSUME IInv, Callback PROVE PeerInv'
<1>1. ASSUME NEW p \in PeerIds, NEW s \in {"failed", "closed"}, OnFailedOrClosed(p, s)
      PROVE  PeerInv'
  <2>1. p <= born
    BY <1>1, CurrentIsBorn DEF OnFailedOrClosed
  <2>2. StructKept
    BY <1>1, StructFields, StructCbs, SetPeerKept DEF OnFailedOrClosed, CallbackDone, IInv
  <2>3. WorkKept
    BY <1>1, <2>1, GoKept DEF OnFailedOrClosed
  <2>4. MapShrinks /\ ClosedKept /\ TimerHoldsPeer' /\ born' = born
    BY <1>1, UnchangedKept DEF OnFailedOrClosed, StopTimers
  <2> QED
    BY <2>2, <2>3, <2>4, PeerInvKept
<1>2. ASSUME NEW p \in PeerIds, OnConnected(p) PROVE PeerInv'
  <2>1. StructKept
    BY <1>2, StructFields, StructCbs, SetPeerKept DEF OnConnected, CallbackDone, IInv
  <2>2. MapShrinks /\ WorkKept /\ ClosedKept /\ TimerHoldsPeer' /\ born' = born
    BY <1>2, UnchangedKept DEF OnConnected, StopTimers
  <2> QED
    BY <2>1, <2>2, PeerInvKept
<1>3. ASSUME NEW p \in PeerIds, OnDisconnected(p) PROVE PeerInv'
  <2>1. StructKept
    BY <1>3, StructFields, StructCbs, SetPeerKept DEF OnDisconnected, CallbackDone, IInv
  <2>2. MapShrinks /\ WorkKept /\ ClosedKept /\ TimerHoldsPeer' /\ born' = born
    BY <1>3, UnchangedKept DEF OnDisconnected, timerVars
  <2> QED
    BY <2>1, <2>2, PeerInvKept
<1>4. ASSUME NEW p \in PeerIds, AuthFails(p) PROVE PeerInv'
  <2>1. p <= born
    BY <1>4 DEF AuthFails, IInv, TypeOK, PeerIds, PeerInv, UnbornIsFresh
  <2>2. StructKept
    BY <1>4, <2>1, StructFields, StructChannel, SetPeerKept DEF AuthFails, IInv
  <2>3. WorkKept
    BY <1>4, <2>1, GoKept DEF AuthFails
  <2>4. MapShrinks /\ ClosedKept /\ TimerHoldsPeer' /\ born' = born
    BY <1>4, UnchangedKept DEF AuthFails, timerVars
  <2> QED
    BY <2>2, <2>3, <2>4, PeerInvKept
<1>5. ASSUME NEW p \in PeerIds, RequestEnds(p) PROVE PeerInv'
  <2>1. StructKept
    BY <1>5, StructFields, StructChannel, SetPeerKept DEF RequestEnds, IInv
  <2>2. MapShrinks /\ WorkKept /\ ClosedKept /\ TimerHoldsPeer' /\ born' = born
    BY <1>5, UnchangedKept DEF RequestEnds, timerVars
  <2> QED
    BY <2>1, <2>2, PeerInvKept
<1>6. ASSUME NEW p \in PeerIds, AnswerTimeout(p) PROVE PeerInv'
  <2>1. p <= born
    BY <1>6, CurrentIsBorn DEF AnswerTimeout
  <2>2. StructKept
    BY <1>6, StructFields, StructFlags, SetPeerKept DEF AnswerTimeout, IInv
  <2>3. WorkKept
    BY <1>6, <2>1, GoKept DEF AnswerTimeout
  <2>4. MapShrinks /\ ClosedKept /\ TimerHoldsPeer' /\ born' = born
    BY <1>6, UnchangedKept DEF AnswerTimeout, timerVars
  <2> QED
    BY <2>2, <2>3, <2>4, PeerInvKept
<1> QED
  BY <1>1, <1>2, <1>3, <1>4, <1>5, <1>6 DEF Callback

\* The steps of the background goroutines keep PeerInv.
LEMMA GoroutinePeer == ASSUME IInv, Goroutine PROVE PeerInv'
<1>1. ASSUME NEW p \in PeerIds, NEW k \in {"stop", "rstop", "cstop"}, StopDispatch(p, k)
      PROVE  PeerInv'
  <2>1. StructKept
    BY <1>1, StructFields, StructChannel, SetPeerKept DEF StopDispatch, IInv
  <2>2. WorkKept
    BY <1>1, MoveKept DEF StopDispatch, AfterStop, Stages, GoneStages, CloseStages
  <2>3. MapShrinks /\ ClosedKept /\ TimerHoldsPeer' /\ born' = born
    BY <1>1, UnchangedKept DEF StopDispatch, timerVars
  <2> QED
    BY <2>1, <2>2, <2>3, PeerInvKept
<1>2. ASSUME NEW p \in PeerIds, CheckCurrent(p) PROVE PeerInv'
  <2>1. WorkKept
    BY <1>2, MoveKept DEF CheckCurrent, Stages, GoneStages, CloseStages
  <2>2. MapShrinks /\ StructKept /\ ClosedKept /\ TimerHoldsPeer' /\ born' = born
    BY <1>2, UnchangedKept DEF CheckCurrent, timerVars
  <2> QED
    BY <2>1, <2>2, PeerInvKept
<1>3. ASSUME NEW p \in PeerIds, Notify(p) PROVE PeerInv'
  <2>1. WorkKept
    BY <1>3, MoveKept DEF Notify, Stages, GoneStages, CloseStages
  <2>2. MapShrinks /\ StructKept /\ ClosedKept /\ TimerHoldsPeer' /\ born' = born
    BY <1>3, UnchangedKept DEF Notify, timerVars
  <2> QED
    BY <2>1, <2>2, PeerInvKept
<1>4. ASSUME NEW p \in PeerIds, NotifyReplaced(p) PROVE PeerInv'
  <2>1. WorkKept
    BY <1>4, FinishKept DEF NotifyReplaced, Stages
  <2>2. MapShrinks /\ StructKept /\ ClosedKept /\ TimerHoldsPeer' /\ born' = born
    BY <1>4, UnchangedKept DEF NotifyReplaced, timerVars
  <2> QED
    BY <2>1, <2>2, PeerInvKept
<1>5. ASSUME NEW p \in PeerIds, NotifyClosing(p) PROVE PeerInv'
  <2>1. WorkKept
    BY <1>5, MoveKept DEF NotifyClosing, Stages, GoneStages, CloseStages
  <2>2. MapShrinks /\ StructKept /\ ClosedKept /\ TimerHoldsPeer' /\ born' = born
    BY <1>5, UnchangedKept DEF NotifyClosing, timerVars
  <2> QED
    BY <2>1, <2>2, PeerInvKept
<1>6. ASSUME NEW p \in PeerIds, NEW k \in {"evict", "evictU"}, ClosePeerIfCurrent(p, k)
      PROVE  PeerInv'
  <2>1. p \in PeerIds /\ p # NoPeer
    BY DEF PeerIds, NoPeer
  <2>2. \A e \in Devices : peers'[e] # p
    <3>1. CASE Current(p)
      BY <1>6, <2>1, <3>1, OneDevice DEF ClosePeerIfCurrent, Current, IInv, TypeOK
    <3>2. CASE ~Current(p)
      BY <1>6, <2>1, <3>2 DEF ClosePeerIfCurrent, Current, IInv, PeerInv, TrackedIsOwn
    <3> QED
      BY <3>1, <3>2
  <2>3. MapShrinks
    BY <1>6 DEF ClosePeerIfCurrent, MapShrinks, Current, IInv, TypeOK
  <2>4. WorkKept
    BY <1>6, <2>2, MoveKept DEF ClosePeerIfCurrent, AfterEvict, Stages
  <2>5. StructKept /\ ClosedKept /\ TimerHoldsPeer' /\ born' = born
    BY <1>6, UnchangedKept DEF ClosePeerIfCurrent, StopTimers, timerVars
  <2> QED
    BY <2>3, <2>4, <2>5, PeerInvKept
<1>7. ASSUME NEW p \in PeerIds, CloseBegins(p) PROVE PeerInv'
  <2>1. ClosedKept
    BY <1>7 DEF CloseBegins, ClosedKept, GoneStages, IInv, TypeOK
  <2>2. MapShrinks /\ StructKept /\ WorkKept /\ TimerHoldsPeer' /\ born' = born
    BY <1>7, UnchangedKept DEF CloseBegins, timerVars
  <2> QED
    BY <2>1, <2>2, PeerInvKept
<1>8. ASSUME NEW p \in PeerIds, CloseEnds(p) PROVE PeerInv'
  <2>1. p <= born
    BY <1>8 DEF CloseEnds, IInv, TypeOK, PeerIds, PeerInv, UnbornIsFresh
  <2>2. StructKept
    <3> DEFINE b == peer[p].cbs \cup {"closed"}
               r == [peer[p] EXCEPT !.conn = "closed", !.cbs = b]
    <3>1. r \in PeerStruct /\ r.dev = peer[p].dev
      BY StructFields, StructConn DEF IInv, ConnStates, Callbacks
    <3>2. SetPeer(p, r)
      BY <1>8 DEF CloseEnds
    <3> QED
      BY <2>1, <3>1, <3>2, SetPeerKept DEF IInv
  <2>3. WorkKept
    <3>1. GoneStages \subseteq Stages
      BY DEF GoneStages, CloseStages, Stages
    <3>2. ASSUME NEW q \in PeerIds, NEW j \in Stages
          PROVE  work'[q][j] = work[q][j] \/ work'[q][j] = 0
      BY <1>8 DEF CloseEnds, IInv, TypeOK, Works
    <3> QED
      BY <3>1, <3>2 DEF WorkKept, IInv, PeerInv, UnbornIsFresh
  <2>4. ClosedKept
    BY <1>8 DEF CloseEnds, ClosedKept, IInv, TypeOK
  <2>5. MapShrinks /\ TimerHoldsPeer' /\ born' = born
    BY <1>8, UnchangedKept DEF CloseEnds, timerVars
  <2> QED
    BY <2>2, <2>3, <2>4, <2>5, PeerInvKept
<1>9. ASSUME NEW p \in PeerIds, NEW k \in CloseStages, CloseReturns(p, k) PROVE PeerInv'
  <2>1. WorkKept
    BY <1>9, FinishKept DEF CloseReturns, CloseStages, Stages
  <2>2. MapShrinks /\ StructKept /\ ClosedKept /\ TimerHoldsPeer' /\ born' = born
    BY <1>9, UnchangedKept DEF CloseReturns, timerVars
  <2> QED
    BY <2>1, <2>2, PeerInvKept
<1> QED
  BY <1>1, <1>2, <1>3, <1>4, <1>5, <1>6, <1>7, <1>8, <1>9 DEF Goroutine

\* The steps of reload and shutdown keep PeerInv.
LEMMA CloseAllPeer == ASSUME IInv, CloseAll PROVE PeerInv'
<1>1. ASSUME NEW d \in Devices \cup {Unpaired}, ReloadPairing(d) PROVE PeerInv'
  BY <1>1 DEF IInv, TypeOK, PeerInv, TrackedIsOwn, GoneIsUntracked, UnbornIsFresh,
     TimerHoldsPeer, ReloadPairing, Use, Budgets, timerVars, NoPeer
<1>2. ASSUME ReloadCloseAll PROVE PeerInv'
  <2>1. MapShrinks
    BY <1>2 DEF ReloadCloseAll, CloseAllPeers, MapShrinks
  <2>2. WorkKept
    <3>1. \A q \in PeerIds : \A d \in Devices : peers'[d] # q
      BY <1>2 DEF ReloadCloseAll, CloseAllPeers, PeerIds, NoPeer
    <3>2. ASSUME NEW q \in PeerIds, q > born, NEW j \in Stages
          PROVE  work'[q][j] = 0
      <4>1. ~Tracked(q)
        BY <3>2 DEF Tracked, IInv, TypeOK, PeerInv, TrackedIsOwn, PeerIds, NoPeer
      <4> QED
        BY <1>2, <3>2, <4>1 DEF ReloadCloseAll, CloseAllPeers, IInv, PeerInv, UnbornIsFresh
    <3> QED
      BY <3>1, <3>2 DEF WorkKept
  <2>3. StructKept /\ ClosedKept /\ TimerHoldsPeer' /\ born' = born
    BY <1>2, UnchangedKept DEF ReloadCloseAll, CloseAllPeers
  <2> QED
    BY <2>1, <2>2, <2>3, PeerInvKept
<1>3. ASSUME ReloadWaited PROVE PeerInv'
  BY <1>3 DEF IInv, TypeOK, PeerInv, TrackedIsOwn, GoneIsUntracked, UnbornIsFresh,
     TimerHoldsPeer, ReloadWaited, timerVars, NoPeer
<1>4. ASSUME Reopen PROVE PeerInv'
  BY <1>4 DEF IInv, TypeOK, PeerInv, TrackedIsOwn, GoneIsUntracked, UnbornIsFresh,
     TimerHoldsPeer, Reopen, Reopened, timerVars, NoPeer
<1>5. ASSUME BeginShutdown PROVE PeerInv'
  BY <1>5 DEF IInv, TypeOK, PeerInv, TrackedIsOwn, GoneIsUntracked, UnbornIsFresh,
     TimerHoldsPeer, BeginShutdown, timerVars, NoPeer
<1>6. ASSUME ShutdownCloseAll PROVE PeerInv'
  <2>1. MapShrinks
    BY <1>6 DEF ShutdownCloseAll, CloseAllPeers, MapShrinks
  <2>2. WorkKept
    <3>1. \A q \in PeerIds : \A d \in Devices : peers'[d] # q
      BY <1>6 DEF ShutdownCloseAll, CloseAllPeers, PeerIds, NoPeer
    <3>2. ASSUME NEW q \in PeerIds, q > born, NEW j \in Stages
          PROVE  work'[q][j] = 0
      <4>1. ~Tracked(q)
        BY <3>2 DEF Tracked, IInv, TypeOK, PeerInv, TrackedIsOwn, PeerIds, NoPeer
      <4> QED
        BY <1>6, <3>2, <4>1 DEF ShutdownCloseAll, CloseAllPeers, IInv, PeerInv,
           UnbornIsFresh
    <3> QED
      BY <3>1, <3>2 DEF WorkKept
  <2>3. StructKept /\ ClosedKept /\ TimerHoldsPeer' /\ born' = born
    BY <1>6, UnchangedKept DEF ShutdownCloseAll, CloseAllPeers
  <2> QED
    BY <2>1, <2>2, <2>3, PeerInvKept
<1>7. ASSUME ShutdownWaited PROVE PeerInv'
  BY <1>7 DEF IInv, TypeOK, PeerInv, TrackedIsOwn, GoneIsUntracked, UnbornIsFresh,
     TimerHoldsPeer, ShutdownWaited, timerVars, NoPeer
<1> QED
  BY <1>1, <1>2, <1>3, <1>4, <1>5, <1>6, <1>7 DEF CloseAll

\* The steps of the grace timer and the watchdogs keep PeerInv.
LEMMA TimersPeer == ASSUME IInv, Timers PROVE PeerInv'
<1>1. ASSUME NEW d \in Devices, GraceExpires(d) PROVE PeerInv'
  BY <1>1 DEF IInv, TypeOK, PeerInv, TrackedIsOwn, GoneIsUntracked, UnbornIsFresh,
     TimerHoldsPeer, GraceExpires, timerVars, NoPeer
<1>2. ASSUME NEW d \in Devices, GraceLookup(d) PROVE PeerInv'
  BY <1>2 DEF IInv, TypeOK, PeerInv, TrackedIsOwn, GoneIsUntracked, UnbornIsFresh,
     TimerHoldsPeer, GraceLookup, TimerIdle, timerVars, NoPeer
<1>3. ASSUME NEW d \in Devices, GraceRecovered(d) PROVE PeerInv'
  BY <1>3 DEF IInv, TypeOK, PeerInv, TrackedIsOwn, GoneIsUntracked, UnbornIsFresh,
     TimerHoldsPeer, GraceRecovered, TimerIdle, timerVars, NoPeer
<1>4. ASSUME NEW d \in Devices, GraceEarly(d) PROVE PeerInv'
  BY <1>4 DEF IInv, TypeOK, PeerInv, TrackedIsOwn, GoneIsUntracked, UnbornIsFresh,
     TimerHoldsPeer, GraceEarly, TimerIdle, timerVars, NoPeer
<1>5. ASSUME NEW d \in Devices, RestartBegins(d) PROVE PeerInv'
  BY <1>5 DEF IInv, TypeOK, PeerInv, TrackedIsOwn, GoneIsUntracked, UnbornIsFresh,
     TimerHoldsPeer, RestartBegins, TimerIdle, timerVars, NoPeer
<1>6. ASSUME NEW d \in Devices, RestartFails(d) PROVE PeerInv'
  <2>1. timer[d].peer \in PeerIds /\ timer[d].peer <= born
    BY <1>6 DEF RestartFails, IInv, PeerInv, TimerHoldsPeer
  <2>2. WorkKept
    BY <1>6, <2>1, GoKept DEF RestartFails
  <2>3. TimerHoldsPeer' /\ born' = born
    BY <1>6 DEF RestartFails, TimerIdle, IInv, TypeOK, PeerInv, TimerHoldsPeer
  <2>4. MapShrinks /\ StructKept /\ ClosedKept
    BY <1>6, UnchangedKept DEF RestartFails, timerVars
  <2> QED
    BY <2>2, <2>3, <2>4, PeerInvKept
<1>7. ASSUME NEW d \in Devices, RestartOffered(d) PROVE PeerInv'
  <2>1. timer[d].peer \in PeerIds /\ timer[d].peer <= born
    BY <1>7 DEF RestartOffered, IInv, PeerInv, TimerHoldsPeer
  <2>2. StructKept
    BY <1>7, <2>1, StructFields, StructFlags, SetPeerKept DEF RestartOffered, IInv
  <2>3. TimerHoldsPeer' /\ born' = born
    BY <1>7, <2>1 DEF RestartOffered, IInv, TypeOK, TimerStruct, PeerInv, TimerHoldsPeer
  <2>4. MapShrinks /\ WorkKept /\ ClosedKept
    BY <1>7, UnchangedKept DEF RestartOffered, timerVars
  <2> QED
    BY <2>2, <2>3, <2>4, PeerInvKept
<1>8. ASSUME NEW d \in Devices, ArmWatchdog(d) PROVE PeerInv'
  BY <1>8 DEF IInv, TypeOK, PeerInv, TrackedIsOwn, GoneIsUntracked, UnbornIsFresh,
     TimerHoldsPeer, ArmWatchdog, TimerIdle, MayArm, timerVars, NoPeer
<1>9. ASSUME NEW d \in Devices, WatchdogExpires(d) PROVE PeerInv'
  BY <1>9 DEF IInv, TypeOK, PeerInv, TrackedIsOwn, GoneIsUntracked, UnbornIsFresh,
     TimerHoldsPeer, WatchdogExpires, timerVars, NoPeer
<1>10. ASSUME NEW p \in PeerIds, WatchdogRuns(p) PROVE PeerInv'
  <2>1. WorkKept
    <3>1. CASE Current(p)
      BY <1>10, <3>1, CurrentIsBorn, GoKept DEF WatchdogRuns
    <3>2. CASE ~Current(p)
      BY <1>10, <3>2, UnchangedKept DEF WatchdogRuns
    <3> QED
      BY <3>1, <3>2
  <2>2. MapShrinks /\ StructKept /\ ClosedKept /\ TimerHoldsPeer' /\ born' = born
    BY <1>10, UnchangedKept DEF WatchdogRuns, timerVars
  <2> QED
    BY <2>1, <2>2, PeerInvKept
<1> QED
  BY <1>1, <1>2, <1>3, <1>4, <1>5, <1>6, <1>7, <1>8, <1>9, <1>10 DEF Timers

\* The steps of the idle sweep keep PeerInv.
LEMMA SweepPeer == ASSUME IInv, Sweep PROVE PeerInv'
<1>1. ASSUME NEW d \in Devices, SweepTracked(d) PROVE PeerInv'
  <2>1. peers[d] \in PeerIds /\ peers[d] <= born
    BY <1>1, TrackedIsBorn DEF SweepTracked
  <2>2. WorkKept
    BY <1>1, <2>1, GoKept DEF SweepTracked
  <2>3. MapShrinks /\ StructKept /\ ClosedKept /\ TimerHoldsPeer' /\ born' = born
    BY <1>1, UnchangedKept DEF SweepTracked, timerVars
  <2> QED
    BY <2>2, <2>3, PeerInvKept
<1>2. ASSUME NEW d \in Devices, SweepUntracked(d) PROVE PeerInv'
  BY <1>2 DEF IInv, TypeOK, PeerInv, TrackedIsOwn, GoneIsUntracked, UnbornIsFresh,
     TimerHoldsPeer, SweepUntracked, Use, Budgets, timerVars, NoPeer
<1>3. ASSUME SweepDrops PROVE PeerInv'
  BY <1>3 DEF IInv, TypeOK, PeerInv, TrackedIsOwn, GoneIsUntracked, UnbornIsFresh,
     TimerHoldsPeer, SweepDrops, DropSession, timerVars, NoPeer
<1> QED
  BY <1>1, <1>2, <1>3 DEF Sweep

-----------------------------------------------------------------------------
(* The theorems.                                                            *)

\* The invariant holds initially.
LEMMA InitIInv == Init => IInv
<1> SUFFICES ASSUME Init PROVE IInv
  OBVIOUS
<1>1. TypeOK
  <2>1. peer \in [PeerIds -> PeerStruct]
    BY DEF Init, NoStruct, PeerStruct, ConnStates
  <2>2. loop \in LoopStruct /\ timer \in [Devices -> TimerStruct]
    BY DEF Init, LoopIdle, LoopStruct, TimerIdle, TimerStruct
  <2>3. work \in Works
    BY DEF Init, Idle, Works
  <2>4. born \in 0 .. MaxConnects /\ left \in [Budgets -> Nat]
    BY BoundAssumption DEF Init
  <2>5. replacedAttempts \in Seq(Attempts \cup {NoAttempt})
    BY EmptySeq DEF Init
  <2>6. /\ pclosed \in [PeerIds -> {"no", "closing", "done"}]
        /\ snap \in [Callers -> SUBSET PeerIds]
        /\ fired \in SUBSET PeerIds
    BY DEF Init
  <2> QED
    BY <2>1, <2>2, <2>3, <2>4, <2>5, <2>6 DEF Init, TypeOK
<1>2. LoopInv
  BY DEF Init, LoopIdle, LoopInv, LoopServesDevice, LoopFoundNoPeer, LoopOldIsGone,
     LoopHasPeer
<1>3. PeerInv
  BY DEF Init, NoStruct, Idle, TimerIdle, PeerInv, TrackedIsOwn, GoneIsUntracked,
     UnbornIsFresh,
         TimerHoldsPeer, GoneStages, CloseStages, Stages, PeerIds, NoPeer
<1>4. ManagerInv
  BY DEF Init, ManagerInv, ClosedTracksNothing, ShutdownFlagged, WaitsOnlyWhileClosed,
         PairedUnlessLoaded, WatchdogWatchesTracked
<1> QED
  BY <1>1, <1>2, <1>3, <1>4 DEF IInv

\* A step that changes nothing keeps it.
LEMMA StutterIInv == IInv /\ UNCHANGED vars => IInv'
<1> SUFFICES ASSUME IInv, UNCHANGED vars PROVE IInv'
  OBVIOUS
<1>1. TypeOK'
  BY DEF IInv, TypeOK, vars
<1>2. LoopInv'
  BY DEF IInv, LoopInv, LoopServesDevice, LoopFoundNoPeer, LoopOldIsGone, LoopHasPeer, vars
<1>3. PeerInv'
  BY DEF IInv, PeerInv, TrackedIsOwn, GoneIsUntracked, UnbornIsFresh, TimerHoldsPeer, vars
<1>4. ManagerInv'
  BY DEF IInv, ManagerInv, ClosedTracksNothing, ShutdownFlagged, WaitsOnlyWhileClosed,
         PairedUnlessLoaded, WatchdogWatchesTracked, vars
<1> QED
  BY <1>1, <1>2, <1>3, <1>4 DEF IInv

\* Every step of the manager keeps it.
LEMMA NextIInv == IInv /\ Next => IInv'
<1> SUFFICES ASSUME IInv, Next PROVE IInv'
  OBVIOUS
<1>1. CASE ReadLoop
  BY <1>1, ReadLoopType, ReadLoopLoop, ReadLoopPeer, ReadLoopManager DEF IInv
<1>2. CASE Pion
  BY <1>2, PionType, PionLoop, PionPeer, PionManager DEF IInv
<1>3. CASE Callback
  BY <1>3, CallbackType, CallbackLoop, CallbackPeer, CallbackManager DEF IInv
<1>4. CASE Goroutine
  BY <1>4, GoroutineType, GoroutineLoop, GoroutinePeer, GoroutineManager DEF IInv
<1>5. CASE CloseAll
  BY <1>5, CloseAllType, CloseAllLoop, CloseAllPeer, CloseAllManager DEF IInv
<1>6. CASE Timers
  BY <1>6, TimersType, TimersLoop, TimersPeer, TimersManager DEF IInv
<1>7. CASE Sweep
  BY <1>7, SweepType, SweepLoop, SweepPeer, SweepManager DEF IInv
<1> QED
  BY <1>1, <1>2, <1>3, <1>4, <1>5, <1>6, <1>7 DEF Next

\* The inductive invariant of the manager.
THEOREM Invariance == Spec => []IInv
BY InitIInv, NextIInv, StutterIInv, PTL DEF Spec

\* Every variable keeps its shape; in particular no WaitGroup counter of the
\* manager goes below zero, which Go answers with a panic.
THEOREM TypeCorrect == Spec => []TypeOK
<1>1. IInv => TypeOK
  BY DEF IInv
<1> QED
  BY <1>1, Invariance, PTL

\* A closed manager tracks no peer: nothing is inserted behind the snapshot that
\* closeAll takes, so no peer escapes a reload or a shutdown.
THEOREM ClosedIsEmpty == Spec => []ClosedTracksNothing
<1>1. IInv => ClosedTracksNothing
  BY DEF IInv, ManagerInv
<1> QED
  BY <1>1, Invariance, PTL

\* A WaitGroup is only waited on while the manager is closed, whatever the order
\* of a reload and a shutdown.
THEOREM WaitsSafely == Spec => []WaitsOnlyWhileClosed
<1>1. IInv => WaitsOnlyWhileClosed
  BY DEF IInv, ManagerInv
<1> QED
  BY <1>1, Invariance, PTL

\* A tracked peer's Close has not begun, so handleConnectRequest never waits on a
\* hung Close while it holds pm.mu.
THEOREM TrackedIsOpen == Spec => []TrackedNotClosing
<1>1. IInv => TrackedNotClosing
  BY DEF IInv, TypeOK, PeerInv, GoneIsUntracked, TrackedNotClosing
<1> QED
  BY <1>1, Invariance, PTL

\* Outside a reload only the paired device is tracked.
THEOREM OnlyPaired == Spec => []OnlyPairedTracked
<1>1. IInv => OnlyPairedTracked
  BY DEF IInv, ManagerInv, PairedUnlessLoaded, OnlyPairedTracked
<1> QED
  BY <1>1, Invariance, PTL

\* A registered ICE-restart watchdog watches the tracked peer of its device.
THEOREM WatchdogIsCurrent == Spec => []WatchdogWatchesTracked
<1>1. IInv => WatchdogWatchesTracked
  BY DEF IInv, ManagerInv
<1> QED
  BY <1>1, Invariance, PTL

=============================================================================
