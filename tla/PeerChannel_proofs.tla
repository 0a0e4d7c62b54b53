-------------------------- MODULE PeerChannel_proofs --------------------------
(***************************************************************************)
(* Safety of a peer's DataChannel, for any thresholds, any mobile and any   *)
(* interleaving of the goroutines that share it.                            *)
(***************************************************************************)
EXTENDS PeerChannel, FiniteSetTheorems, TLAPS

\* The stages of SendMessageContext, those past its gate, and those only output reaches.
SendStages == {"gate", "ceiling", "drain", "check", "wait", "put"}
PastGate == SendStages \ {"gate"}
Draining == {"drain", "check", "wait"}

\* Where a send may return to.
Returns == {"idle", "challenged", "confirmed", "list", "pre", "preSent", "sent", "leave"}

\* handleAttach from the bridge to the start of the stream.
Bridging == {"bridge", "pre", "preSent", "start"}

\* Where a thread can be.
Places ==
    SendStages \cup Returns \cup Bridging \cup
        {"open", "fail", "verify", "commit", "ping", "attach", "detach", "await", "detached",
         "reset", "read", "stop", "lock", "close", "done"}

Calls == Kinds \cup Messages \cup {"none"}

ThreadStates == [pc : Places, msg : Calls, ret : Places, ok : BOOLEAN]

ChannelTypes ==
    /\ auth \in [resolved : BOOLEAN, authenticated : BOOLEAN, confirmed : BOOLEAN]
    /\ buffered \in Nat
    /\ low \in BOOLEAN
    /\ sendReady \in BOOLEAN
    /\ th \in [Threads -> ThreadStates]

\* The handshake is resolved once, with one verdict.
OneVerdict ==
    /\ verdicts \in {{}, {"passed"}, {"failed"}}
    /\ ~auth.resolved => verdicts = {}

\* authConfirmed is set when auth_confirm is in the channel, and what is past the gate
\* before that belongs to the handshake.
GateHolds ==
    /\ auth.confirmed => "confirm" \in heard
    /\ heard \subseteq Handshake \/ "confirm" \in heard
    /\ \A t \in Senders : th[t].pc \in PastGate => th[t].msg \in Handshake \/ auth.confirmed

\* Only a send of auth_confirm returns to ConfirmSent, with what the send returned.
ConfirmReturns ==
    /\ \A t \in Senders : th[t].pc \in SendStages => th[t].ret \in Returns
    /\ th["dispatch"].pc \in SendStages /\ th["dispatch"].ret = "confirmed" =>
          th["dispatch"].msg = "confirm"
    /\ th["dispatch"].pc = "confirmed" /\ th["dispatch"].ok => "confirm" \in heard
    /\ th["dispatch"].pc = "await" => th["dispatch"].ret \in {"bridge", "detached"}

\* One goroutine sends output at a time: the dispatch while there is no stream yet, or the
\* stream.
OutputAlone ==
    /\ \A t \in Senders : th[t].pc \in Draining => th[t].msg = "output"
    /\ \A t \in Senders : th[t].pc \in SendStages /\ th[t].msg = "output" =>
          t = "stream" \/ (t = "dispatch" /\ th[t].ret = "preSent")
    /\ (\/ th["dispatch"].pc \in Bridging
        \/ th["dispatch"].pc \in SendStages /\ th["dispatch"].ret \in Bridging)
         => th["stream"].pc = "idle"

\* The inductive invariant.
IInv ==
    /\ ChannelTypes
    /\ OneVerdict
    /\ GateHolds
    /\ ConfirmReturns
    /\ OutputAlone
    /\ NoLostDrain

Shared == <<auth, verdicts, heard, buffered, low, sendReady, closed>>

-----------------------------------------------------------------------------
(* What the moves of a thread do to the threads                             *)

\* A thread that is idle.
LEMMA IdleThread ==
    /\ Idle \in ThreadStates
    /\ Idle.pc = "idle"
    /\ \A p \in Places, ok \in BOOLEAN :
          LET r == [Idle EXCEPT !.pc = p, !.ok = ok]
          IN  r \in ThreadStates /\ r.pc = p /\ r.ok = ok
  BY DEF Idle, ThreadStates, Places, Returns, Calls

\* A thread's record is replaced by another one.
LEMMA ReplaceEffect ==
    ASSUME ChannelTypes, NEW t \in Threads, NEW r \in ThreadStates, th' = [th EXCEPT ![t] = r]
    PROVE  /\ th' \in [Threads -> ThreadStates]
           /\ th'[t] = r
           /\ \A u \in Threads \ {t} : th'[u] = th[u]
  BY DEF ChannelTypes

\* Goto moves one thread, and leaves its call alone unless it ends.
LEMMA GotoEffect ==
    ASSUME ChannelTypes, NEW t \in Threads, NEW pc \in Places, Goto(t, pc)
    PROVE  /\ th' \in [Threads -> ThreadStates]
           /\ th'[t].pc = pc
           /\ pc # "idle" => /\ th'[t].msg = th[t].msg
                             /\ th'[t].ret = th[t].ret
                             /\ th'[t].ok = th[t].ok
           /\ \A u \in Threads \ {t} : th'[u] = th[u]
<1>1. CASE pc = "idle"
  <2>1. th' = [th EXCEPT ![t] = Idle]
    BY <1>1 DEF Goto
  <2> QED
    BY <1>1, <2>1, IdleThread, ReplaceEffect
<1>2. CASE pc # "idle"
  <2> DEFINE r == [th[t] EXCEPT !.pc = pc]
  <2>1. /\ r \in ThreadStates /\ r.pc = pc
        /\ r.msg = th[t].msg /\ r.ret = th[t].ret /\ r.ok = th[t].ok
    BY DEF ChannelTypes, ThreadStates
  <2>2. th' = [th EXCEPT ![t] = r]
    BY <1>2 DEF Goto
  <2> HIDE DEF r
  <2> QED
    BY <2>1, <2>2, ReplaceEffect
<1> QED
  BY <1>1, <1>2

\* Send puts one thread at the gate.
LEMMA SendEffect ==
    ASSUME ChannelTypes, NEW t \in Threads, NEW k \in Calls, NEW ret \in Places,
           Send(t, k, ret)
    PROVE  /\ th' \in [Threads -> ThreadStates]
           /\ th'[t].pc = "gate" /\ th'[t].msg = k /\ th'[t].ret = ret
           /\ \A u \in Threads \ {t} : th'[u] = th[u]
<1> DEFINE r == [pc |-> "gate", msg |-> k, ret |-> ret, ok |-> TRUE]
<1>1. r \in ThreadStates /\ r.pc = "gate" /\ r.msg = k /\ r.ret = ret
  BY DEF ThreadStates, Places, SendStages
<1>2. th' = [th EXCEPT ![t] = r]
  BY DEF Send
<1> HIDE DEF r
<1> QED
  BY <1>1, <1>2, ReplaceEffect

\* Return takes one thread back to its caller, with the result.
LEMMA ReturnEffect ==
    ASSUME ChannelTypes, NEW t \in Threads, NEW ok \in BOOLEAN, Return(t, ok)
    PROVE  /\ th' \in [Threads -> ThreadStates]
           /\ th'[t].pc = th[t].ret
           /\ th[t].ret # "idle" => th'[t].ok = ok
           /\ \A u \in Threads \ {t} : th'[u] = th[u]
<1>1. th[t].ret \in Places
  BY DEF ChannelTypes, ThreadStates
<1> DEFINE r == IF th[t].ret = "idle" THEN Idle
                ELSE [Idle EXCEPT !.pc = th[t].ret, !.ok = ok]
<1>2. CASE th[t].ret = "idle"
  <2>1. r \in ThreadStates /\ r.pc = th[t].ret
    BY <1>2, IdleThread
  <2>2. th' = [th EXCEPT ![t] = r]
    BY DEF Return
  <2> HIDE DEF r
  <2> QED
    BY <1>2, <2>1, <2>2, ReplaceEffect
<1>3. CASE th[t].ret # "idle"
  <2>1. r \in ThreadStates /\ r.pc = th[t].ret /\ r.ok = ok
    BY <1>1, <1>3, IdleThread
  <2>2. th' = [th EXCEPT ![t] = r]
    BY DEF Return
  <2> HIDE DEF r
  <2> QED
    BY <2>1, <2>2, ReplaceEffect
<1> QED
  BY <1>2, <1>3

\* CleanUp ends one thread, and may start the cleanup.
LEMMA CleanUpEffect ==
    ASSUME ChannelTypes, NEW t \in Threads \ {"cleanup"}, CleanUp(t)
    PROVE  /\ th' \in [Threads -> ThreadStates]
           /\ th'[t].pc = "idle"
           /\ \A u \in Threads \ {t, "cleanup"} : th'[u] = th[u]
<1> DEFINE p == IF th["cleanup"].pc = "idle" THEN "stop" ELSE th["cleanup"].pc
           r == [th["cleanup"] EXCEPT !.pc = p]
<1>1. "cleanup" \in Threads
  BY DEF Threads
<1>2. p \in Places
  BY <1>1 DEF ChannelTypes, ThreadStates, Places
<1>3. r \in ThreadStates
  BY <1>1, <1>2 DEF ChannelTypes, ThreadStates
<1>4. th' = [[th EXCEPT ![t] = Idle] EXCEPT !["cleanup"] = r]
  BY <1>1 DEF CleanUp, ChannelTypes
<1> HIDE DEF r
<1> QED
  BY <1>1, <1>3, <1>4, IdleThread DEF ChannelTypes

-----------------------------------------------------------------------------
(* Moves that leave what the goroutines share alone keep the invariant       *)

\* What the invariant says of one thread, when another one has moved.
LEMMA OthersStay ==
    ASSUME IInv, UNCHANGED Shared, th' \in [Threads -> ThreadStates]
    PROVE  ChannelTypes' /\ OneVerdict'
  BY DEF IInv, ChannelTypes, OneVerdict, Shared

\* A thread is moved to a place outside SendMessageContext that neither ConfirmSent nor the
\* wait for the stream is.
LEMMA MoveKeeps ==
    ASSUME IInv, UNCHANGED Shared, NEW t \in Threads, th' \in [Threads -> ThreadStates],
           th'[t].pc \notin SendStages \cup {"confirmed", "await"},
           \A u \in Threads \ {t} : th'[u] = th[u],
           t = "stream" => th[t].pc # "idle",
           t = "dispatch" /\ th'[t].pc \in Bridging => th["stream"].pc = "idle"
    PROVE  IInv'
<1>1. ChannelTypes' /\ OneVerdict'
  BY OthersStay
<1>2. GateHolds'
  BY DEF IInv, GateHolds, Shared, PastGate, Threads
<1>3. ConfirmReturns'
  BY DEF IInv, ConfirmReturns, Shared, Threads, Senders
<1>4. OutputAlone'
  BY DEF IInv, OutputAlone, Draining, SendStages, Threads, Senders
<1>5. NoLostDrain'
  BY DEF IInv, NoLostDrain, At, Shared, SendStages, Threads
<1> QED
  BY <1>1, <1>2, <1>3, <1>4, <1>5 DEF IInv

\* So is one that goes there.
LEMMA GotoKeeps ==
    ASSUME IInv, UNCHANGED Shared, NEW t \in Threads,
           NEW pc \in Places \ (SendStages \cup {"confirmed", "await"}), Goto(t, pc),
           t = "stream" => th[t].pc # "idle",
           t = "dispatch" /\ pc \in Bridging => th["stream"].pc = "idle"
    PROVE  IInv'
  BY GotoEffect, MoveKeeps DEF IInv

\* A thread calls SendMessage.
LEMMA SendKeeps ==
    ASSUME IInv, UNCHANGED Shared, NEW t \in Senders, NEW k \in Kinds, NEW ret \in Returns,
           Send(t, k, ret),
           ret = "confirmed" => k = "confirm",
           k = "output" => t = "stream" \/ (t = "dispatch" /\ ret = "preSent"),
           t = "stream" => th[t].pc # "idle",
           t = "dispatch" /\ ret \in Bridging => th["stream"].pc = "idle"
    PROVE  IInv'
<1>1. /\ th' \in [Threads -> ThreadStates]
      /\ th'[t].pc = "gate" /\ th'[t].msg = k /\ th'[t].ret = ret
      /\ \A u \in Threads \ {t} : th'[u] = th[u]
  BY SendEffect DEF IInv, Threads, Calls, Places
<1>2. ChannelTypes' /\ OneVerdict'
  BY <1>1, OthersStay
<1>3. GateHolds'
  BY <1>1 DEF IInv, GateHolds, Shared, PastGate, Threads
<1>4. ConfirmReturns'
  BY <1>1 DEF IInv, ConfirmReturns, Shared, Threads, Senders
<1>5. OutputAlone'
  BY <1>1 DEF IInv, OutputAlone, Draining, Bridging, Threads, Senders
<1>6. NoLostDrain'
  BY <1>1 DEF IInv, NoLostDrain, At, Shared, Threads
<1> QED
  BY <1>2, <1>3, <1>4, <1>5, <1>6 DEF IInv

\* A send returns with an error.
LEMMA ReturnKeeps ==
    ASSUME IInv, UNCHANGED Shared, NEW t \in Senders, th[t].pc \in SendStages,
           Return(t, FALSE)
    PROVE  IInv'
<1>1. /\ th' \in [Threads -> ThreadStates]
      /\ th'[t].pc = th[t].ret
      /\ th[t].ret # "idle" => th'[t].ok = FALSE
      /\ \A u \in Threads \ {t} : th'[u] = th[u]
  BY ReturnEffect DEF IInv, Threads
<1>2. th[t].ret \in Returns
  BY DEF IInv, ConfirmReturns
<1>3. ChannelTypes' /\ OneVerdict'
  BY <1>1, OthersStay
<1>4. GateHolds'
  BY <1>1, <1>2 DEF IInv, GateHolds, Shared, PastGate, SendStages, Returns, Threads
<1>5. ConfirmReturns'
  BY <1>1, <1>2 DEF IInv, ConfirmReturns, Shared, SendStages, Returns, Threads, Senders
<1>6. OutputAlone'
  BY <1>1, <1>2 DEF IInv, OutputAlone, Draining, SendStages, Returns, Bridging, Threads,
                    Senders
<1>7. NoLostDrain'
  BY <1>1, <1>2 DEF IInv, NoLostDrain, At, Shared, Returns, Threads
<1> QED
  BY <1>3, <1>4, <1>5, <1>6, <1>7 DEF IInv

\* A step that moves no thread and touches nothing of the invariant.
LEMMA UnmovedKeeps == ASSUME IInv, UNCHANGED <<Shared, th>> PROVE IInv'
  BY DEF IInv, ChannelTypes, OneVerdict, GateHolds, ConfirmReturns, OutputAlone, NoLostDrain,
         At, Shared

-----------------------------------------------------------------------------
(* SendMessageContext                                                       *)

\* A thread goes on inside SendMessageContext: past the gate only with the right to, into
\* the stages of output only with output, and to the wait only on a buffer that is not
\* drained.
LEMMA AdvanceKeeps ==
    ASSUME IInv, UNCHANGED <<auth, verdicts, heard, buffered, low, closed>>,
           NEW t \in Senders, th[t].pc \in SendStages, NEW pc \in PastGate, Goto(t, pc),
           sendReady' \in BOOLEAN,
           sendReady' = sendReady \/ th[t].pc \in Draining,
           th[t].msg \in Handshake \/ auth.confirmed,
           pc \in Draining => th[t].msg = "output",
           pc = "wait" => buffered > LowThreshold
    PROVE  IInv'
<1>1. /\ th' \in [Threads -> ThreadStates]
      /\ th'[t].pc = pc
      /\ th'[t].msg = th[t].msg /\ th'[t].ret = th[t].ret
      /\ \A u \in Threads \ {t} : th'[u] = th[u]
  BY GotoEffect DEF IInv, Threads, Places, PastGate, SendStages
<1>2. ChannelTypes' /\ OneVerdict'
  BY <1>1 DEF IInv, ChannelTypes, OneVerdict
<1>3. GateHolds'
  BY <1>1 DEF IInv, GateHolds, Threads
<1>4. ConfirmReturns'
  BY <1>1 DEF IInv, ConfirmReturns, PastGate, SendStages, Threads, Senders
<1>5. OutputAlone'
  BY <1>1 DEF IInv, OutputAlone, PastGate, SendStages, Bridging, Threads, Senders
<1>6. NoLostDrain'
  <2> SUFFICES ASSUME NEW u \in Senders, th'[u].pc = "wait", buffered <= LowThreshold, ~closed
               PROVE  sendReady' \/ low
    BY DEF NoLostDrain, At
  <2>1. u # t /\ th[u].pc = "wait"
    BY <1>1, ChannelAssumption DEF IInv, ChannelTypes, Threads
  <2>2. sendReady \/ low
    BY <2>1 DEF IInv, NoLostDrain, At
  <2>3. th[t].pc \notin Draining
    BY <2>1 DEF IInv, OutputAlone, Draining, SendStages, Bridging, Senders
  <2> QED
    BY <2>2, <2>3
<1> QED
  BY <1>2, <1>3, <1>4, <1>5, <1>6 DEF IInv

\* The send is done: the message is in the channel, and a closed one takes none.
LEMMA PutKeeps == ASSUME IInv, NEW t \in Senders, Put(t) PROVE IInv'
<1>1. th[t].pc = "put" /\ th[t].ret \in Returns /\ th[t].msg \in Calls
  BY DEF Put, At, IInv, ConfirmReturns, SendStages, ChannelTypes, ThreadStates, Threads
<1>2. UNCHANGED <<auth, verdicts, low, sendReady, closed>>
  BY DEF Put, authVars, stopVars
<1>3. CASE closed
  <2>1. Return(t, FALSE) /\ UNCHANGED <<buffered, heard>>
    BY <1>3 DEF Put
  <2> QED
    BY <1>1, <1>2, <2>1, ReturnKeeps DEF Shared, SendStages
<1>4. CASE ~closed
  <2>1. Return(t, TRUE) /\ buffered' = buffered + 1 /\ heard' = heard \cup {th[t].msg}
    BY <1>4 DEF Put
  <2>2. /\ th' \in [Threads -> ThreadStates]
        /\ th'[t].pc = th[t].ret
        /\ \A u \in Threads \ {t} : th'[u] = th[u]
    BY <2>1, ReturnEffect DEF IInv, Threads
  <2>3. ChannelTypes' /\ OneVerdict'
    BY <1>2, <2>1, <2>2 DEF IInv, ChannelTypes, OneVerdict
  <2>4. GateHolds'
    BY <1>1, <1>2, <2>1, <2>2 DEF IInv, GateHolds, PastGate, SendStages, Returns, Threads
  <2>5. ConfirmReturns'
    BY <1>1, <1>2, <2>1, <2>2
       DEF IInv, ConfirmReturns, SendStages, Returns, Threads, Senders
  <2>6. OutputAlone'
    BY <1>1, <2>2 DEF IInv, OutputAlone, Draining, SendStages, Returns, Bridging, Threads,
                      Senders
  <2>7. NoLostDrain'
    BY <1>1, <1>2, <2>1, <2>2, ChannelAssumption
       DEF IInv, NoLostDrain, At, Returns, Threads, ChannelTypes
  <2> QED
    BY <2>3, <2>4, <2>5, <2>6, <2>7 DEF IInv
<1> QED
  BY <1>3, <1>4

\* Every step of SendMessageContext keeps the invariant, whoever runs it.
LEMMA SendStepKeeps ==
    ASSUME IInv, NEW t \in Senders, SendStep(t) \/ TimesOut(t)
    PROVE  IInv'
<1> USE DEF At, authVars, bufferVars, stopVars
<1>1. CASE Gate(t)
  <2>1. UNCHANGED Shared /\ th[t].pc = "gate"
    BY <1>1 DEF Gate, Shared
  <2>2. CASE closed \/ ~MaySend(th[t].msg)
    BY <1>1, <2>1, <2>2, ReturnKeeps DEF Gate, SendStages
  <2>3. CASE ~closed /\ MaySend(th[t].msg)
    <3>1. Goto(t, IF th[t].msg = "output" THEN "drain" ELSE "ceiling")
      BY <1>1, <2>3 DEF Gate
    <3>2. th[t].msg \in Handshake \/ auth.confirmed
      BY <2>3 DEF MaySend
    <3>3. CASE th[t].msg = "output"
      BY <2>1, <3>1, <3>2, <3>3, AdvanceKeeps
         DEF Shared, SendStages, PastGate, Draining, IInv, ChannelTypes
    <3>4. CASE th[t].msg # "output"
      BY <2>1, <3>1, <3>2, <3>4, AdvanceKeeps
         DEF Shared, SendStages, PastGate, Draining, IInv, ChannelTypes
    <3> QED
      BY <3>3, <3>4
  <2> QED
    BY <2>2, <2>3
<1>2. CASE Ceiling(t)
  <2>1. UNCHANGED Shared /\ th[t].pc = "ceiling"
    BY <1>2 DEF Ceiling, Shared
  <2>2. CASE buffered > MaxControl
    BY <1>2, <2>1, <2>2, ReturnKeeps DEF Ceiling, SendStages
  <2>3. CASE ~(buffered > MaxControl)
    BY <1>2, <2>1, <2>3, AdvanceKeeps
       DEF Ceiling, Shared, SendStages, PastGate, Draining, IInv, ChannelTypes, GateHolds
  <2> QED
    BY <2>2, <2>3
<1>3. CASE DrainSignal(t)
  BY <1>3, AdvanceKeeps DEF DrainSignal, SendStages, PastGate, Draining, IInv, GateHolds,
                            OutputAlone
<1>4. CASE CheckBuffer(t)
  <2>1. /\ UNCHANGED Shared /\ th[t].pc = "check" /\ th[t].msg = "output"
        /\ th[t].msg \in Handshake \/ auth.confirmed
    BY <1>4 DEF CheckBuffer, Shared, IInv, OutputAlone, Draining, GateHolds, PastGate,
                SendStages
  <2>2. CASE buffered <= MaxBuffered
    BY <1>4, <2>1, <2>2, AdvanceKeeps
       DEF CheckBuffer, Shared, SendStages, PastGate, Draining, IInv, ChannelTypes
  <2>3. CASE ~(buffered <= MaxBuffered)
    <3>1. buffered > LowThreshold
      BY <2>3, ChannelAssumption DEF IInv, ChannelTypes
    <3> QED
      BY <1>4, <2>1, <2>3, <3>1, AdvanceKeeps
         DEF CheckBuffer, Shared, SendStages, PastGate, Draining, IInv, ChannelTypes
  <2> QED
    BY <2>2, <2>3
<1>5. CASE Woken(t)
  BY <1>5, AdvanceKeeps DEF Woken, SendStages, PastGate, Draining, IInv, GateHolds
<1>6. CASE Released(t)
  BY <1>6, ReturnKeeps DEF Released, Shared, SendStages
<1>7. CASE TimesOut(t)
  BY <1>7, ReturnKeeps DEF TimesOut, Shared, SendStages
<1>8. CASE Put(t)
  BY <1>8, PutKeeps
<1> QED
  BY <1>1, <1>2, <1>3, <1>4, <1>5, <1>6, <1>7, <1>8 DEF SendStep

\* The network takes a message: at the threshold pion is to call back, below it it has.
LEMMA DrainKeeps == ASSUME IInv, Drain \/ OnBufferedAmountLow PROVE IInv'
<1> USE DEF authVars, stopVars
<1>1. UNCHANGED <<auth, verdicts, heard, closed, th>>
  BY DEF Drain, OnBufferedAmountLow
<1>2. buffered' \in Nat /\ low' \in BOOLEAN /\ sendReady' \in BOOLEAN
  <2>1. buffered' \in Nat
    BY DEF Drain, OnBufferedAmountLow, IInv, ChannelTypes
  <2>2. low' \in BOOLEAN /\ sendReady' \in BOOLEAN
    BY Zenon DEF Drain, OnBufferedAmountLow, IInv, ChannelTypes
  <2> QED
    BY <2>1, <2>2
<1>3. NoLostDrain'
  <2>1. CASE OnBufferedAmountLow
    BY <2>1 DEF OnBufferedAmountLow, NoLostDrain
  <2>2. CASE Drain
    <3>1. buffered' = LowThreshold => low'
      BY <2>2 DEF Drain
    <3>2. buffered' <= LowThreshold => buffered' = LowThreshold \/ buffered <= LowThreshold
      BY <2>2, ChannelAssumption DEF Drain, IInv, ChannelTypes
    <3>3. ~low /\ sendReady' = sendReady
      BY <2>2 DEF Drain
    <3> QED
      BY <1>1, <3>1, <3>2, <3>3 DEF IInv, NoLostDrain, At
  <2> QED
    BY <2>1, <2>2
<1> QED
  BY <1>1, <1>2, <1>3 DEF IInv, ChannelTypes, OneVerdict, GateHolds, ConfirmReturns,
                          OutputAlone

-----------------------------------------------------------------------------
(* The handshake                                                            *)

\* Every name a thread is sent to.
LEMMA PlaceNames ==
    /\ {"idle", "fail", "commit", "detached", "bridge", "start", "reset", "leave", "read",
        "stop", "lock", "detach", "done", "close"}
          \subseteq Places \ (SendStages \cup {"confirmed", "await"})
    /\ Threads = {"open", "dispatch", "stream", "other", "timer", "cleanup"}
  BY DEF Places, SendStages, Returns, Bridging, Threads, Senders

\* OnOpen and the timer up to the verdict.
LEMMA OpenKeeps ==
    ASSUME IInv, SendAuthChallenge \/ NonceFails \/ ChallengeSent \/ TimerFires
    PROVE  IInv'
<1> USE DEF authVars, bufferVars, stopVars, Shared
<1>1. CASE SendAuthChallenge
  BY <1>1, SendKeeps DEF SendAuthChallenge, Senders, Kinds, Handshake, Returns
<1>2. CASE NonceFails
  BY <1>2, GotoKeeps, PlaceNames DEF NonceFails
<1>3. CASE ChallengeSent
  BY <1>3, GotoKeeps, PlaceNames DEF ChallengeSent
<1>4. CASE TimerFires
  BY <1>4, GotoKeeps, PlaceNames DEF TimerFires
<1> QED
  BY <1>1, <1>2, <1>3, <1>4

\* failAuth: the first verdict, or none.
LEMMA FailAuthKeeps ==
    ASSUME IInv, NEW t \in {"open", "dispatch", "timer"}, FailAuth(t)
    PROVE  IInv'
<1> USE DEF authVars, bufferVars, stopVars
<1>1. CASE auth.resolved
  BY <1>1, GotoKeeps, PlaceNames DEF FailAuth, Shared, Bridging
<1>2. CASE ~auth.resolved
  <2>1. /\ auth' = [auth EXCEPT !.resolved = TRUE]
        /\ verdicts' = verdicts \cup {"failed"}
        /\ CleanUp(t)
        /\ UNCHANGED <<heard, buffered, low, sendReady, closed>>
    BY <1>2 DEF FailAuth
  <2>2. /\ auth' \in [resolved : BOOLEAN, authenticated : BOOLEAN, confirmed : BOOLEAN]
        /\ auth'.resolved /\ auth'.confirmed = auth.confirmed
    BY <2>1 DEF IInv, ChannelTypes
  <2>3. /\ th' \in [Threads -> ThreadStates]
        /\ th'[t].pc = "idle"
        /\ \A u \in Threads \ {t, "cleanup"} : th'[u] = th[u]
    BY <2>1, CleanUpEffect DEF IInv, Threads, Senders
  <2>4. ChannelTypes'
    BY <2>1, <2>2, <2>3 DEF IInv, ChannelTypes
  <2>5. OneVerdict'
    BY <1>2, <2>1, <2>2 DEF IInv, OneVerdict
  <2>6. GateHolds'
    BY <2>1, <2>2, <2>3 DEF IInv, GateHolds, PastGate, SendStages, Threads, Senders
  <2>7. ConfirmReturns'
    BY <2>1, <2>3 DEF IInv, ConfirmReturns, SendStages, Threads, Senders
  <2>8. OutputAlone'
    BY <2>3 DEF IInv, OutputAlone, Draining, SendStages, Bridging, Threads, Senders
  <2>9. NoLostDrain'
    BY <2>1, <2>3 DEF IInv, NoLostDrain, At, Threads, Senders
  <2> QED
    BY <2>4, <2>5, <2>6, <2>7, <2>8, <2>9 DEF IInv
<1> QED
  BY <1>1, <1>2

\* verifyAuthResponse: the answer is judged, and the other verdict or none follows.
LEMMA VerifyKeeps == ASSUME IInv, VerifyAuthResponse \/ Commit PROVE IInv'
<1> USE DEF authVars, bufferVars, stopVars
<1>1. CASE VerifyAuthResponse
  <2>1. UNCHANGED Shared /\ \E pc \in {"idle", "commit", "fail"} : Goto("dispatch", pc)
    BY <1>1 DEF VerifyAuthResponse, Shared
  <2>2. PICK pc \in {"idle", "commit", "fail"} : Goto("dispatch", pc)
    BY <2>1
  <2>3. pc \notin Bridging
    BY DEF Bridging
  <2> QED
    BY <2>1, <2>2, <2>3, GotoKeeps, PlaceNames
<1>2. CASE Commit /\ auth.resolved
  BY <1>2, GotoKeeps, PlaceNames DEF Commit, Shared, Bridging
<1>3. CASE Commit /\ ~auth.resolved
  <2>1. /\ auth' = [auth EXCEPT !.resolved = TRUE, !.authenticated = TRUE]
        /\ verdicts' = verdicts \cup {"passed"}
        /\ Send("dispatch", "confirm", "confirmed")
        /\ UNCHANGED <<heard, buffered, low, sendReady, closed>>
    BY <1>3 DEF Commit
  <2>2. /\ auth' \in [resolved : BOOLEAN, authenticated : BOOLEAN, confirmed : BOOLEAN]
        /\ auth'.resolved /\ auth'.confirmed = auth.confirmed
    BY <2>1 DEF IInv, ChannelTypes
  <2>3. /\ th' \in [Threads -> ThreadStates]
        /\ th'["dispatch"].pc = "gate" /\ th'["dispatch"].msg = "confirm"
        /\ th'["dispatch"].ret = "confirmed"
        /\ \A u \in Threads \ {"dispatch"} : th'[u] = th[u]
    BY <2>1, SendEffect, PlaceNames DEF IInv, Calls, Kinds, Handshake, Places, Returns
  <2>4. ChannelTypes'
    BY <2>1, <2>2, <2>3 DEF IInv, ChannelTypes
  <2>5. OneVerdict'
    BY <1>3, <2>1, <2>2 DEF IInv, OneVerdict
  <2>6. GateHolds'
    BY <2>1, <2>2, <2>3 DEF IInv, GateHolds, PastGate, Threads, Senders
  <2>7. ConfirmReturns'
    BY <2>1, <2>3 DEF IInv, ConfirmReturns, Returns, Threads, Senders
  <2>8. OutputAlone'
    BY <2>3 DEF IInv, OutputAlone, Draining, Bridging, Threads, Senders
  <2>9. NoLostDrain'
    BY <2>1, <2>3 DEF IInv, NoLostDrain, At, Threads, Senders
  <2> QED
    BY <2>4, <2>5, <2>6, <2>7, <2>8, <2>9 DEF IInv
<1> QED
  BY <1>1, <1>2, <1>3

\* The gate opens after auth_confirm was sent; a failed send takes the peer down.
LEMMA ConfirmSentKeeps == ASSUME IInv, ConfirmSent PROVE IInv'
<1> USE DEF bufferVars, stopVars
<1>1. /\ UNCHANGED <<verdicts, heard, buffered, low, sendReady, closed>>
      /\ th["dispatch"].pc = "confirmed"
  BY DEF ConfirmSent, At
<1>2. /\ auth' \in [resolved : BOOLEAN, authenticated : BOOLEAN, confirmed : BOOLEAN]
      /\ auth'.resolved = auth.resolved
      /\ auth.confirmed => auth'.confirmed
      /\ auth'.confirmed => auth.confirmed \/ th["dispatch"].ok
  BY DEF ConfirmSent, IInv, ChannelTypes
<1>3. /\ th' \in [Threads -> ThreadStates]
      /\ th'["dispatch"].pc = "idle"
      /\ \A u \in Threads \ {"dispatch", "cleanup"} : th'[u] = th[u]
  BY GotoEffect, CleanUpEffect, PlaceNames DEF ConfirmSent, IInv
<1>4. ChannelTypes' /\ OneVerdict'
  BY <1>1, <1>2, <1>3 DEF IInv, ChannelTypes, OneVerdict
<1>5. GateHolds'
  BY <1>1, <1>2, <1>3 DEF IInv, GateHolds, ConfirmReturns, PastGate, SendStages, Threads,
                          Senders
<1>6. ConfirmReturns'
  BY <1>1, <1>3 DEF IInv, ConfirmReturns, SendStages, Threads, Senders
<1>7. OutputAlone'
  BY <1>3 DEF IInv, OutputAlone, Draining, SendStages, Bridging, Threads, Senders
<1>8. NoLostDrain'
  BY <1>1, <1>3 DEF IInv, NoLostDrain, At, Threads, Senders
<1> QED
  BY <1>4, <1>5, <1>6, <1>7, <1>8 DEF IInv

-----------------------------------------------------------------------------
(* Dispatch                                                                 *)

\* The next message of the mobile is taken, and nothing is being sent.
LEMMA DeliverKeeps == ASSUME IInv, NEW k \in Messages, Deliver(k) PROVE IInv'
<1> DEFINE r == IF dispatchStopped THEN Idle ELSE [Idle EXCEPT !.pc = Route(k), !.msg = k]
<1>1. UNCHANGED Shared
  BY DEF Deliver, Shared, authVars, bufferVars, stopVars
<1>2. Route(k) \in {"ping", "attach", "detach", "idle", "fail", "verify"}
  BY DEF Route, Messages, Requests
<1>3. /\ r \in ThreadStates
      /\ r.pc \in {"ping", "attach", "detach", "idle", "fail", "verify"}
  <2>1. Route(k) \in Places /\ k \in Calls
    BY <1>2 DEF Places, Returns, Calls
  <2>2. CASE dispatchStopped
    BY <2>2, IdleThread
  <2>3. CASE ~dispatchStopped
    BY <1>2, <2>1, <2>3, IdleThread DEF ThreadStates
  <2> QED
    BY <2>2, <2>3
<1>4. th' = [th EXCEPT !["dispatch"] = r]
  BY DEF Deliver
<1> HIDE DEF r
<1>5. /\ th' \in [Threads -> ThreadStates]
      /\ th'["dispatch"] = r
      /\ \A u \in Threads \ {"dispatch"} : th'[u] = th[u]
  BY <1>3, <1>4, ReplaceEffect, PlaceNames DEF IInv
<1> QED
  BY <1>1, <1>3, <1>5, MoveKeeps, PlaceNames DEF SendStages, Bridging

\* attach and detach cancel the attachment and wait for its stream.
LEMMA DetachKeeps == ASSUME IInv, HandleDetach PROVE IInv'
<1> DEFINE r(k) == [th["dispatch"] EXCEPT !.pc = "await",
                        !.ret = IF k = "attach" THEN "bridge" ELSE "detached"]
<1>1. UNCHANGED Shared
  BY DEF HandleDetach, Shared, authVars, bufferVars, stopVars
<1>2. PICK k \in {"attach", "detach"} : th' = [th EXCEPT !["dispatch"] = r(k)]
  BY PlaceNames DEF HandleDetach, IInv, ChannelTypes
<1>3. /\ r(k) \in ThreadStates
      /\ r(k).pc = "await" /\ r(k).ret \in {"bridge", "detached"}
  <2>1. {"await", "bridge", "detached"} \subseteq Places
    BY DEF Places, Bridging
  <2>2. th["dispatch"] \in ThreadStates
    BY PlaceNames DEF IInv, ChannelTypes
  <2> QED
    BY <2>1, <2>2 DEF ThreadStates
<1> HIDE DEF r
<1>4. /\ th' \in [Threads -> ThreadStates]
      /\ th'["dispatch"].pc = "await" /\ th'["dispatch"].ret \in {"bridge", "detached"}
      /\ \A u \in Threads \ {"dispatch"} : th'[u] = th[u]
  BY <1>2, <1>3, ReplaceEffect, PlaceNames DEF IInv
<1>5. ChannelTypes' /\ OneVerdict'
  BY <1>1, <1>4, OthersStay
<1>6. GateHolds'
  BY <1>1, <1>4 DEF IInv, GateHolds, Shared, PastGate, SendStages, Threads
<1>7. ConfirmReturns'
  BY <1>1, <1>4 DEF IInv, ConfirmReturns, Shared, SendStages, Threads, Senders
<1>8. OutputAlone'
  BY <1>4 DEF IInv, OutputAlone, Draining, SendStages, Bridging, Threads, Senders
<1>9. NoLostDrain'
  BY <1>1, <1>4 DEF IInv, NoLostDrain, At, Shared, Threads
<1> QED
  BY <1>5, <1>6, <1>7, <1>8, <1>9 DEF IInv

\* The stream begins when the dispatch has sent what comes before it.
LEMMA StartStreamKeeps == ASSUME IInv, StartStream PROVE IInv'
<1> DEFINE r == [Idle EXCEPT !.pc = "read"]
<1>1. UNCHANGED Shared
  BY DEF StartStream, Shared, authVars, bufferVars, stopVars
<1>2. r \in ThreadStates /\ r.pc = "read"
  BY IdleThread DEF ThreadStates, Places
<1>3. th' = [[th EXCEPT !["dispatch"] = Idle] EXCEPT !["stream"] = r]
  BY PlaceNames DEF StartStream, IInv, ChannelTypes
<1> HIDE DEF r
<1>4. /\ th' \in [Threads -> ThreadStates]
      /\ th'["dispatch"].pc = "idle" /\ th'["stream"].pc = "read"
      /\ \A u \in Threads \ {"dispatch", "stream"} : th'[u] = th[u]
  BY <1>2, <1>3, IdleThread, PlaceNames DEF IInv, ChannelTypes
<1>5. ChannelTypes' /\ OneVerdict'
  BY <1>1, <1>4, OthersStay
<1>6. GateHolds'
  BY <1>1, <1>4 DEF IInv, GateHolds, Shared, PastGate, SendStages, Threads
<1>7. ConfirmReturns'
  BY <1>1, <1>4 DEF IInv, ConfirmReturns, Shared, SendStages, Threads, Senders
<1>8. OutputAlone'
  BY <1>4 DEF IInv, OutputAlone, Draining, SendStages, Bridging, Threads, Senders
<1>9. NoLostDrain'
  BY <1>1, <1>4 DEF IInv, NoLostDrain, At, Shared, Threads
<1> QED
  BY <1>5, <1>6, <1>7, <1>8, <1>9 DEF IInv

\* The other steps of the dispatch outside the handshake.
LEMMA DispatchKeeps ==
    ASSUME IInv,
           \/ HandlePing \/ ReplyDetached \/ OpenBridge \/ SendPreStream \/ PreStreamSent
           \/ AwaitStream("dispatch") \/ ListSessions("dispatch", "idle")
           \/ ResetStream("dispatch")
    PROVE  IInv'
<1> USE DEF At, authVars, bufferVars, stopVars
<1>1. UNCHANGED Shared
  BY DEF Shared, HandlePing, ReplyDetached, OpenBridge, SendPreStream, PreStreamSent,
         AwaitStream, ListSessions, ResetStream
<1>2. "dispatch" \in Senders /\ "event" \in Kinds /\ "output" \in Kinds
  BY DEF Senders, Kinds
<1>3. /\ {"idle", "list", "pre", "preSent"} \subseteq Returns
      /\ "idle" \notin Bridging /\ "list" \notin Bridging
  BY DEF Returns, Bridging
<1>4. th["dispatch"].pc \in Bridging => th["stream"].pc = "idle"
  BY DEF IInv, OutputAlone
<1>5. CASE HandlePing \/ ReplyDetached
  BY <1>1, <1>2, <1>3, <1>5, SendKeeps DEF HandlePing, ReplyDetached
<1>6. CASE OpenBridge
  <2>1. th["stream"].pc = "idle"
    BY <1>4, <1>6 DEF OpenBridge, Bridging
  <2>2. PICK ret \in {"idle", "list", "pre"} : Send("dispatch", "event", ret)
    BY <1>6 DEF OpenBridge
  <2> QED
    BY <1>1, <1>2, <1>3, <2>1, <2>2, SendKeeps
<1>7. CASE SendPreStream
  <2>1. th["stream"].pc = "idle"
    BY <1>4, <1>7 DEF SendPreStream, Bridging
  <2>2. CASE Send("dispatch", "output", "preSent")
    BY <1>1, <1>2, <1>3, <2>1, <2>2, SendKeeps
  <2>3. CASE \E pc \in {"start", "reset", "idle"} : Goto("dispatch", pc)
    BY <1>1, <2>1, <2>3, GotoKeeps, PlaceNames
  <2> QED
    BY <1>7, <2>2, <2>3 DEF SendPreStream
<1>8. CASE PreStreamSent
  <2>1. th["stream"].pc = "idle"
    BY <1>4, <1>8 DEF PreStreamSent, Bridging
  <2>2. PICK pc \in {"start", "reset", "idle"} : Goto("dispatch", pc)
    BY <1>8 DEF PreStreamSent
  <2> QED
    BY <1>1, <2>1, <2>2, GotoKeeps, PlaceNames
<1>9. CASE AwaitStream("dispatch")
  <2>1. th["dispatch"].ret \in {"bridge", "detached"} /\ th["stream"].pc = "idle"
    BY <1>9 DEF AwaitStream, IInv, ConfirmReturns
  <2>2. Goto("dispatch", th["dispatch"].ret)
    BY <1>9 DEF AwaitStream
  <2> QED
    BY <1>1, <2>1, <2>2, GotoKeeps, PlaceNames
<1>10. CASE ListSessions("dispatch", "idle")
  <2>1. CASE Goto("dispatch", "idle")
    BY <1>1, <1>3, <2>1, GotoKeeps, PlaceNames
  <2>2. CASE Send("dispatch", "event", "idle")
    BY <1>1, <1>2, <1>3, <2>2, SendKeeps
  <2> QED
    BY <1>10, <2>1, <2>2 DEF ListSessions
<1>11. CASE ResetStream("dispatch")
  <2>1. CASE Goto("dispatch", "idle")
    BY <1>1, <1>3, <2>1, GotoKeeps, PlaceNames
  <2>2. CASE Send("dispatch", "event", "idle")
    BY <1>1, <1>2, <1>3, <2>2, SendKeeps
  <2> QED
    BY <1>11, <2>1, <2>2 DEF ResetStream
<1> QED
  BY <1>5, <1>6, <1>7, <1>8, <1>9, <1>10, <1>11

-----------------------------------------------------------------------------
(* The stream, other goroutines and the end of the peer                     *)

\* The stream reads, sends and ends.
LEMMA StreamKeeps ==
    ASSUME IInv,
           \/ StreamSent \/ StreamStops \/ ListSessions("stream", "leave") \/ PaneExited
           \/ ResetStream("stream") \/ StreamFails \/ \E c \in Chunks : StreamReads(c)
    PROVE  IInv'
<1> USE DEF At, authVars, bufferVars, stopVars
<1>1. UNCHANGED Shared /\ th["stream"].pc # "idle"
  BY DEF Shared, StreamSent, StreamStops, ListSessions, PaneExited, ResetStream, StreamFails,
         StreamReads
<1>2. /\ "stream" \in Senders /\ {"event", "output"} \subseteq Kinds
      /\ {"idle", "sent", "list", "leave"} \subseteq Returns
  BY DEF Senders, Kinds, Returns
<1>3. \/ \E pc \in {"idle", "read", "reset", "leave"} : Goto("stream", pc)
      \/ \E k \in {"event", "output"}, ret \in {"idle", "sent", "list", "leave"} :
            Send("stream", k, ret)
      \/ UNCHANGED th
  BY DEF StreamSent, StreamStops, ListSessions, PaneExited, ResetStream, StreamFails,
         StreamReads
<1>4. CASE \E pc \in {"idle", "read", "reset", "leave"} : Goto("stream", pc)
  BY <1>1, <1>4, GotoKeeps, PlaceNames
<1>5. ASSUME NEW k \in {"event", "output"}, NEW ret \in {"idle", "sent", "list", "leave"},
             Send("stream", k, ret)
      PROVE  IInv'
  BY <1>1, <1>2, <1>5, SendKeeps
<1>6. CASE UNCHANGED th
  BY <1>1, <1>6, UnmovedKeeps
<1> QED
  BY <1>3, <1>4, <1>5, <1>6

\* The cleanup goroutine sends nothing: where it is, is nobody's concern.
LEMMA CleanupMoves ==
    ASSUME IInv, UNCHANGED <<auth, verdicts, heard, buffered, low, sendReady>>,
           closed' = closed \/ closed' = TRUE,
           th' \in [Threads -> ThreadStates],
           \A u \in Threads \ {"cleanup"} : th'[u] = th[u]
    PROVE  IInv'
<1>1. \A u \in Senders : th'[u] = th[u]
  BY DEF Threads, Senders
<1>2. ChannelTypes' /\ OneVerdict'
  BY DEF IInv, ChannelTypes, OneVerdict
<1>3. GateHolds' /\ ConfirmReturns' /\ OutputAlone'
  BY <1>1 DEF IInv, GateHolds, ConfirmReturns, OutputAlone, Senders
<1>4. NoLostDrain'
  BY <1>1 DEF IInv, NoLostDrain, At
<1> QED
  BY <1>2, <1>3, <1>4 DEF IInv

\* The teardown, and a Close without it.
LEMMA TeardownKeeps ==
    ASSUME IInv, \/ LosePeer \/ StopSends \/ StopDispatch \/ PeerDisconnected
                 \/ AwaitStream("cleanup") \/ Close
    PROVE  IInv'
<1> USE DEF At, authVars, bufferVars, stopVars
<1>1. /\ UNCHANGED <<auth, verdicts, heard, buffered, low, sendReady>>
      /\ closed' = closed \/ closed' = TRUE
  BY DEF LosePeer, StopSends, StopDispatch, PeerDisconnected, AwaitStream, Close
<1>2. CASE LosePeer \/ StopSends \/ StopDispatch \/ AwaitStream("cleanup")
           \/ (Close /\ Goto("cleanup", "done"))
  <2>1. th["cleanup"].ret \in Places /\ "cleanup" \in Threads
    BY PlaceNames DEF IInv, ChannelTypes, ThreadStates
  <2>2. PICK pc \in {"stop", "lock", "detach", "done", th["cleanup"].ret} : Goto("cleanup", pc)
    BY <1>2 DEF LosePeer, StopSends, StopDispatch, AwaitStream
  <2>3. pc \in Places
    BY <2>1, PlaceNames
  <2> QED
    BY <1>1, <2>1, <2>2, <2>3, GotoEffect, CleanupMoves DEF IInv
<1>3. CASE PeerDisconnected
  <2> DEFINE r == [th["cleanup"] EXCEPT !.pc = "await", !.ret = "close"]
  <2>1. th["cleanup"] \in ThreadStates /\ {"await", "close"} \subseteq Places
    BY PlaceNames DEF IInv, ChannelTypes, Places
  <2>2. r \in ThreadStates
    BY <2>1 DEF ThreadStates
  <2>3. th' = [th EXCEPT !["cleanup"] = r]
    BY <1>3, PlaceNames DEF PeerDisconnected, IInv, ChannelTypes
  <2> HIDE DEF r
  <2> QED
    BY <1>1, <2>2, <2>3, ReplaceEffect, CleanupMoves, PlaceNames DEF IInv
<1>4. CASE Close /\ UNCHANGED th
  BY <1>1, <1>4, CleanupMoves DEF IInv, ChannelTypes
<1> QED
  BY <1>2, <1>3, <1>4 DEF Close

\* Events from elsewhere and the shutdown.
LEMMA OthersKeep == ASSUME IInv, OtherSends \/ ShutDown PROVE IInv'
<1> USE DEF authVars, bufferVars, stopVars, Shared
<1>1. CASE OtherSends
  BY <1>1, SendKeeps DEF OtherSends, Senders, Kinds, Returns
<1>2. CASE ShutDown
  BY <1>2, UnmovedKeeps DEF ShutDown
<1> QED
  BY <1>1, <1>2

-----------------------------------------------------------------------------
(* The theorems                                                             *)

\* The invariant holds when the channel opens.
LEMMA InitKeeps == Init => IInv
<1> SUFFICES ASSUME Init PROVE IInv
  OBVIOUS
<1> DEFINE r == [Idle EXCEPT !.pc = "open"]
<1>1. r \in ThreadStates /\ r.pc = "open"
  BY IdleThread DEF ThreadStates, Places
<1>2. th = [t \in Threads |-> IF t = "open" THEN r ELSE Idle]
  BY DEF Init
<1> HIDE DEF r
<1>3. th \in [Threads -> ThreadStates] /\ \A t \in Threads : th[t].pc \in {"open", "idle"}
  BY <1>1, <1>2, IdleThread
<1>4. \A t \in Threads : th[t].pc \notin SendStages \cup Bridging \cup {"confirmed", "await"}
  BY <1>3 DEF SendStages, Bridging
<1>5. ChannelTypes
  BY <1>3 DEF Init, ChannelTypes
<1>6. OneVerdict
  BY DEF Init, OneVerdict
<1>7. GateHolds /\ ConfirmReturns
  BY <1>4, PlaceNames DEF Init, GateHolds, ConfirmReturns, PastGate, Threads
<1>8. OutputAlone /\ NoLostDrain
  BY <1>4, PlaceNames DEF OutputAlone, NoLostDrain, At, Draining, SendStages, Threads
<1> QED
  BY <1>5, <1>6, <1>7, <1>8 DEF IInv

\* Every step keeps the invariant.
LEMMA NextKeeps == IInv /\ [Next]_vars => IInv'
<1> SUFFICES ASSUME IInv, [Next]_vars PROVE IInv'
  OBVIOUS
<1>1. CASE UNCHANGED vars
  BY <1>1, UnmovedKeeps DEF vars, Shared
<1>2. CASE OpenStep \/ NonceFails \/ TimerStep
  BY <1>2, OpenKeeps, FailAuthKeeps, SendStepKeeps DEF OpenStep, TimerStep, Senders
<1>3. CASE DispatchStep
  <2>1. CASE VerifyAuthResponse \/ Commit \/ ConfirmSent \/ FailAuth("dispatch")
    BY <2>1, VerifyKeeps, ConfirmSentKeeps, FailAuthKeeps
  <2>2. CASE HandleDetach \/ StartStream \/ SendStep("dispatch")
    BY <2>2, DetachKeeps, StartStreamKeeps, SendStepKeeps DEF Senders
  <2>3. CASE \/ HandlePing \/ ReplyDetached \/ OpenBridge \/ SendPreStream \/ PreStreamSent
             \/ AwaitStream("dispatch") \/ ListSessions("dispatch", "idle")
             \/ ResetStream("dispatch")
    BY <2>3, DispatchKeeps
  <2> QED
    BY <1>3, <2>1, <2>2, <2>3 DEF DispatchStep
<1>4. CASE StreamStep \/ StreamFails \/ \E c \in Chunks : StreamReads(c)
  BY <1>4, StreamKeeps, SendStepKeeps DEF StreamStep, Senders
<1>5. CASE CleanupStep \/ LosePeer \/ Close
  BY <1>5, TeardownKeeps DEF CleanupStep
<1>6. CASE SendStep("other") \/ OtherSends \/ ShutDown \/ \E t \in Senders : TimesOut(t)
  BY <1>6, OthersKeep, SendStepKeeps DEF Senders
<1>7. CASE \E k \in Messages : Deliver(k)
  BY <1>7, DeliverKeeps
<1>8. CASE Drain \/ OnBufferedAmountLow
  BY <1>8, DrainKeeps
<1> QED
  BY <1>1, <1>2, <1>3, <1>4, <1>5, <1>6, <1>7, <1>8 DEF Next

\* The invariant holds in every reachable state of the channel.
THEOREM Invariance == Spec => []IInv
  BY InitKeeps, NextKeeps, PTL DEF Spec

\* The handshake ends one way: the timeout's verdict and that of a racing answer exclude
\* each other.
THEOREM HandshakeResolvedOnce == Spec => []ResolvedOnce
<1>1. IInv => ResolvedOnce
  <2> SUFFICES ASSUME IInv PROVE Cardinality(verdicts) <= 1
    BY DEF ResolvedOnce
  <2>1. Cardinality({}) = 0
    BY FS_EmptySet
  <2>2. Cardinality({"passed"}) = 1
    BY FS_Singleton
  <2>3. Cardinality({"failed"}) = 1
    BY FS_Singleton
  <2> QED
    BY <2>1, <2>2, <2>3 DEF IInv, OneVerdict
<1> QED
  BY <1>1, Invariance, PTL

\* An output send that waits on a drained buffer has a wake-up coming, because output has
\* one sender at a time; the property is part of the invariant.
THEOREM DrainNotLost == Spec => []NoLostDrain
<1>1. IInv => NoLostDrain
  BY DEF IInv
<1> QED
  BY <1>1, Invariance, PTL

\* Nothing but the handshake enters the channel before auth_confirm has.
THEOREM ConfirmComesFirst == Spec => ConfirmFirst
<1>1. ASSUME IInv, [Next]_vars
      PROVE  [heard' # heard => heard' \subseteq Handshake \/ "confirm" \in heard]_vars
  <2> SUFFICES ASSUME Next, heard' # heard
               PROVE  heard' \subseteq Handshake \/ "confirm" \in heard
    BY <1>1
  <2>1. PICK t \in Senders : Put(t)
    <3>1. CASE \E t \in Senders : SendStep(t)
      BY <3>1 DEF SendStep, Gate, Ceiling, DrainSignal, CheckBuffer, Woken, Released
    <3>2. CASE ~\E t \in Senders : SendStep(t)
      <4>1. {"open", "dispatch", "stream", "other"} \subseteq Senders
        BY DEF Senders
      <4>2. CASE OpenStep \/ TimerStep \/ CleanupStep \/ NonceFails
        BY <3>2, <4>1, <4>2 DEF OpenStep, TimerStep, CleanupStep, SendAuthChallenge, NonceFails,
             ChallengeSent, FailAuth, TimerFires, StopSends, StopDispatch, PeerDisconnected,
             AwaitStream, Close
      <4>3. CASE DispatchStep
        BY <3>2, <4>1, <4>3 DEF DispatchStep, VerifyAuthResponse, Commit, ConfirmSent, FailAuth,
             HandlePing, HandleDetach, AwaitStream, ReplyDetached, OpenBridge, SendPreStream,
             PreStreamSent, StartStream, ResetStream, ListSessions
      <4>4. CASE StreamStep \/ StreamFails \/ \E c \in Chunks : StreamReads(c)
        BY <3>2, <4>1, <4>4 DEF StreamStep, StreamSent, StreamStops, ListSessions, PaneExited,
             ResetStream, StreamFails, StreamReads
      <4>5. CASE OtherSends \/ (\E k \in Messages : Deliver(k)) \/ (\E t \in Senders : TimesOut(t))
        BY <4>5 DEF OtherSends, Deliver, TimesOut
      <4>6. CASE Drain \/ OnBufferedAmountLow \/ ShutDown \/ LosePeer \/ Close
        BY <4>6 DEF Drain, OnBufferedAmountLow, ShutDown, LosePeer, Close
      <4> QED
        BY <3>2, <4>1, <4>2, <4>3, <4>4, <4>5, <4>6 DEF Next
    <3> QED
      BY <3>1, <3>2
  <2>2. heard' = heard \cup {th[t].msg} /\ th[t].pc = "put"
    BY <2>1 DEF Put, At
  <2>3. th[t].msg \in Handshake \/ auth.confirmed
    BY <1>1, <2>2 DEF IInv, GateHolds, PastGate, SendStages
  <2> QED
    BY <1>1, <2>2, <2>3 DEF IInv, GateHolds
<1> QED
  BY <1>1, Invariance, PTL DEF Spec, ConfirmFirst

=============================================================================
