----------------------------- MODULE PeerChannel -----------------------------
(***************************************************************************)
(* One peer's DataChannel: the key-possession handshake and its timeout,   *)
(* the gate and the backpressure of SendMessageContext, the dispatch of    *)
(* requests and its stop (internal/webrtc/peer.go), and the output that    *)
(* the handler and its stream send (internal/agent/handler.go) through the *)
(* title filter.                                                           *)
(*                                                                         *)
(* Threads: OnOpen ("open"), the serial OnMessage calls ("dispatch"), the  *)
(* auth timer's callback ("timer"), the attachment's stream ("stream"), a  *)
(* goroutine of another attachment that sends an event to this device id   *)
(* ("other"), and the tracked cleanup ("cleanup").  SendMessageContext is  *)
(* a procedure the first, second, fourth and fifth run, one step for each  *)
(* lock, channel operation and call into pion; th[t].ret is where the      *)
(* thread goes on and th[t].ok what the send returned.  The buffer counts  *)
(* messages, so the byte limits of the code are limits on messages here.   *)
(***************************************************************************)
EXTENDS TitleFilter, FiniteSets

CONSTANTS
    LowThreshold,    \* bufferedAmountLowThreshold
    MaxBuffered,     \* maxBufferedAmount
    MaxControl,      \* maxControlBufferedAmount
    Worlds           \* bounds on the environment; a behaviour has one of them

\* The environment's moves a world bounds: messages of the mobile, events of the "other"
\* thread, send timeouts, other failures (compression, displacement, pane exit, lost
\* connection, shutdown, ...), and the bytes one stream reads.
Budgets == {"messages", "events", "timeouts", "faults", "length"}

ASSUME ChannelAssumption ==
    /\ LowThreshold \in Nat /\ MaxBuffered \in Nat /\ MaxControl \in Nat
    /\ LowThreshold < MaxBuffered /\ MaxBuffered < MaxControl
    /\ \A w \in Worlds : /\ w.pane \in [start : Seq(Bytes), bytes : SUBSET Bytes]
                        /\ w.left \in [Budgets -> Nat]

Senders == {"open", "dispatch", "stream", "other"}

Threads == Senders \cup {"timer", "cleanup"}

\* isAuthHandshakeMessage.  "event" is every other control message.
Handshake == {"challenge", "confirm"}

Kinds == Handshake \cup {"event", "output"}

\* What the mobile sends: bytes that do not decode, the right auth_response, requests.
Requests == {"ping", "attach", "detach"}

Messages == Requests \cup {"garbage", "response"}

VARIABLES
    auth,        \* authResolved, authenticated and authConfirmed
    armed,       \* authTimer runs
    verdicts,    \* how the handshake was resolved
    buffered,    \* messages in the DataChannel's buffer
    low,         \* pion is about to call OnBufferedAmountLow
    sendReady,   \* the signal in the channel of capacity one
    sendStop,    \* the sendStop channel is closed
    dispatchStopped,
    closed,      \* Peer.Close has run: closed, done and the DataChannel
    ctx,         \* context of the attachment
    down,        \* the agent's own context is cancelled
    th,          \* the threads
    filter,      \* the stream's title filter
    chunk,       \* what the stream read since it last sent, and what the filter made of it
    read,        \* what the stream has read and dealt with
    wire,        \* the output of this stream in the DataChannel
    heard,       \* the kinds of message the DataChannel was given
    pane,        \* the world's pane: how its output starts, the bytes it goes on with
    left         \* what is left of the world's bounds

vars == <<auth, armed, verdicts, buffered, low, sendReady, sendStop, dispatchStopped, closed,
          ctx, down, th, filter, chunk, read, wire, heard, pane, left>>

authVars == <<auth, armed, verdicts>>
bufferVars == <<buffered, low, sendReady>>
stopVars == <<sendStop, dispatchStopped, closed>>
ctxVars == <<ctx, down>>
streamVars == <<filter, chunk, read, wire>>
worldVars == <<pane, left>>

-----------------------------------------------------------------------------
Idle == [pc |-> "idle", msg |-> "none", ret |-> "idle", ok |-> TRUE]

NoChunk == [in |-> <<>>, out |-> <<>>]

At(t, pc) == th[t].pc = pc

Goto(t, pc) == th' = [th EXCEPT ![t] = IF pc = "idle" THEN Idle ELSE [@ EXCEPT !.pc = pc]]

\* t calls SendMessage(k) and goes on at ret.
Send(t, k, ret) == th' = [th EXCEPT ![t] = [pc |-> "gate", msg |-> k, ret |-> ret, ok |-> TRUE]]

Return(t, ok) ==
    LET ret == th[t].ret
    IN  th' = [th EXCEPT ![t] = IF ret = "idle" THEN Idle ELSE [Idle EXCEPT !.pc = ret, !.ok = ok]]

\* t is done and leaves the teardown to scheduleCleanup, which starts it once.
CleanUp(t) ==
    th' = [th EXCEPT ![t] = Idle, !["cleanup"].pc = IF @ = "idle" THEN "stop" ELSE @]

Use(b) ==
    /\ left[b] > 0
    /\ left' = [left EXCEPT ![b] = @ - 1]
    /\ UNCHANGED pane

Cancelled(c) == IF c = "live" THEN "cancelled" ELSE c

Init ==
    /\ \E w \in Worlds : pane = w.pane /\ left = w.left
    /\ auth = [resolved |-> FALSE, authenticated |-> FALSE, confirmed |-> FALSE]
    /\ armed = FALSE
    /\ verdicts = {}
    /\ buffered = 0 /\ low = FALSE /\ sendReady = FALSE
    /\ sendStop = FALSE /\ dispatchStopped = FALSE /\ closed = FALSE
    /\ ctx = "none" /\ down = FALSE
    /\ th = [t \in Threads |-> IF t = "open" THEN [Idle EXCEPT !.pc = "open"] ELSE Idle]
    /\ filter = NewTitleFilter /\ chunk = NoChunk /\ read = <<>> /\ wire = <<>>
    /\ heard = {}

-----------------------------------------------------------------------------
(* SendMessageContext                                                      *)

\* Mutant: the gate opens when the mobile has proved its key.
MaySendOnceAuthenticated(k) == auth.authenticated \/ k \in Handshake

\* Before auth_confirm has gone out only the handshake may.
MaySend(k) == auth.confirmed \/ k \in Handshake

Gate(t) ==
    /\ At(t, "gate")
    /\ IF closed \/ ~MaySend(th[t].msg) THEN Return(t, FALSE)
       ELSE Goto(t, IF th[t].msg = "output" THEN "drain" ELSE "ceiling")
    /\ UNCHANGED <<authVars, bufferVars, stopVars, ctxVars, streamVars, heard, worldVars>>

\* A control message does not wait; it is refused while the buffer is past its ceiling.
Ceiling(t) ==
    /\ At(t, "ceiling")
    /\ IF buffered > MaxControl THEN Return(t, FALSE) ELSE Goto(t, "put")
    /\ UNCHANGED <<authVars, bufferVars, stopVars, ctxVars, streamVars, heard, worldVars>>

\* waitForSendReady drops a signal of an earlier drain, ...
DrainSignal(t) ==
    /\ At(t, "drain")
    /\ sendReady' = FALSE
    /\ Goto(t, "check")
    /\ UNCHANGED <<authVars, buffered, low, stopVars, ctxVars, streamVars, heard, worldVars>>

\* Mutant: the stale signal is dropped (again) after the look at the buffer.
CheckThenDrain(t) ==
    \/ /\ At(t, "check")
       /\ IF buffered <= MaxBuffered THEN Goto(t, "put") ELSE Goto(t, "late")
       /\ UNCHANGED <<authVars, bufferVars, stopVars, ctxVars, streamVars, heard, worldVars>>
    \/ /\ At(t, "late")
       /\ sendReady' = FALSE
       /\ Goto(t, "wait")
       /\ UNCHANGED <<authVars, buffered, low, stopVars, ctxVars, streamVars, heard, worldVars>>

\* ... looks at the buffer, ...
CheckBuffer(t) ==
    /\ At(t, "check")
    /\ Goto(t, IF buffered <= MaxBuffered THEN "put" ELSE "wait")
    /\ UNCHANGED <<authVars, bufferVars, stopVars, ctxVars, streamVars, heard, worldVars>>

\* ... and waits for the next signal,
Woken(t) ==
    /\ At(t, "wait")
    /\ sendReady
    /\ sendReady' = FALSE
    /\ Goto(t, "put")
    /\ UNCHANGED <<authVars, buffered, low, stopVars, ctxVars, streamVars, heard, worldVars>>

\* the end of the peer, of its dispatch or of the attachment, ...
Released(t) ==
    /\ At(t, "wait")
    /\ closed \/ sendStop \/ ctx = "cancelled"
    /\ Return(t, FALSE)
    /\ UNCHANGED <<authVars, bufferVars, stopVars, ctxVars, streamVars, heard, worldVars>>

\* ... or for sendReadyTimeout.
TimesOut(t) ==
    /\ At(t, "wait")
    /\ Use("timeouts")
    /\ Return(t, FALSE)
    /\ UNCHANGED <<authVars, bufferVars, stopVars, ctxVars, streamVars, heard>>

\* dc.Send.
Put(t) ==
    /\ At(t, "put")
    /\ Return(t, ~closed)
    /\ IF closed THEN UNCHANGED <<buffered, heard, read, wire>>
       ELSE /\ buffered' = buffered + 1
            /\ heard' = heard \cup {th[t].msg}
            /\ IF t = "stream" /\ th[t].msg = "output"
               THEN /\ wire' = wire \o chunk.out
                    /\ read' = read \o chunk.in
               ELSE UNCHANGED <<read, wire>>
    /\ UNCHANGED <<authVars, low, sendReady, stopVars, ctxVars, filter, chunk, worldVars>>

SendStep(t) ==
    Gate(t) \/ Ceiling(t) \/ DrainSignal(t) \/ CheckBuffer(t) \/ Woken(t) \/ Released(t) \/ Put(t)

\* pion: the network takes a message out of the buffer ...
Drain ==
    /\ ~closed /\ ~low /\ buffered > 0
    /\ buffered' = buffered - 1
    /\ low' = (buffered' = LowThreshold)
    /\ UNCHANGED <<authVars, sendReady, stopVars, ctxVars, th, streamVars, heard, worldVars>>

\* ... and reports that it fell to the threshold.
OnBufferedAmountLow ==
    /\ low
    /\ low' = FALSE
    /\ sendReady' = TRUE
    /\ UNCHANGED <<authVars, buffered, stopVars, ctxVars, th, streamVars, heard, worldVars>>

-----------------------------------------------------------------------------
(* The handshake                                                           *)

\* OnOpen: sendAuthChallenge arms the timer and sends a fresh nonce, which stays set
\* until the handshake is resolved, ...
SendAuthChallenge ==
    /\ At("open", "open")
    /\ armed' = TRUE
    /\ Send("open", "challenge", "challenged")
    /\ UNCHANGED <<auth, verdicts, bufferVars, stopVars, ctxVars, streamVars, heard, worldVars>>

\* ... unless there is no randomness for it.
NonceFails ==
    /\ At("open", "open")
    /\ Use("faults")
    /\ Goto("open", "fail")
    /\ UNCHANGED <<authVars, bufferVars, stopVars, ctxVars, streamVars, heard>>

ChallengeSent ==
    /\ At("open", "challenged")
    /\ Goto("open", IF th["open"].ok THEN "idle" ELSE "fail")
    /\ UNCHANGED <<authVars, bufferVars, stopVars, ctxVars, streamVars, heard, worldVars>>

\* The timer's callback starts; Stop no longer reaches it.
TimerFires ==
    /\ armed
    /\ armed' = FALSE
    /\ Goto("timer", "fail")
    /\ UNCHANGED <<auth, verdicts, bufferVars, stopVars, ctxVars, streamVars, heard, worldVars>>

FailAuth(t) ==
    /\ At(t, "fail")
    /\ IF auth.resolved
       THEN /\ Goto(t, "idle")
            /\ UNCHANGED authVars
       ELSE /\ auth' = [auth EXCEPT !.resolved = TRUE]
            /\ armed' = FALSE
            /\ verdicts' = verdicts \cup {"failed"}
            /\ CleanUp(t)
    /\ UNCHANGED <<bufferVars, stopVars, ctxVars, streamVars, heard, worldVars>>

\* verifyAuthResponse up to the comparison of the MACs, or the transport's certificates
\* are not to be had.
VerifyAuthResponse ==
    /\ At("dispatch", "verify")
    /\ \/ /\ Goto("dispatch", IF auth.resolved THEN "idle"
                              ELSE IF th["dispatch"].msg = "response" THEN "commit" ELSE "fail")
          /\ UNCHANGED worldVars
       \/ /\ ~auth.resolved /\ th["dispatch"].msg = "response"
          /\ Use("faults")
          /\ Goto("dispatch", "fail")
    /\ UNCHANGED <<authVars, bufferVars, stopVars, ctxVars, streamVars, heard>>

\* Mutant: the outcome is committed without looking for the timeout's.
CommitAnyway ==
    /\ At("dispatch", "commit")
    /\ auth' = [auth EXCEPT !.resolved = TRUE, !.authenticated = TRUE]
    /\ armed' = FALSE
    /\ verdicts' = verdicts \cup {"passed"}
    /\ Send("dispatch", "confirm", "confirmed")
    /\ UNCHANGED <<bufferVars, stopVars, ctxVars, streamVars, heard, worldVars>>

\* Commit, unless the timeout came first, and prove the host's key in turn.
Commit ==
    /\ At("dispatch", "commit")
    /\ IF auth.resolved
       THEN /\ Goto("dispatch", "idle")
            /\ UNCHANGED authVars
       ELSE /\ auth' = [auth EXCEPT !.resolved = TRUE, !.authenticated = TRUE]
            /\ armed' = FALSE
            /\ verdicts' = verdicts \cup {"passed"}
            /\ Send("dispatch", "confirm", "confirmed")
    /\ UNCHANGED <<bufferVars, stopVars, ctxVars, streamVars, heard, worldVars>>

ConfirmSent ==
    /\ At("dispatch", "confirmed")
    /\ IF th["dispatch"].ok
       THEN /\ auth' = [auth EXCEPT !.confirmed = TRUE]
            /\ Goto("dispatch", "idle")
       ELSE /\ auth' = [auth EXCEPT !.authenticated = FALSE]
            /\ CleanUp("dispatch")
    /\ UNCHANGED <<armed, verdicts, bufferVars, stopVars, ctxVars, streamVars, heard, worldVars>>

-----------------------------------------------------------------------------
(* Dispatch                                                                *)

\* Where handleDataChannelMessage takes a message: after the handshake what is not a
\* request is dropped.
Route(k) ==
    IF auth.authenticated THEN (IF k \in Requests THEN k ELSE "idle")
    ELSE IF k = "garbage" THEN "fail" ELSE "verify"

\* A right answer to the challenge needs the challenge.  dispatchMu is held until the
\* thread is idle again.
Deliver(k) ==
    /\ At("dispatch", "idle") /\ ~closed
    /\ k = "response" => "challenge" \in heard
    /\ Use("messages")
    /\ th' = [th EXCEPT !["dispatch"] =
                 IF dispatchStopped THEN Idle ELSE [Idle EXCEPT !.pc = Route(k), !.msg = k]]
    /\ UNCHANGED <<authVars, bufferVars, stopVars, ctxVars, streamVars, heard>>

\* A request that is answered with one control message.
HandlePing ==
    /\ At("dispatch", "ping")
    /\ Send("dispatch", "event", "idle")
    /\ UNCHANGED <<authVars, bufferVars, stopVars, ctxVars, streamVars, heard, worldVars>>

\* attach and detach first end the attachment there is ...
HandleDetach ==
    /\ \E k \in {"attach", "detach"} :
         /\ At("dispatch", k)
         /\ th' = [th EXCEPT !["dispatch"].pc = "await",
                             !["dispatch"].ret = IF k = "attach" THEN "bridge" ELSE "detached"]
    /\ ctx' = Cancelled(ctx)
    /\ UNCHANGED <<authVars, bufferVars, stopVars, down, streamVars, heard, worldVars>>

\* ... and wait for its stream.
AwaitStream(t) ==
    /\ At(t, "await")
    /\ At("stream", "idle")
    /\ Goto(t, th[t].ret)
    /\ UNCHANGED <<authVars, bufferVars, stopVars, ctxVars, streamVars, heard, worldVars>>

ReplyDetached ==
    /\ At("dispatch", "detached")
    /\ Send("dispatch", "event", "idle")
    /\ UNCHANGED <<authVars, bufferVars, stopVars, ctxVars, streamVars, heard, worldVars>>

\* handleAttach from the bridge on: attach_failed, or pane_closed with the sessions, or
\* attached and the pre-stream output.
OpenBridge ==
    /\ At("dispatch", "bridge")
    /\ \/ /\ Use("faults")
          /\ \E ret \in {"idle", "list"} : Send("dispatch", "event", ret)
          /\ UNCHANGED ctx
       \/ /\ ctx' = IF down THEN "cancelled" ELSE "live"
          /\ Send("dispatch", "event", "pre")
          /\ UNCHANGED worldVars
    /\ UNCHANGED <<authVars, bufferVars, stopVars, down, streamVars, heard>>

\* There is no screen state to restore, or it is sent, or it does not compress
\* (a cancelled attachment is then left to whoever cancelled it).
SendPreStream ==
    /\ At("dispatch", "pre")
    /\ \/ Goto("dispatch", "start") /\ UNCHANGED worldVars
       \/ Send("dispatch", "output", "preSent") /\ UNCHANGED worldVars
       \/ Use("faults") /\ Goto("dispatch", IF ctx = "live" THEN "reset" ELSE "idle")
    /\ UNCHANGED <<authVars, bufferVars, stopVars, ctxVars, streamVars, heard>>

PreStreamSent ==
    /\ At("dispatch", "preSent")
    /\ Goto("dispatch", IF th["dispatch"].ok THEN "start"
                        ELSE IF ctx = "live" THEN "reset" ELSE "idle")
    /\ UNCHANGED <<authVars, bufferVars, stopVars, ctxVars, streamVars, heard, worldVars>>

\* go streamOutput, with a filter of its own.
StartStream ==
    /\ At("dispatch", "start")
    /\ th' = [th EXCEPT !["dispatch"] = Idle, !["stream"] = [Idle EXCEPT !.pc = "read"]]
    /\ filter' = NewTitleFilter
    /\ chunk' = NoChunk /\ read' = <<>> /\ wire' = <<>>
    /\ UNCHANGED <<authVars, bufferVars, stopVars, ctxVars, heard, worldVars>>

-----------------------------------------------------------------------------
(* The stream                                                              *)

\* A chunk is read and filtered, by a filter that remembers what the last chunk left open;
\* what it lets through is compressed and sent.
StreamReads(c) ==
    /\ At("stream", "read")
    /\ ctx = "live"
    /\ Len(read) + Len(chunk.in) + Len(c) <= left["length"]
    /\ LET f == Filter(filter, c)
       IN  /\ filter' = [f EXCEPT !.out = <<>>]
           /\ IF f.out = <<>>
              THEN /\ read' = read \o c
                   /\ UNCHANGED <<chunk, th, worldVars>>
              ELSE /\ chunk' = [in |-> chunk.in \o c, out |-> f.out]
                   /\ \/ Send("stream", "output", "sent") /\ UNCHANGED worldVars
                      \/ Use("faults") /\ Goto("stream", "reset")
                   /\ UNCHANGED read
    /\ UNCHANGED <<authVars, bufferVars, stopVars, ctxVars, wire, heard>>

StreamSent ==
    /\ At("stream", "sent")
    /\ Goto("stream", IF th["stream"].ok THEN "read"
                      ELSE IF ctx = "live" THEN "reset" ELSE "idle")
    /\ chunk' = IF th["stream"].ok THEN NoChunk ELSE chunk
    /\ UNCHANGED <<authVars, bufferVars, stopVars, ctxVars, filter, read, wire, heard, worldVars>>

\* The context, or a bridge closed under it, ends the stream.
StreamStops ==
    /\ At("stream", "read")
    /\ ctx = "cancelled"
    /\ Goto("stream", "idle")
    /\ UNCHANGED <<authVars, bufferVars, stopVars, ctxVars, streamVars, heard, worldVars>>

\* Read fails under a live context: the bridge was displaced, or the pane has exited.
StreamFails ==
    /\ At("stream", "read")
    /\ ctx = "live"
    /\ Use("faults")
    /\ Goto("stream", "reset") \/ Send("stream", "event", "list")
    /\ UNCHANGED <<authVars, bufferVars, stopVars, ctxVars, streamVars, heard>>

\* The sessions follow a pane_closed, if tmux lists them.
ListSessions(t, ret) ==
    /\ At(t, "list")
    /\ Goto(t, ret) \/ Send(t, "event", ret)
    /\ UNCHANGED <<authVars, bufferVars, stopVars, ctxVars, streamVars, heard, worldVars>>

\* handlePaneExit ends with the detach.
PaneExited ==
    /\ At("stream", "leave")
    /\ ctx' = Cancelled(ctx)
    /\ Goto("stream", "idle")
    /\ UNCHANGED <<authVars, bufferVars, stopVars, down, streamVars, heard, worldVars>>

\* resetStream: the notice is left to a detach that already waits for the stream.
ResetStream(t) ==
    /\ At(t, "reset")
    /\ ctx' = Cancelled(ctx)
    /\ IF At("dispatch", "await") \/ At("cleanup", "await")
       THEN Goto(t, "idle")
       ELSE Send(t, "event", "idle")
    /\ UNCHANGED <<authVars, bufferVars, stopVars, down, streamVars, heard, worldVars>>

-----------------------------------------------------------------------------
(* Events from elsewhere, and the end of the peer                          *)

\* A goroutine that knows only the device id sends an event.
OtherSends ==
    /\ At("other", "idle")
    /\ Use("events")
    /\ Send("other", "event", "idle")
    /\ UNCHANGED <<authVars, bufferVars, stopVars, ctxVars, streamVars, heard>>

\* The agent shuts down: every attachment's context ends with its own.
ShutDown ==
    /\ ~down
    /\ Use("faults")
    /\ down' = TRUE
    /\ ctx' = Cancelled(ctx)
    /\ UNCHANGED <<authVars, bufferVars, stopVars, th, streamVars, heard>>

\* The connection is lost, replaced or swept.
LosePeer ==
    /\ At("cleanup", "idle")
    /\ Use("faults")
    /\ Goto("cleanup", "stop")
    /\ UNCHANGED <<authVars, bufferVars, stopVars, ctxVars, streamVars, heard>>

\* Mutant: stopDispatch goes for the lock and leaves waiting sends to their timeout.
StopWaits ==
    /\ At("cleanup", "stop")
    /\ Goto("cleanup", "lock")
    /\ UNCHANGED <<authVars, bufferVars, stopVars, ctxVars, streamVars, heard, worldVars>>

\* stopDispatch releases the output that waits, ...
StopSends ==
    /\ At("cleanup", "stop")
    /\ sendStop' = TRUE
    /\ Goto("cleanup", "lock")
    /\ UNCHANGED <<authVars, bufferVars, dispatchStopped, closed, ctxVars, streamVars, heard,
                   worldVars>>

\* ... and takes dispatchMu once no message is being dispatched.
StopDispatch ==
    /\ At("cleanup", "lock")
    /\ At("dispatch", "idle")
    /\ dispatchStopped' = TRUE
    /\ Goto("cleanup", "detach")
    /\ UNCHANGED <<authVars, bufferVars, sendStop, closed, ctxVars, streamVars, heard, worldVars>>

\* OnPeerDisconnect: the handler ends the attachment.
PeerDisconnected ==
    /\ At("cleanup", "detach")
    /\ ctx' = Cancelled(ctx)
    /\ th' = [th EXCEPT !["cleanup"].pc = "await", !["cleanup"].ret = "close"]
    /\ UNCHANGED <<authVars, bufferVars, stopVars, down, streamVars, heard, worldVars>>

\* Close, after the cleanup or by whoever closes the peer without it.
Close ==
    /\ \/ At("cleanup", "close") /\ Goto("cleanup", "done") /\ UNCHANGED worldVars
       \/ ~closed /\ Use("faults") /\ UNCHANGED th
    /\ closed' = TRUE
    /\ armed' = FALSE
    /\ UNCHANGED <<auth, verdicts, bufferVars, sendStop, dispatchStopped, ctxVars, streamVars,
                   heard>>

-----------------------------------------------------------------------------
Chunks ==
    LET begun == SubSeq(pane.start, Len(read) + 1, Len(pane.start))
        room == left["length"] - Len(read) - Len(begun)
    IN  {SubSeq(begun, 1, n) : n \in 1 .. Len(begun)}
            \cup {begun \o c : c \in UNION {[1 .. n -> pane.bytes] : n \in 1 .. room}}

\* What a thread does by itself, without the network, a timeout or a failure.
OpenStep == SendAuthChallenge \/ ChallengeSent \/ FailAuth("open") \/ SendStep("open")

DispatchStep ==
    \/ VerifyAuthResponse \/ Commit \/ ConfirmSent \/ FailAuth("dispatch")
    \/ HandlePing \/ HandleDetach \/ AwaitStream("dispatch") \/ ReplyDetached
    \/ OpenBridge \/ SendPreStream \/ PreStreamSent \/ StartStream \/ ResetStream("dispatch")
    \/ ListSessions("dispatch", "idle") \/ SendStep("dispatch")

StreamStep ==
    \/ StreamSent \/ StreamStops \/ ListSessions("stream", "leave") \/ PaneExited
    \/ ResetStream("stream") \/ SendStep("stream")

TimerStep == TimerFires \/ FailAuth("timer")

CleanupStep ==
    \/ StopSends \/ StopDispatch \/ PeerDisconnected \/ AwaitStream("cleanup")
    \/ (At("cleanup", "close") /\ Close)

Next ==
    \/ OpenStep \/ DispatchStep \/ StreamStep \/ TimerStep \/ CleanupStep
    \/ SendStep("other") \/ OtherSends
    \/ NonceFails
    \/ \E k \in Messages : Deliver(k)
    \/ \E c \in Chunks : StreamReads(c)
    \/ StreamFails
    \/ \E t \in Senders : TimesOut(t)
    \/ Drain \/ OnBufferedAmountLow
    \/ ShutDown \/ LosePeer \/ Close

Spec == Init /\ [][Next]_vars

\* Goroutines that can run do, and an armed timer fires.  The network need not drain the
\* buffer, the mobile need not answer, and no send is sure to time out.
FairSpec ==
    /\ Spec
    /\ WF_vars(OpenStep) /\ WF_vars(DispatchStep) /\ WF_vars(StreamStep)
    /\ WF_vars(TimerStep) /\ WF_vars(CleanupStep)

-----------------------------------------------------------------------------
(* Properties                                                              *)

TypeOK ==
    /\ auth \in [resolved : BOOLEAN, authenticated : BOOLEAN, confirmed : BOOLEAN]
    /\ verdicts \subseteq {"passed", "failed"}
    /\ buffered \in Nat
    /\ ctx \in {"none", "live", "cancelled"}
    /\ heard \subseteq Kinds
    /\ wire \in Seq(Bytes) /\ read \in Seq(Bytes)

\* Nothing but the handshake enters the DataChannel before auth_confirm has: a goroutine
\* that sends by device id while the handshake runs cannot be the first the mobile hears
\* (SendMessageContext's gate on authConfirmed).
ConfirmFirst ==
    [][heard' # heard => heard' \subseteq Handshake \/ "confirm" \in heard]_vars

\* The handshake is resolved one way: a mobile that answers while the timeout's callback
\* runs is either let in or torn down for it, never both (verifyAuthResponse, failAuth).
ResolvedOnce == Cardinality(verdicts) <= 1

\* An output send that waits on a drained buffer has a wake-up coming; without one it
\* would sit out its timeout and end the stream (waitForSendReady, OnBufferedAmountLow).
NoLostDrain ==
    \A t \in Senders :
        At(t, "wait") /\ buffered <= LowThreshold /\ ~closed => sendReady \/ low

\* A cleanup reaches Close, also when output waits on a buffer that never drains
\* (stopDispatch closes sendStop before it takes dispatchMu).
TeardownEnds == At("cleanup", "stop") ~> closed

Promise == INSTANCE TitleStrip WITH in <- read, out <- wire

\* What a stream puts into the DataChannel is the pane's output without its titles, cut
\* anywhere, and never with a chunk missing (TitleFilter.Filter, streamOutput).
OutputIsStripped == Promise!Spec
=============================================================================
