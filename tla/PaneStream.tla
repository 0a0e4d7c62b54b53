----------------------------- MODULE PaneStream -----------------------------
(***************************************************************************)
(* A mobile's attachment to a tmux pane: the maps of the agent's Handler   *)
(* (internal/agent/handler.go), the goroutine that streams the pane's      *)
(* output, the goroutine that watches the pane, the PaneBridge and the     *)
(* pane's one tmux pipe (internal/tmux/pty.go), and the window size forced *)
(* on the pane (internal/tmux/resize.go).                                  *)
(*                                                                         *)
(* Four kinds of thread meet here: the dispatch of a peer's requests       *)
(* (<<"req", m>>), the manager's PeerDisconnected call (<<"bye", m>>), and *)
(* the stream and the watcher of every attachment.  detachPeerWait is one  *)
(* procedure that all of them run, one step per lock it takes or channel   *)
(* it waits on; th[t].ret is where the thread goes on afterwards.  A hold  *)
(* of h.mu, of a pane's lock or of the size tracker's lock is one step.    *)
(***************************************************************************)
EXTENDS Naturals, FiniteSets

CONSTANTS
    Peers,           \* peer (device) ids
    Panes,           \* tmux panes
    NoPane,
    MaxAttaches,     \* bound: bridges opened
    Worlds           \* bounds on the environment; a behaviour has one of them

ASSUME PaneAssumption == NoPane \notin Panes /\ Peers # {}

\* A world: the mobiles that connect, the panes tmux has at first, how many
\* PeerDisconnected calls, resize requests and pane exits there may be.
ASSUME AttachAssumption ==
    /\ MaxAttaches \in Nat
    /\ Worlds \subseteq [peers : SUBSET Peers, panes : SUBSET Panes, disconnects : Nat,
                         resizes : Nat, exits : Nat]

Attachments == 1 .. MaxAttaches

None == 0

Threads == ({"req", "bye"} \X Peers) \cup ({"stream", "watch"} \X Attachments)

\* detachPeerWait, step by step.
DetachStages == {"detach", "cancel", "close", "pipe", "wait", "release", "clear"}

VARIABLES
    alive,         \* panes tmux has
    born,          \* attachments made so far
    owner,         \* attachment -> peer
    pane,          \* attachment -> pane, NoPane before it is made
    bridge,        \* attachment -> state of its PaneBridge
    pipe,          \* pane -> attachment whose bridge tmux pipes the output to
    forced,        \* PaneSizeTracker.forced
    manual,        \* panes whose window tmux keeps at a size of the mobile's
    bridges,       \* peer -> attachment in Handler.bridges, cancels, paneForPeer
    streamDone,    \* peer -> attachment in Handler.streamDone
    exitNotified,  \* peers in Handler.exitNotified
    superseded,    \* Handler.superseded
    cancelled,     \* attachments whose context is cancelled
    ended,         \* attachments whose done channel is closed
    view,          \* peer -> the attachment the last reply it got leaves it with
    told,          \* attachments the mobile heard pane_closed or stream_reset of
    th,            \* the threads
    used           \* the world, and what has been used of its bounds

vars == <<alive, born, owner, pane, bridge, pipe, forced, manual, bridges,
          streamDone, exitNotified, superseded, cancelled, ended, view, told, th,
          used>>

bridgeVars == <<born, owner, pane, bridge, pipe>>
sizeVars == <<forced, manual>>
mobileVars == <<view, told>>
handlerVars == <<bridges, streamDone, exitNotified, superseded, cancelled, ended>>

-----------------------------------------------------------------------------
\* own: the attachment whose stream the thread stands for; want: the pane an
\* attach asked for; att, done, rel: what detachPeerWait captured.
Blank == [pc |-> "idle", own |-> None, want |-> NoPane, att |-> None,
          done |-> None, rel |-> NoPane, ret |-> "idle"]

At(t, pc) == th[t].pc = pc

Become(t, r) == th' = [th EXCEPT ![t] = r]

Goto(t, pc) == Become(t, [th[t] EXCEPT !.pc = pc])

CallDetach(t, ret) == Become(t, [th[t] EXCEPT !.pc = "detach", !.ret = ret])

Return(t) ==
    Become(t, [Blank EXCEPT !.pc = th[t].ret, !.own = th[t].own, !.want = th[t].want])

PeerOf(t) == IF t[1] \in {"req", "bye"} THEN t[2] ELSE owner[t[2]]

\* pane_closed reaches the mobile.
TellClosed(m, p) ==
    /\ told' = told \cup {s \in Attachments : s = view[m] /\ pane[s] = p}
    /\ UNCHANGED view

Init ==
    /\ \E w \in Worlds :
         /\ used = [world |-> w, disconnects |-> 0, resizes |-> 0]
         /\ alive = w.panes
    /\ born = 0
    /\ owner = [s \in Attachments |-> CHOOSE m \in Peers : TRUE]
    /\ pane = [s \in Attachments |-> NoPane]
    /\ bridge = [s \in Attachments |-> "none"]
    /\ pipe = [p \in Panes |-> None]
    /\ forced = {}
    /\ manual = {}
    /\ bridges = [m \in Peers |-> None]
    /\ streamDone = [m \in Peers |-> None]
    /\ exitNotified = {}
    /\ superseded = {}
    /\ cancelled = {}
    /\ ended = {}
    /\ view = [m \in Peers |-> None]
    /\ told = {}
    /\ th = [t \in Threads |-> Blank]

-----------------------------------------------------------------------------
(* detachPeerWait                                                          *)

\* Mutant: the stream's own detach waits for the stream to exit.
WaitsAlways(t) == TRUE

\* wait is false when the thread runs the stream, or stands for it.
Waits(t) == th[t].ret \notin {"notice", "end"}

\* Mutant: the entry of a stream that still runs is dropped with the bridge's.
DetachForgets(t) ==
    /\ At(t, "detach")
    /\ LET m == PeerOf(t)
           s == bridges[m]
           d == IF Waits(t) THEN streamDone[m] ELSE None
       IN  /\ superseded' = superseded \cup ({d} \ {None})
           /\ bridges' = [bridges EXCEPT ![m] = None]
           /\ streamDone' = [streamDone EXCEPT ![m] = None]
           /\ exitNotified' = IF s = None THEN exitNotified ELSE exitNotified \ {m}
           /\ Become(t, [th[t] EXCEPT !.pc = IF s = None THEN "wait" ELSE "cancel",
                                      !.att = s, !.done = d,
                                      !.rel = IF s = None THEN NoPane ELSE pane[s]])
    /\ UNCHANGED <<alive, bridgeVars, sizeVars, cancelled, ended, mobileVars, used>>

\* The hold of h.mu: take the bridge out, mark a stream to wait for superseded.
Detach(t) ==
    /\ At(t, "detach")
    /\ LET m == PeerOf(t)
           s == bridges[m]
           d == IF Waits(t) THEN streamDone[m] ELSE None
       IN  /\ superseded' = superseded \cup ({d} \ {None})
           /\ bridges' = [bridges EXCEPT ![m] = None]
           /\ exitNotified' = IF s = None THEN exitNotified ELSE exitNotified \ {m}
           /\ Become(t, [th[t] EXCEPT !.pc = IF s = None THEN "wait" ELSE "cancel",
                                      !.att = s, !.done = d,
                                      !.rel = IF s = None THEN NoPane ELSE pane[s]])
    /\ UNCHANGED <<alive, bridgeVars, sizeVars, streamDone, cancelled, ended, mobileVars, used>>

Cancel(t) ==
    /\ At(t, "cancel")
    /\ cancelled' = cancelled \cup {th[t].att}
    /\ Goto(t, "close")
    /\ UNCHANGED <<alive, bridgeVars, sizeVars, bridges, streamDone, exitNotified,
                   superseded, ended, mobileVars, used>>

\* PaneBridge.Close sets closed, ...
CloseBridge(t) ==
    /\ At(t, "close")
    /\ bridge' = [bridge EXCEPT ![th[t].att] = "closed"]
    /\ Goto(t, "pipe")
    /\ UNCHANGED <<alive, born, owner, pane, pipe, sizeVars, handlerVars, mobileVars, used>>

\* Mutant: the pane's pipe is turned off whoever owns it.
PipeAfterAnyClose(s) == None

\* ... and turns the pane's pipe off while it is still this bridge's.
PipeAfterClose(s) == IF pipe[pane[s]] = s THEN None ELSE pipe[pane[s]]

ReleasePipe(t) ==
    /\ At(t, "pipe")
    /\ pipe' = [pipe EXCEPT ![pane[th[t].att]] = PipeAfterClose(th[t].att)]
    /\ Goto(t, "wait")
    /\ UNCHANGED <<alive, born, owner, pane, bridge, sizeVars, handlerVars, mobileVars, used>>

\* Mutant: the stream is cancelled and not waited for.
AwaitNothing(t) ==
    /\ At(t, "wait")
    /\ Goto(t, "release")
    /\ UNCHANGED <<alive, bridgeVars, sizeVars, handlerVars, mobileVars, used>>

AwaitStream(t) ==
    /\ At(t, "wait")
    /\ th[t].done = None \/ th[t].done \in ended
    /\ Goto(t, "release")
    /\ UNCHANGED <<alive, bridgeVars, sizeVars, handlerVars, mobileVars, used>>

\* ReleaseIfForced takes the mark, ...
ReleaseIfForced(t) ==
    /\ At(t, "release")
    /\ forced' = forced \ {th[t].rel}
    /\ IF th[t].rel \in forced THEN Goto(t, "clear") ELSE Return(t)
    /\ UNCHANGED <<alive, bridgeVars, manual, handlerVars, mobileVars, used>>

\* ... and clears the window's override afterwards.
ClearOverride(t) ==
    /\ At(t, "clear")
    /\ manual' = manual \ {th[t].rel}
    /\ Return(t)
    /\ UNCHANGED <<alive, bridgeVars, forced, handlerVars, mobileVars, used>>

-----------------------------------------------------------------------------
(* Requests.  A refused attach, input, ping, kill_session and               *)
(* create_session change nothing that is kept here; a killed session is     *)
(* PaneExits.                                                               *)

Attach(m, p) ==
    /\ At(<<"req", m>>, "idle")
    /\ born < MaxAttaches
    /\ Become(<<"req", m>>, [Blank EXCEPT !.pc = "detach", !.ret = "track", !.want = p])
    /\ UNCHANGED <<alive, bridgeVars, sizeVars, handlerVars, mobileVars, used>>

\* TrackAndResize: resize the window, then mark the pane.
Resize(m) ==
    LET t == <<"req", m>>
    IN  /\ At(t, "track")
        /\ th[t].want \in alive
        /\ manual' = manual \cup {th[t].want}
        /\ Goto(t, "mark")
        /\ UNCHANGED <<alive, bridgeVars, forced, handlerVars, mobileVars, used>>

ResizeFails(m) ==
    /\ At(<<"req", m>>, "track")
    /\ Goto(<<"req", m>>, "attach")
    /\ UNCHANGED <<alive, bridgeVars, sizeVars, handlerVars, mobileVars, used>>

\* rel remembers sizeTracked.
MarkForced(m) ==
    LET t == <<"req", m>>
    IN  /\ At(t, "mark")
        /\ forced' = forced \cup {th[t].want}
        /\ Become(t, [th[t] EXCEPT !.pc = "attach", !.rel = th[t].want])
        /\ UNCHANGED <<alive, bridgeVars, manual, handlerVars, mobileVars, used>>

\* pipe-pane and the ownership record, under the pane's lock.
AttachPane(m) ==
    LET t == <<"req", m>>
        s == born + 1
        p == th[t].want
    IN  /\ At(t, "attach")
        /\ p \in alive
        /\ s \in Attachments
        /\ born' = s
        /\ owner' = [owner EXCEPT ![s] = m]
        /\ pane' = [pane EXCEPT ![s] = p]
        /\ bridge' = [bridge EXCEPT ![s] = "open"]
        /\ pipe' = [pipe EXCEPT ![p] = s]
        /\ Become(t, [th[t] EXCEPT !.pc = "displace", !.own = s, !.att = pipe[p],
                                   !.rel = NoPane])
        /\ UNCHANGED <<alive, sizeVars, handlerVars, mobileVars, used>>

\* The bridge whose pipe was replaced is told so, after the lock is released.
Displace(m) ==
    LET t == <<"req", m>>
        s == th[t].att
    IN  /\ At(t, "displace")
        /\ bridge' = IF s # None /\ bridge[s] = "open"
                     THEN [bridge EXCEPT ![s] = "displaced"] ELSE bridge
        /\ Become(t, [th[t] EXCEPT !.pc = "insert", !.att = None])
        /\ UNCHANGED <<alive, born, owner, pane, pipe, sizeVars, handlerVars, mobileVars, used>>

\* Mutant: a failed attach leaves the window as it was resized.
AttachFailsSized(m) ==
    /\ At(<<"req", m>>, "attach")
    /\ Goto(<<"req", m>>, "failed")
    /\ UNCHANGED <<alive, bridgeVars, sizeVars, handlerVars, mobileVars, used>>

\* AttachPane fails: undo the size when it was tracked, then reply.
AttachFails(m) ==
    LET t == <<"req", m>>
    IN  /\ At(t, "attach")
        /\ Become(t, [th[t] EXCEPT !.pc = "release", !.ret = "failed"])
        /\ UNCHANGED <<alive, bridgeVars, sizeVars, handlerVars, mobileVars, used>>

\* pane_closed or attach_failed.
AttachFailed(m) ==
    /\ At(<<"req", m>>, "failed")
    /\ view' = [view EXCEPT ![m] = None]
    /\ Become(<<"req", m>>, Blank)
    /\ UNCHANGED <<alive, bridgeVars, sizeVars, handlerVars, told, used>>

InsertBridge(m) ==
    LET t == <<"req", m>>
    IN  /\ At(t, "insert")
        /\ bridges' = [bridges EXCEPT ![m] = th[t].own]
        /\ streamDone' = [streamDone EXCEPT ![m] = th[t].own]
        /\ Goto(t, "attached")
        /\ UNCHANGED <<alive, bridgeVars, sizeVars, exitNotified, superseded, cancelled,
                       ended, mobileVars, used>>

SendAttached(m) ==
    LET t == <<"req", m>>
    IN  /\ At(t, "attached")
        /\ view' = [view EXCEPT ![m] = th[t].own]
        /\ Goto(t, "pre")
        /\ UNCHANGED <<alive, bridgeVars, sizeVars, handlerVars, told, used>>

\* The pre-stream send or its compression fails, or panics: failPreStream.
PreStreamFails(m) ==
    LET t == <<"req", m>>
    IN  /\ At(t, "pre")
        /\ IF th[t].own \in cancelled THEN Goto(t, "end") ELSE CallDetach(t, "notice")
        /\ UNCHANGED <<alive, bridgeVars, sizeVars, handlerVars, mobileVars, used>>

StartStream(m) ==
    LET t == <<"req", m>>
        s == th[t].own
    IN  /\ At(t, "pre")
        /\ th' = [th EXCEPT ![t] = Blank,
                            ![<<"stream", s>>] = [Blank EXCEPT !.pc = "check", !.own = s],
                            ![<<"watch", s>>] = [Blank EXCEPT !.pc = "watch", !.own = s]]
        /\ UNCHANGED <<alive, bridgeVars, sizeVars, handlerVars, mobileVars, used>>

DetachRequest(m) ==
    /\ At(<<"req", m>>, "idle")
    /\ CallDetach(<<"req", m>>, "detached")
    /\ UNCHANGED <<alive, bridgeVars, sizeVars, handlerVars, mobileVars, used>>

SendDetached(m) ==
    /\ At(<<"req", m>>, "detached")
    /\ view' = [view EXCEPT ![m] = None]
    /\ Become(<<"req", m>>, Blank)
    /\ UNCHANGED <<alive, bridgeVars, sizeVars, handlerVars, told, used>>

\* list_sessions finds that the attached pane is not in the tree.
ListFindsPaneGone(m) ==
    /\ At(<<"req", m>>, "idle")
    /\ bridges[m] # None
    /\ pane[bridges[m]] \notin alive
    /\ TellClosed(m, pane[bridges[m]])
    /\ CallDetach(<<"req", m>>, "idle")
    /\ UNCHANGED <<alive, bridgeVars, sizeVars, handlerVars, used>>

\* resize: the bridge is looked up and found open, ...
ResizeRequest(m) ==
    LET t == <<"req", m>>
    IN  /\ At(t, "idle")
        /\ used.resizes < used.world.resizes
        /\ bridges[m] # None
        /\ bridge[bridges[m]] # "closed"
        /\ Become(t, [Blank EXCEPT !.pc = "resize", !.att = bridges[m]])
        /\ used' = [used EXCEPT !.resizes = @ + 1]
        /\ UNCHANGED <<alive, bridgeVars, sizeVars, handlerVars, mobileVars>>

\* ... and then its pane is resized, with no lock held.
ResizePane(m) ==
    LET t == <<"req", m>>
    IN  /\ At(t, "resize")
        /\ manual' = IF pane[th[t].att] \in alive THEN manual \cup {pane[th[t].att]}
                     ELSE manual
        /\ Become(t, Blank)
        /\ UNCHANGED <<alive, bridgeVars, forced, handlerVars, mobileVars, used>>

\* Called once the peer's dispatch is stopped; a new connection of the same
\* device may send requests before it returns (replacementTeardownTimeout).
PeerDisconnected(m) ==
    /\ At(<<"bye", m>>, "idle")
    /\ At(<<"req", m>>, "idle")
    /\ used.disconnects < used.world.disconnects
    /\ CallDetach(<<"bye", m>>, "idle")
    /\ used' = [used EXCEPT !.disconnects = @ + 1]
    /\ UNCHANGED <<alive, bridgeVars, sizeVars, handlerVars, mobileVars>>

-----------------------------------------------------------------------------
(* streamOutput                                                            *)

CheckContext(s) ==
    LET t == <<"stream", s>>
    IN  /\ At(t, "check")
        /\ Goto(t, IF s \in cancelled THEN "end" ELSE "read")
        /\ UNCHANGED <<alive, bridgeVars, sizeVars, handlerVars, mobileVars, used>>

\* A chunk; the title filter may leave nothing of it.
ReadData(s) ==
    LET t == <<"stream", s>>
    IN  /\ At(t, "read")
        /\ bridge[s] # "closed"
        /\ \/ s \in cancelled /\ Goto(t, "end")
           \/ s \notin cancelled /\ \E next \in {"send", "check"} : Goto(t, next)
        /\ UNCHANGED <<alive, bridgeVars, sizeVars, handlerVars, mobileVars, used>>

\* Read returns io.EOF on a closed bridge, ErrBridgeDisplaced on a displaced one.
ReadFails(s) ==
    LET t == <<"stream", s>>
    IN  /\ At(t, "read")
        /\ bridge[s] \in {"closed", "displaced"}
        /\ IF s \in cancelled THEN Goto(t, "end")
           ELSE IF bridge[s] = "displaced" THEN CallDetach(t, "notice")
           ELSE Become(t, [th[t] EXCEPT !.pc = "exit", !.ret = "end"])
        /\ UNCHANGED <<alive, bridgeVars, sizeVars, handlerVars, mobileVars, used>>

SendOutput(s) ==
    /\ At(<<"stream", s>>, "send")
    /\ Goto(<<"stream", s>>, "check")
    /\ UNCHANGED <<alive, bridgeVars, sizeVars, handlerVars, mobileVars, used>>

\* The send or the compression fails.
SendFails(s) ==
    LET t == <<"stream", s>>
    IN  /\ At(t, "send")
        /\ IF s \in cancelled THEN Goto(t, "end") ELSE CallDetach(t, "notice")
        /\ UNCHANGED <<alive, bridgeVars, sizeVars, handlerVars, mobileVars, used>>

-----------------------------------------------------------------------------
(* resetStream and endStream, on the stream or on the attach before it.     *)

\* Mutant: the stream ends without a word.
NoticeNever(t) ==
    /\ At(t, "notice")
    /\ Goto(t, "end")
    /\ UNCHANGED <<alive, bridgeVars, sizeVars, handlerVars, mobileVars, used>>

\* Is a detach waiting for this stream?
Notice(t) ==
    /\ At(t, "notice")
    /\ Goto(t, IF th[t].own \in superseded THEN "end" ELSE "reset")
    /\ UNCHANGED <<alive, bridgeVars, sizeVars, handlerVars, mobileVars, used>>

SendReset(t) ==
    /\ At(t, "reset")
    /\ told' = told \cup {th[t].own}
    /\ Goto(t, "end")
    /\ UNCHANGED <<alive, bridgeVars, sizeVars, handlerVars, view, used>>

EndStream(t) ==
    LET s == th[t].own
        m == PeerOf(t)
    IN  /\ At(t, "end")
        /\ streamDone' = [streamDone EXCEPT ![m] = IF @ = s THEN None ELSE @]
        /\ superseded' = superseded \ {s}
        /\ ended' = ended \cup {s}
        /\ Become(t, [Blank EXCEPT !.pc = IF t[1] = "req" THEN "idle" ELSE "gone"])
        /\ UNCHANGED <<alive, bridgeVars, sizeVars, bridges, exitNotified, cancelled, mobileVars,
                       used>>

-----------------------------------------------------------------------------
(* watchPane and handlePaneExit                                            *)

WatchStops(s) ==
    /\ At(<<"watch", s>>, "watch")
    /\ s \in cancelled
    /\ Become(<<"watch", s>>, [Blank EXCEPT !.pc = "gone"])
    /\ UNCHANGED <<alive, bridgeVars, sizeVars, handlerVars, mobileVars, used>>

\* A tick that finds the pane gone.
WatchTick(s) ==
    LET t == <<"watch", s>>
    IN  /\ At(t, "watch")
        /\ pane[s] \notin alive
        /\ Become(t, [th[t] EXCEPT !.pc = "exit", !.ret = "gone"])
        /\ UNCHANGED <<alive, bridgeVars, sizeVars, handlerVars, mobileVars, used>>

\* The peer's attached pane, whichever it is by now.
HandlePaneExit(t) ==
    LET m == PeerOf(t)
    IN  /\ At(t, "exit")
        /\ IF bridges[m] = None \/ m \in exitNotified
           THEN Return(t) /\ UNCHANGED exitNotified
           ELSE /\ exitNotified' = exitNotified \cup {m}
                /\ Become(t, [th[t] EXCEPT !.pc = "tell", !.rel = pane[bridges[m]]])
        /\ UNCHANGED <<alive, bridgeVars, sizeVars, bridges, streamDone, superseded,
                       cancelled, ended, mobileVars, used>>

\* pane_closed and the sessions go out; the detach comes after them.
SendPaneClosed(t) ==
    /\ At(t, "tell")
    /\ TellClosed(PeerOf(t), th[t].rel)
    /\ Become(t, [th[t] EXCEPT !.pc = "detach", !.rel = NoPane])
    /\ UNCHANGED <<alive, bridgeVars, sizeVars, handlerVars, used>>

\* tmux: the pane's process exits, or its session is killed.
PaneExits(p) ==
    /\ p \in alive
    /\ Cardinality(used.world.panes \ alive) < used.world.exits
    /\ alive' = alive \ {p}
    /\ UNCHANGED <<bridgeVars, sizeVars, handlerVars, mobileVars, th, used>>

-----------------------------------------------------------------------------
DetachStep(t) ==
    \/ Detach(t)
    \/ Cancel(t)
    \/ CloseBridge(t)
    \/ ReleasePipe(t)
    \/ AwaitStream(t)
    \/ ReleaseIfForced(t)
    \/ ClearOverride(t)

ExitStep(t) ==
    \/ Notice(t)
    \/ SendReset(t)
    \/ EndStream(t)
    \/ HandlePaneExit(t)
    \/ SendPaneClosed(t)

AttachStep(m) ==
    \/ Resize(m)
    \/ ResizeFails(m)
    \/ MarkForced(m)
    \/ AttachPane(m)
    \/ Displace(m)
    \/ AttachFails(m)
    \/ AttachFailed(m)
    \/ InsertBridge(m)
    \/ SendAttached(m)
    \/ PreStreamFails(m)
    \/ StartStream(m)
    \/ SendDetached(m)
    \/ ResizePane(m)

Request(m) ==
    /\ m \in used.world.peers
    /\ \/ \E p \in used.world.panes : Attach(m, p)
       \/ DetachRequest(m)
       \/ ListFindsPaneGone(m)
       \/ ResizeRequest(m)
       \/ PeerDisconnected(m)

StreamStep(s) ==
    \/ CheckContext(s)
    \/ ReadData(s)
    \/ ReadFails(s)
    \/ SendOutput(s)
    \/ SendFails(s)

WatchStep(s) == WatchStops(s) \/ WatchTick(s)

Next ==
    \/ \E t \in Threads : DetachStep(t) \/ ExitStep(t)
    \/ \E m \in Peers : AttachStep(m) \/ Request(m)
    \/ \E s \in Attachments : StreamStep(s) \/ WatchStep(s)
    \/ \E p \in Panes : PaneExits(p)

Spec == Init /\ [][Next]_vars

\* Every goroutine is scheduled and every tmux command returns; a send ends,
\* by SendMessageContext's own timeout at the latest; a Read of a closed pipe
\* fails once what it buffered is read.  Nothing is assumed of the mobile's
\* requests, of tmux's panes or of the manager.
Fairness ==
    /\ \A t \in Threads : WF_vars(DetachStep(t) \/ ExitStep(t))
    /\ \A m \in Peers : WF_vars(AttachStep(m))
    /\ \A s \in Attachments :
        /\ WF_vars(CheckContext(s) \/ SendOutput(s) \/ SendFails(s))
        /\ SF_vars(ReadFails(s))
        /\ WF_vars(WatchStep(s))

FairSpec == Spec /\ Fairness

-----------------------------------------------------------------------------
(* Properties                                                              *)

ThreadStates ==
    [pc : DetachStages \cup
          {"idle", "track", "mark", "attach", "displace", "failed", "insert", "attached",
           "pre", "detached", "resize", "check", "read", "send", "notice", "reset", "end",
           "watch", "exit", "tell", "gone"},
     own : Attachments \cup {None}, want : Panes \cup {NoPane},
     att : Attachments \cup {None}, done : Attachments \cup {None},
     rel : Panes \cup {NoPane},
     ret : {"idle", "track", "failed", "detached", "notice", "end", "gone"}]

\* The shape of every variable.
TypeOK ==
    /\ alive \in SUBSET Panes
    /\ born \in 0 .. MaxAttaches
    /\ owner \in [Attachments -> Peers]
    /\ pane \in [Attachments -> Panes \cup {NoPane}]
    /\ bridge \in [Attachments -> {"none", "open", "displaced", "closed"}]
    /\ pipe \in [Panes -> Attachments \cup {None}]
    /\ forced \in SUBSET Panes
    /\ manual \in SUBSET Panes
    /\ bridges \in [Peers -> Attachments \cup {None}]
    /\ streamDone \in [Peers -> Attachments \cup {None}]
    /\ exitNotified \in SUBSET Peers
    /\ superseded \in SUBSET Attachments
    /\ cancelled \in SUBSET Attachments
    /\ ended \in SUBSET Attachments
    /\ view \in [Peers -> Attachments \cup {None}]
    /\ told \in SUBSET Attachments
    /\ th \in [Threads -> ThreadStates]
    /\ used \in [world : Worlds, disconnects : Nat, resizes : Nat]

\* No thread is ending an attachment or making one.
Quiet == \A t \in Threads : th[t].pc \in {"idle", "gone", "check", "read", "send", "watch"}

\* Handler.streamDone names the one stream of a peer that may still send, so a
\* detach that finds no entry, or finds another's, has nothing to wait for.
StreamIsKnown ==
    \A s \in Attachments :
        ~At(<<"stream", s>>, "idle") /\ ~At(<<"stream", s>>, "gone")
            => streamDone[owner[s]] = s

\* Nothing of an old stream is sent after the reply to the request that ended it:
\* an output or a stream_reset goes out only while the mobile reads that stream.
NothingAfterReply ==
    [][\A t \in Threads :
         \/ At(t, "send") /\ th'[t].pc = "check"
         \/ At(t, "reset") /\ th'[t].pc = "end"
         => view[PeerOf(t)] = th[t].own]_vars

\* An attached bridge that was not told otherwise receives the pane's output: no
\* late Close of an older bridge has turned its pipe off.
AttachedIsFed ==
    \A m \in Peers : bridges[m] # None =>
        LET s == bridges[m]
        IN  \/ bridge[s] # "open"
            \/ pipe[pane[s]] = s
            \/ \E o \in Peers : At(<<"req", o>>, "displace") /\ th[<<"req", o>>].att = s

\* When no mobile is attached, tmux sizes every window by itself again.
WindowReleased ==
    (Quiet /\ \A m \in Peers : bridges[m] = None) => manual \cap alive = {}

\* As long as no pane exits and no peer disconnects, a mobile that was told it is
\* attached, and was told nothing since, is attached: a stream that stalls or is
\* displaced says so, also when a detach supersedes it half way.
StallIsReported ==
    (Quiet /\ alive = used.world.panes /\ used.disconnects = 0) =>
        \A m \in Peers : view[m] \notin told \cup {None} => bridges[m] = view[m]

\* The same when panes do exit: a mobile attached to a pane that is alive is not left
\* on a dead stream.
NoDeadStream ==
    (Quiet /\ used.disconnects = 0) =>
        \A m \in Peers :
            (view[m] \notin told \cup {None} /\ pane[view[m]] \in alive)
                => bridges[m] = view[m]

\* Every detach ends: the threads that detach, the stream they wait for and the
\* attach that stands for it never wait for one another in a circle.
DetachEnds ==
    \A t \in Threads : (th[t].pc \in DetachStages) ~> (th[t].pc \notin DetachStages)

=============================================================================
