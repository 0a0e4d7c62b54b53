-------------------------- MODULE PaneStream_proofs --------------------------
(***************************************************************************)
(* Safety of the pane streams for every number of mobiles, panes and        *)
(* attachments: the inductive invariant IInv, and what follows from it.     *)
(***************************************************************************)
EXTENDS PaneStream, TLAPS

\* The four kinds of thread.
Req(m) == <<"req", m>>
Bye(m) == <<"bye", m>>
Str(s) == <<"stream", s>>
Wat(s) == <<"watch", s>>

\* In detachPeerWait after its hold of h.mu: what it took out and whom it waits
\* for is captured; up to the release of the window; to its end.
Captured == {"cancel", "close", "pipe", "wait"}
Holding == Captured \cup {"release"}
AfterHold == Holding \cup {"clear"}

\* What a request does between its detach and the insertion of the new bridge.
Attaching == {"track", "mark", "attach", "displace", "insert"}

-----------------------------------------------------------------------------
(* Which thread is where.                                                   *)

\* A request, which stands for its stream until that is started.
ReqShape(m) ==
    LET r == th[Req(m)]
    IN  /\ r.pc \in DetachStages \cup Attaching \cup
              {"idle", "failed", "attached", "pre", "detached", "resize", "notice", "reset", "end"}
        /\ r.pc \in DetachStages => r.ret \in {"idle", "track", "failed", "detached", "notice"}
        /\ r.pc \in DetachStages /\ r.ret = "failed" => r.pc \in {"release", "clear"}
        /\ r.pc \in {"track", "mark"} => r.rel = NoPane
        /\ r.pc = "mark" => r.want \in Panes
        /\ r.pc = "attach" => r.rel \in {r.want, NoPane}

\* PeerDisconnected.
ByeShape(m) ==
    LET r == th[Bye(m)]
    IN  r.pc = "idle" \/ (r.pc \in DetachStages /\ r.ret = "idle")

\* A stream ends by itself only with a notice: a bridge is closed only after the
\* context was canceled, so it never finds its pane gone by itself.
StreamShape(s) ==
    LET r == th[Str(s)]
    IN  /\ r.pc \in DetachStages \cup
              {"idle", "check", "read", "send", "notice", "reset", "end", "gone"}
        /\ r.pc \in DetachStages => r.ret = "notice"
        /\ r.pc \notin {"idle", "gone"} => r.own = s

\* The watcher.
WatchShape(s) ==
    LET r == th[Wat(s)]
    IN  /\ r.pc \in DetachStages \cup {"idle", "watch", "exit", "tell", "gone"}
        /\ r.pc \in DetachStages \cup {"exit", "tell"} => r.ret = "gone"

\* What a detach captured: it only waits for the peer's own stream, and not when it
\* runs for that stream.
CaptureShape(t) ==
    LET r == th[t]
    IN  /\ r.pc \in {"cancel", "close", "pipe"} => r.att # None
        /\ r.pc \in {"close", "pipe"} => r.att \in cancelled
        /\ r.pc = "pipe" => bridge[r.att] = "closed"
        /\ r.pc \in Captured /\ r.done # None => r.ret # "notice" /\ owner[r.done] = PeerOf(t)

Shapes ==
    /\ \A m \in Peers : ReqShape(m) /\ ByeShape(m)
    /\ \A s \in Attachments : StreamShape(s) /\ WatchShape(s)
    /\ \A t \in Threads : CaptureShape(t)

\* Whatever names an attachment names one that was made.
Made ==
    /\ \A m \in Peers : bridges[m] <= born /\ streamDone[m] <= born /\ view[m] <= born
    /\ \A p \in Panes : pipe[p] <= born
    /\ \A t \in Threads : th[t].own <= born /\ th[t].att <= born /\ th[t].done <= born
    /\ \A s \in Attachments : s > born =>
         /\ bridge[s] = "none"
         /\ th[Str(s)].pc = "idle" /\ th[Wat(s)].pc = "idle"
         /\ s \notin ended
    /\ \A s \in Attachments : s <= born => pane[s] \in used.world.panes
    /\ alive \subseteq used.world.panes

-----------------------------------------------------------------------------
(* The one stream of a peer.                                                *)

\* The request stands for the stream of the attachment own.
Stands(m) ==
    \/ th[Req(m)].pc \in {"displace", "insert", "attached", "pre", "notice", "reset", "end"}
    \/ th[Req(m)].pc \in DetachStages /\ th[Req(m)].ret = "notice"

Entered(m) == Stands(m) /\ th[Req(m)].pc \notin {"displace", "insert"}

\* While a request stands for a stream, nobody else does; from the entry on the handler
\* knows the stream, and from the reply on the mobile reads it.
StandsAlone ==
    \A m \in Peers :
        /\ Stands(m) => LET s == th[Req(m)].own
                        IN  /\ s # None /\ owner[s] = m /\ s \notin ended
                            /\ th[Str(s)].pc = "idle" /\ th[Wat(s)].pc = "idle"
        /\ Entered(m) => streamDone[m] = th[Req(m)].own
        /\ Entered(m) /\ th[Req(m)].pc # "attached" => view[m] = th[Req(m)].own
        /\ th[Req(m)].pc \in {"displace", "insert"} => pane[th[Req(m)].own] = th[Req(m)].want

\* The request is past a detach that waited: nothing streams to the peer.
Settled(m) ==
    \/ th[Req(m)].pc \in Attaching \cup {"failed", "detached"}
    \/ th[Req(m)].pc \in {"release", "clear"} /\ th[Req(m)].ret \in {"track", "failed", "detached"}

\* The request is past the detach that an attach begins with.
Vacated(m) ==
    \/ th[Req(m)].pc \in Attaching \cup {"failed"}
    \/ th[Req(m)].pc \in AfterHold /\ th[Req(m)].ret \in {"track", "failed"}

\* A request that has waited finds no stream of its peer, and no bridge once it attaches.
RequestWaits ==
    \A m \in Peers :
        /\ Settled(m) => streamDone[m] = None
        /\ th[Req(m)].pc \in Captured /\ th[Req(m)].ret \in {"track", "detached"} =>
              streamDone[m] \in {None, th[Req(m)].done}
        /\ Vacated(m) => bridges[m] = None

\* An entry of Handler.streamDone, and a superseded stream, have not ended.
Forgotten ==
    /\ \A m \in Peers : streamDone[m] # None =>
          streamDone[m] \notin ended /\ owner[streamDone[m]] = m
    /\ superseded \cap ended = {}

\* A running stream is the one its peer's entry names and its mobile reads.
Runs(s) == th[Str(s)].pc \notin {"idle", "gone"}

RunningIsRead ==
    /\ \A s \in Attachments : Runs(s) => streamDone[owner[s]] = s /\ view[owner[s]] = s
    /\ \A m \in Peers : view[m] # None => owner[view[m]] = m

Streams == StandsAlone /\ RequestWaits /\ Forgotten /\ RunningIsRead

-----------------------------------------------------------------------------
(* The pane's pipe.                                                         *)

\* An open bridge has its pane's pipe, unless the attach that took the pipe is about to
\* mark it displaced.
Feeds ==
    /\ \A p \in Panes : pipe[p] # None => pane[pipe[p]] = p
    /\ \A s \in Attachments : bridge[s] = "closed" => s \in cancelled
    /\ \A s \in Attachments : bridge[s] = "open" =>
          \/ pipe[pane[s]] = s
          \/ \E o \in Peers : th[Req(o)].pc = "displace" /\ th[Req(o)].att = s

-----------------------------------------------------------------------------
(* The window's size, while no resize request comes.                        *)

Unresized == used.world.resizes = 0

\* Someone is about to mark the pane, or to clear its override.
SizeInHand(p) ==
    \E t \in Threads : \/ th[t].pc = "mark" /\ th[t].want = p
                       \/ th[t].pc = "clear" /\ th[t].rel = p

\* Someone will release the pane.
WillRelease(p) ==
    \/ \E m \in Peers : bridges[m] # None /\ pane[bridges[m]] = p
    \/ \E t \in Threads : th[t].pc \in Holding \cup {"attach"} /\ th[t].rel = p
    \/ \E m \in Peers : th[Req(m)].pc \in {"displace", "insert"} /\ th[Req(m)].want = p

\* A window that tmux does not size is marked as forced or about to be marked or cleared,
\* and for one that is marked somebody will look at the mark.
Sizes ==
    /\ Unresized => \A m \in Peers : th[Req(m)].pc # "resize"
    /\ Unresized => \A p \in manual : p \in forced \/ SizeInHand(p)
    /\ \A p \in forced : WillRelease(p)

-----------------------------------------------------------------------------
(* While no pane exits and no peer disconnects.                             *)

Calm == alive = used.world.panes /\ used.disconnects = 0

\* The request will answer, and so tell the mobile what it is attached to.
Replying(m) ==
    \/ th[Req(m)].pc \in Attaching \cup {"failed", "detached", "attached"}
    \/ th[Req(m)].pc \in AfterHold /\ th[Req(m)].ret \in {"track", "failed", "detached"}

\* The thread t ends the stream of s and has not said so yet.
Ends(t, s) ==
    /\ th[t].own = s
    /\ \/ th[t].pc \in DetachStages /\ th[t].ret = "notice"
       \/ th[t].pc \in {"notice", "reset"}

\* A stream is superseded by a detach that waits for it.
SupersededAwaited ==
    \A s \in superseded : \E t \in Threads : th[t].pc \in Captured /\ th[t].done = s

CalmThreads ==
    Calm =>
        /\ \A m \in Peers : /\ th[Bye(m)].pc = "idle"
                            /\ th[Req(m)].pc \in DetachStages => th[Req(m)].ret # "idle"
                            /\ th[Req(m)].pc \in {"attached", "pre"} => bridges[m] = th[Req(m)].own
        /\ \A s \in Attachments : th[Wat(s)].pc \in {"idle", "watch", "gone"}

Reported ==
    Calm => \A m \in Peers : view[m] \notin told \cup {None} =>
        bridges[m] = view[m] \/ Replying(m) \/ Ends(Str(view[m]), view[m]) \/ Ends(Req(m), view[m])

Reports == SupersededAwaited /\ CalmThreads /\ Reported

IInv == TypeOK /\ Shapes /\ Made /\ Streams /\ Feeds /\ Sizes /\ Reports

-----------------------------------------------------------------------------
(* Threads.                                                                 *)

\* Every thread is of one kind and is named once.
LEMMA Kinds ==
    /\ \A m \in Peers : Req(m) \in Threads /\ Bye(m) \in Threads
    /\ \A s \in Attachments : Str(s) \in Threads /\ Wat(s) \in Threads
    /\ \A t \in Threads : \/ \E m \in Peers : t = Req(m) \/ t = Bye(m)
                          \/ \E s \in Attachments : t = Str(s) \/ t = Wat(s)
    /\ \A x, y : /\ Req(x) = Req(y) => x = y
                 /\ Bye(x) = Bye(y) => x = y
                 /\ Str(x) = Str(y) => x = y
                 /\ Wat(x) = Wat(y) => x = y
    /\ \A x, y : /\ Req(x) # Bye(y) /\ Req(x) # Str(y) /\ Req(x) # Wat(y)
                 /\ Bye(x) # Str(y) /\ Bye(x) # Wat(y) /\ Str(x) # Wat(y)
BY DEF Req, Bye, Str, Wat, Threads

\* Whom a thread works for.
LEMMA WorksFor ==
    /\ \A x : PeerOf(Req(x)) = x /\ PeerOf(Bye(x)) = x
    /\ \A x : PeerOf(Str(x)) = owner[x] /\ PeerOf(Wat(x)) = owner[x]
BY DEF PeerOf, Req, Bye, Str, Wat

\* The kind of a thread as endStream reads it.
LEMMA Tags ==
    \A x : Req(x)[1] = "req" /\ Str(x)[1] # "req"
BY DEF Req, Str

\* The places of a thread, and where a detach may return to.
Places == DetachStages \cup
          {"idle", "track", "mark", "attach", "displace", "failed", "insert", "attached",
           "pre", "detached", "resize", "check", "read", "send", "notice", "reset", "end",
           "watch", "exit", "tell", "gone"}
Returning == {"idle", "track", "failed", "detached", "notice", "end", "gone"}

Others(t) == \A u \in Threads : u # t => th'[u] = th[u]

Becomes(t, pc, own, want, att, done, rel, ret) ==
    /\ th'[t].pc = pc
    /\ th'[t].own = own
    /\ th'[t].want = want
    /\ th'[t].att = att
    /\ th'[t].done = done
    /\ th'[t].rel = rel
    /\ th'[t].ret = ret
    /\ Others(t)
    /\ th' \in [Threads -> ThreadStates]

Jumps(t, pc) ==
    Becomes(t, pc, th[t].own, th[t].want, th[t].att, th[t].done, th[t].rel, th[t].ret)

\* Become(t, r) field by field.
LEMMA BecomeEffect ==
    ASSUME TypeOK, NEW t \in Threads, NEW r \in ThreadStates, Become(t, r)
    PROVE  Becomes(t, r.pc, r.own, r.want, r.att, r.done, r.rel, r.ret)
BY DEF TypeOK, Become, Becomes, Others

\* What TypeOK says of one thread.
LEMMA ThreadFields ==
    ASSUME TypeOK, NEW t \in Threads
    PROVE  /\ th[t] \in ThreadStates
           /\ th[t].pc \in Places /\ th[t].ret \in Returning
           /\ th[t].own \in Attachments \cup {None} /\ th[t].att \in Attachments \cup {None}
           /\ th[t].done \in Attachments \cup {None}
           /\ th[t].want \in Panes \cup {NoPane} /\ th[t].rel \in Panes \cup {NoPane}
BY DEF TypeOK, ThreadStates, Places, Returning

\* The state of a thread that does nothing is one of the thread states.
LEMMA BlankTyped == Blank \in ThreadStates
BY DEF Blank, ThreadStates, None

\* Goto, CallDetach and their kind field by field: only the named fields change.
LEMMA GotoEffect ==
    ASSUME TypeOK, NEW t \in Threads, NEW pc \in Places, Goto(t, pc)
    PROVE  Jumps(t, pc)
<1> DEFINE r == [th[t] EXCEPT !.pc = pc]
<1>1. /\ r \in ThreadStates
      /\ r.pc = pc /\ r.own = th[t].own /\ r.want = th[t].want /\ r.att = th[t].att
      /\ r.done = th[t].done /\ r.rel = th[t].rel /\ r.ret = th[t].ret
  BY ThreadFields DEF ThreadStates, Places
<1>2. Become(t, r)
  BY DEF Goto
<1> HIDE DEF r
<1> QED
  BY <1>1, <1>2, BecomeEffect DEF Jumps

LEMMA CallEffect ==
    ASSUME TypeOK, NEW t \in Threads, NEW ret \in Returning, CallDetach(t, ret)
    PROVE  Becomes(t, "detach", th[t].own, th[t].want, th[t].att, th[t].done, th[t].rel, ret)
<1> DEFINE r == [th[t] EXCEPT !.pc = "detach", !.ret = ret]
<1>1. /\ r \in ThreadStates
      /\ r.pc = "detach" /\ r.own = th[t].own /\ r.want = th[t].want /\ r.att = th[t].att
      /\ r.done = th[t].done /\ r.rel = th[t].rel /\ r.ret = ret
  BY ThreadFields DEF ThreadStates, Returning, DetachStages
<1>2. Become(t, r)
  BY DEF CallDetach
<1> HIDE DEF r
<1> QED
  BY <1>1, <1>2, BecomeEffect

LEMMA ReturnEffect ==
    ASSUME TypeOK, NEW t \in Threads, Return(t)
    PROVE  Becomes(t, th[t].ret, th[t].own, th[t].want, None, None, NoPane, "idle")
<1> DEFINE r == [Blank EXCEPT !.pc = th[t].ret, !.own = th[t].own, !.want = th[t].want]
<1>1. /\ r \in ThreadStates
      /\ r.pc = th[t].ret /\ r.own = th[t].own /\ r.want = th[t].want /\ r.att = None
      /\ r.done = None /\ r.rel = NoPane /\ r.ret = "idle"
  BY ThreadFields DEF ThreadStates, Returning, Blank, None
<1>2. Become(t, r)
  BY DEF Return
<1> HIDE DEF r
<1> QED
  BY <1>1, <1>2, BecomeEffect

LEMMA BlankEffect ==
    ASSUME TypeOK, NEW t \in Threads, NEW pc \in Places, Become(t, [Blank EXCEPT !.pc = pc])
    PROVE  Becomes(t, pc, None, NoPane, None, None, NoPane, "idle")
<1> DEFINE r == [Blank EXCEPT !.pc = pc]
<1>1. /\ r \in ThreadStates
      /\ r.pc = pc /\ r.own = None /\ r.want = NoPane /\ r.att = None
      /\ r.done = None /\ r.rel = NoPane /\ r.ret = "idle"
  BY DEF ThreadStates, Places, Blank, None
<1> HIDE DEF r
<1> QED
  BY <1>1, BecomeEffect DEF r

LEMMA IdleEffect ==
    ASSUME TypeOK, NEW t \in Threads, Become(t, Blank)
    PROVE  Becomes(t, "idle", None, NoPane, None, None, NoPane, "idle")
BY BecomeEffect, BlankTyped DEF Blank

-----------------------------------------------------------------------------
(* The steps that change more of a thread than its place.                   *)

\* Every thread works for a peer.
LEMMA WorksForPeer ==
    ASSUME TypeOK, NEW t \in Threads
    PROVE  PeerOf(t) \in Peers
BY Kinds, WorksFor DEF TypeOK

\* What the hold of h.mu captures.
LEMMA DetachEffect ==
    ASSUME TypeOK, NEW t \in Threads, Detach(t)
    PROVE  LET s == bridges[PeerOf(t)]
               d == IF Waits(t) THEN streamDone[PeerOf(t)] ELSE None
           IN  Becomes(t, IF s = None THEN "wait" ELSE "cancel", th[t].own, th[t].want, s, d,
                       IF s = None THEN NoPane ELSE pane[s], th[t].ret)
<1> DEFINE s == bridges[PeerOf(t)]
           d == IF Waits(t) THEN streamDone[PeerOf(t)] ELSE None
           pc == IF s = None THEN "wait" ELSE "cancel"
           rel == IF s = None THEN NoPane ELSE pane[s]
           r == [th[t] EXCEPT !.pc = pc, !.att = s, !.done = d, !.rel = rel]
<1>1. s \in Attachments \cup {None} /\ d \in Attachments \cup {None}
      /\ rel \in Panes \cup {NoPane} /\ pc \in Places
  BY WorksForPeer DEF TypeOK, Places, DetachStages
<1>2. Become(t, r)
  BY DEF Detach
<1> HIDE DEF s, d, pc, rel
<1>3. /\ r \in ThreadStates
      /\ r.pc = pc /\ r.own = th[t].own /\ r.want = th[t].want /\ r.att = s
      /\ r.done = d /\ r.rel = rel /\ r.ret = th[t].ret
  BY <1>1, ThreadFields DEF ThreadStates, Places
<1> HIDE DEF r
<1>4. Becomes(t, pc, th[t].own, th[t].want, s, d, rel, th[t].ret)
  BY <1>2, <1>3, BecomeEffect
<1> QED
  BY <1>4 DEF s, d, pc, rel

\* An attach request starts with the detach of the old attachment.
LEMMA AttachEffect ==
    ASSUME TypeOK, NEW m \in Peers, NEW p \in Panes, Attach(m, p)
    PROVE  Becomes(Req(m), "detach", None, p, None, None, NoPane, "track")
<1> DEFINE r == [Blank EXCEPT !.pc = "detach", !.ret = "track", !.want = p]
<1>1. /\ r \in ThreadStates
      /\ r.pc = "detach" /\ r.own = None /\ r.want = p /\ r.att = None
      /\ r.done = None /\ r.rel = NoPane /\ r.ret = "track"
  BY DEF ThreadStates, DetachStages, Blank, None
<1>2. Become(Req(m), r)
  BY DEF Attach, Req
<1> HIDE DEF r
<1> QED
  BY <1>1, <1>2, BecomeEffect, Kinds

LEMMA MarkEffect ==
    ASSUME TypeOK, NEW m \in Peers, MarkForced(m)
    PROVE  LET r == th[Req(m)]
           IN  Becomes(Req(m), "attach", r.own, r.want, r.att, r.done, r.want, r.ret)
<1> DEFINE t == Req(m)
           r == [th[t] EXCEPT !.pc = "attach", !.rel = th[t].want]
<1>1. t \in Threads
  BY Kinds
<1>2. Become(t, r)
  BY DEF MarkForced, Req
<1> HIDE DEF t
<1>3. /\ r \in ThreadStates
      /\ r.pc = "attach" /\ r.own = th[t].own /\ r.want = th[t].want /\ r.att = th[t].att
      /\ r.done = th[t].done /\ r.rel = th[t].want /\ r.ret = th[t].ret
  BY <1>1, ThreadFields DEF ThreadStates
<1> HIDE DEF r
<1>4. Becomes(t, "attach", th[t].own, th[t].want, th[t].att, th[t].done, th[t].want, th[t].ret)
  BY <1>1, <1>2, <1>3, BecomeEffect
<1> QED
  BY <1>4 DEF t

LEMMA AttachPaneEffect ==
    ASSUME TypeOK, NEW m \in Peers, AttachPane(m)
    PROVE  LET r == th[Req(m)]
           IN  Becomes(Req(m), "displace", born + 1, r.want, pipe[r.want], r.done, NoPane, r.ret)
<1> DEFINE t == Req(m)
           a == born + 1
           o == pipe[th[t].want]
           r == [th[t] EXCEPT !.pc = "displace", !.own = a, !.att = o, !.rel = NoPane]
<1>1. t \in Threads
  BY Kinds
<1>2. Become(t, r) /\ a \in Attachments /\ o \in Attachments \cup {None}
  BY DEF AttachPane, Req, TypeOK
<1> HIDE DEF t, a, o
<1>3. /\ r \in ThreadStates
      /\ r.pc = "displace" /\ r.own = a /\ r.want = th[t].want /\ r.att = o
      /\ r.done = th[t].done /\ r.rel = NoPane /\ r.ret = th[t].ret
  BY <1>1, <1>2, ThreadFields DEF ThreadStates
<1> HIDE DEF r
<1>4. Becomes(t, "displace", a, th[t].want, o, th[t].done, NoPane, th[t].ret)
  BY <1>1, <1>2, <1>3, BecomeEffect
<1> QED
  BY <1>4 DEF t, a, o

LEMMA DisplaceEffect ==
    ASSUME TypeOK, NEW m \in Peers, Displace(m)
    PROVE  LET r == th[Req(m)]
           IN  Becomes(Req(m), "insert", r.own, r.want, None, r.done, r.rel, r.ret)
<1> DEFINE t == Req(m)
           r == [th[t] EXCEPT !.pc = "insert", !.att = None]
<1>1. t \in Threads
  BY Kinds
<1>2. Become(t, r)
  BY DEF Displace, Req
<1> HIDE DEF t
<1>3. /\ r \in ThreadStates
      /\ r.pc = "insert" /\ r.own = th[t].own /\ r.want = th[t].want /\ r.att = None
      /\ r.done = th[t].done /\ r.rel = th[t].rel /\ r.ret = th[t].ret
  BY <1>1, ThreadFields DEF ThreadStates
<1> HIDE DEF r
<1>4. Becomes(t, "insert", th[t].own, th[t].want, None, th[t].done, th[t].rel, th[t].ret)
  BY <1>1, <1>2, <1>3, BecomeEffect
<1> QED
  BY <1>4 DEF t

LEMMA AttachFailsEffect ==
    ASSUME TypeOK, NEW m \in Peers, AttachFails(m)
    PROVE  LET r == th[Req(m)]
           IN  Becomes(Req(m), "release", r.own, r.want, r.att, r.done, r.rel, "failed")
<1> DEFINE t == Req(m)
           r == [th[t] EXCEPT !.pc = "release", !.ret = "failed"]
<1>1. t \in Threads
  BY Kinds
<1>2. Become(t, r)
  BY DEF AttachFails, Req
<1> HIDE DEF t
<1>3. /\ r \in ThreadStates
      /\ r.pc = "release" /\ r.own = th[t].own /\ r.want = th[t].want /\ r.att = th[t].att
      /\ r.done = th[t].done /\ r.rel = th[t].rel /\ r.ret = "failed"
  BY <1>1, ThreadFields DEF ThreadStates, DetachStages
<1> HIDE DEF r
<1>4. Becomes(t, "release", th[t].own, th[t].want, th[t].att, th[t].done, th[t].rel, "failed")
  BY <1>1, <1>2, <1>3, BecomeEffect
<1> QED
  BY <1>4 DEF t

LEMMA ResizeRequestEffect ==
    ASSUME TypeOK, NEW m \in Peers, ResizeRequest(m)
    PROVE  Becomes(Req(m), "resize", None, NoPane, bridges[m], None, NoPane, "idle")
<1> DEFINE o == bridges[m]
           r == [Blank EXCEPT !.pc = "resize", !.att = o]
<1>1. o \in Attachments \cup {None}
  BY DEF TypeOK
<1>2. Become(Req(m), r)
  BY DEF ResizeRequest, Req
<1> HIDE DEF o
<1>3. /\ r \in ThreadStates
      /\ r.pc = "resize" /\ r.own = None /\ r.want = NoPane /\ r.att = o
      /\ r.done = None /\ r.rel = NoPane /\ r.ret = "idle"
  BY <1>1 DEF ThreadStates, Blank, None
<1> HIDE DEF r
<1>4. Becomes(Req(m), "resize", None, NoPane, o, None, NoPane, "idle")
  BY <1>2, <1>3, BecomeEffect, Kinds
<1> QED
  BY <1>4 DEF o

LEMMA WatchTickEffect ==
    ASSUME TypeOK, NEW s \in Attachments, WatchTick(s)
    PROVE  LET r == th[Wat(s)]
           IN  Becomes(Wat(s), "exit", r.own, r.want, r.att, r.done, r.rel, "gone")
<1> DEFINE t == Wat(s)
           r == [th[t] EXCEPT !.pc = "exit", !.ret = "gone"]
<1>1. t \in Threads
  BY Kinds
<1>2. Become(t, r)
  BY DEF WatchTick, Wat
<1> HIDE DEF t
<1>3. /\ r \in ThreadStates
      /\ r.pc = "exit" /\ r.own = th[t].own /\ r.want = th[t].want /\ r.att = th[t].att
      /\ r.done = th[t].done /\ r.rel = th[t].rel /\ r.ret = "gone"
  BY <1>1, ThreadFields DEF ThreadStates
<1> HIDE DEF r
<1>4. Becomes(t, "exit", th[t].own, th[t].want, th[t].att, th[t].done, th[t].rel, "gone")
  BY <1>1, <1>2, <1>3, BecomeEffect
<1> QED
  BY <1>4 DEF t

\* handlePaneExit either finds nothing to do, or goes on to tell the mobile.
LEMMA PaneExitEffect ==
    ASSUME TypeOK, NEW t \in Threads, HandlePaneExit(t)
    PROVE  \/ Becomes(t, th[t].ret, th[t].own, th[t].want, None, None, NoPane, "idle")
           \/ Becomes(t, "tell", th[t].own, th[t].want, th[t].att, th[t].done,
                      pane[bridges[PeerOf(t)]], th[t].ret)
<1> DEFINE p == pane[bridges[PeerOf(t)]]
           r == [th[t] EXCEPT !.pc = "tell", !.rel = p]
<1>1. CASE Return(t)
  BY <1>1, ReturnEffect
<1>2. CASE bridges[PeerOf(t)] # None /\ Become(t, r)
  <2>1. p \in Panes \cup {NoPane}
    BY <1>2, WorksForPeer DEF TypeOK
  <2> HIDE DEF p
  <2>2. /\ r \in ThreadStates
        /\ r.pc = "tell" /\ r.own = th[t].own /\ r.want = th[t].want /\ r.att = th[t].att
        /\ r.done = th[t].done /\ r.rel = p /\ r.ret = th[t].ret
    BY <2>1, ThreadFields DEF ThreadStates
  <2> HIDE DEF r
  <2>3. Becomes(t, "tell", th[t].own, th[t].want, th[t].att, th[t].done, p, th[t].ret)
    BY <1>2, <2>2, BecomeEffect
  <2> QED
    BY <2>3 DEF p
<1> QED
  BY <1>1, <1>2 DEF HandlePaneExit

LEMMA SendPaneClosedEffect ==
    ASSUME TypeOK, NEW t \in Threads, SendPaneClosed(t)
    PROVE  Becomes(t, "detach", th[t].own, th[t].want, th[t].att, th[t].done, NoPane, th[t].ret)
<1> DEFINE r == [th[t] EXCEPT !.pc = "detach", !.rel = NoPane]
<1>1. /\ r \in ThreadStates
      /\ r.pc = "detach" /\ r.own = th[t].own /\ r.want = th[t].want /\ r.att = th[t].att
      /\ r.done = th[t].done /\ r.rel = NoPane /\ r.ret = th[t].ret
  BY ThreadFields DEF ThreadStates, DetachStages
<1>2. Become(t, r)
  BY DEF SendPaneClosed
<1> HIDE DEF r
<1> QED
  BY <1>1, <1>2, BecomeEffect

\* StartStream is the one step that moves three threads.
LEMMA StartStreamEffect ==
    ASSUME TypeOK, NEW m \in Peers, StartStream(m), th[Req(m)].own \in Attachments
    PROVE  LET s == th[Req(m)].own
           IN  /\ th'[Req(m)] = Blank
               /\ th'[Str(s)].pc = "check" /\ th'[Wat(s)].pc = "watch"
               /\ \A t \in {Str(s), Wat(s)} :
                    th'[t].own = s /\ th'[t].att = None /\ th'[t].done = None
               /\ \A t \in Threads \ {Req(m), Str(s), Wat(s)} : th'[t] = th[t]
               /\ th' \in [Threads -> ThreadStates]
<1> DEFINE s == th[Req(m)].own
           c == [Blank EXCEPT !.pc = "check", !.own = s]
           w == [Blank EXCEPT !.pc = "watch", !.own = s]
<1>1. th' = [th EXCEPT ![Req(m)] = Blank, ![Str(s)] = c, ![Wat(s)] = w]
  BY DEF StartStream, Req, Str, Wat
<1> HIDE DEF s
<1>2. s \in Attachments
  BY DEF s
<1>3. /\ c \in ThreadStates /\ w \in ThreadStates
      /\ c.pc = "check" /\ w.pc = "watch" /\ c.own = s /\ w.own = s
      /\ c.att = None /\ w.att = None /\ c.done = None /\ w.done = None
  BY <1>2 DEF ThreadStates, Blank, None
<1> HIDE DEF c, w
<1>4. /\ Req(m) \in Threads /\ Str(s) \in Threads /\ Wat(s) \in Threads
      /\ Req(m) # Str(s) /\ Req(m) # Wat(s) /\ Str(s) # Wat(s)
  BY <1>2, Kinds
<1>5. th \in [Threads -> ThreadStates]
  BY DEF TypeOK
<1>6. /\ th'[Req(m)] = Blank /\ th'[Str(s)] = c /\ th'[Wat(s)] = w
      /\ \A t \in Threads \ {Req(m), Str(s), Wat(s)} : th'[t] = th[t]
      /\ th' \in [Threads -> ThreadStates]
  BY <1>1, <1>3, <1>4, <1>5, BlankTyped
<1> QED
  BY <1>3, <1>6 DEF s

-----------------------------------------------------------------------------
(* What a step must respect.                                                *)

\* What no step takes back.
Steady ==
    /\ born <= born'
    /\ \A s \in Attachments : s <= born => owner'[s] = owner[s] /\ pane'[s] = pane[s]
    /\ cancelled \subseteq cancelled'
    /\ \A s \in Attachments : bridge[s] = "closed" => bridge'[s] = "closed"
    /\ used'.world = used.world
    /\ used.disconnects <= used'.disconnects
    /\ alive' \subseteq alive

ShapeOf(t) ==
    /\ \A m \in Peers : /\ t = Req(m) => ReqShape(m)
                        /\ t = Bye(m) => ByeShape(m)
    /\ \A s \in Attachments : /\ t = Str(s) => StreamShape(s)
                              /\ t = Wat(s) => WatchShape(s)
    /\ CaptureShape(t)

\* The thread names attachments that were made, and does not wake up by itself.
MadeOf(t) == th[t].own <= born /\ th[t].att <= born /\ th[t].done <= born

Sleeps(t) == th[t].pc = "idle" => th'[t].pc = "idle"

MadeFrame(t) ==
    /\ MadeOf(t)'
    /\ \A s \in Attachments : t \in {Str(s), Wat(s)} => Sleeps(t)

\* What the streams are judged by.
ReqFrame(m) ==
    /\ Stands(m)' => Stands(m) /\ th'[Req(m)].own = th[Req(m)].own
    /\ Entered(m)' => Entered(m)
    /\ Entered(m)' /\ th'[Req(m)].pc # "attached" => th[Req(m)].pc # "attached"
    /\ th'[Req(m)].pc \in {"displace", "insert"} =>
          th[Req(m)].pc \in {"displace", "insert"} /\ th'[Req(m)].want = th[Req(m)].want
    /\ Settled(m)' => Settled(m) \/ streamDone[m] = None
    /\ th'[Req(m)].pc \in Captured /\ th'[Req(m)].ret \in {"track", "detached"} =>
          \/ /\ th[Req(m)].pc \in Captured /\ th[Req(m)].ret = th'[Req(m)].ret
             /\ th'[Req(m)].done = th[Req(m)].done
          \/ th'[Req(m)].done = streamDone[m]
    /\ Vacated(m)' => Vacated(m) \/ bridges'[m] = None

StreamFrame(t) ==
    /\ \A m \in Peers : t = Req(m) => ReqFrame(m)
    /\ \A s \in Attachments : /\ t = Str(s) => (Runs(s)' => Runs(s)) /\ Sleeps(t)
                              /\ t = Wat(s) => Sleeps(t)

\* What feeds and window sizes are judged by.
FeedFrame(t) == th[t].pc = "displace" => th'[t].pc = "displace" /\ th'[t].att = th[t].att

SizeFrame(t) ==
    /\ th[t].pc = "mark" => th'[t].pc = "mark" /\ th'[t].want = th[t].want
    /\ th[t].pc = "clear" => th'[t].pc = "clear" /\ th'[t].rel = th[t].rel
    /\ th[t].pc \in Holding \cup {"attach"} =>
          th'[t].pc \in Holding \cup {"attach"} /\ th'[t].rel = th[t].rel
    /\ th[t].pc \in {"displace", "insert"} =>
          th'[t].pc \in {"displace", "insert"} /\ th'[t].want = th[t].want
    /\ th'[t].pc = "resize" => ~Unresized

\* What the reports are judged by.
AwaitFrame(t) ==
    th[t].pc \in Captured /\ th[t].done # None => th'[t].pc \in Captured /\ th'[t].done = th[t].done

CalmOf(t) ==
    /\ \A m \in Peers :
         /\ t = Bye(m) => th[t].pc = "idle"
         /\ t = Req(m) => /\ th[t].pc \in DetachStages => th[t].ret # "idle"
                          /\ th[t].pc \in {"attached", "pre"} => bridges[m] = th[t].own
    /\ \A s \in Attachments : t = Wat(s) => th[t].pc \in {"idle", "watch", "gone"}

ReportFrame(t) ==
    /\ \A m \in Peers : t = Req(m) => (Replying(m) => Replying(m)')
    /\ \A s \in Attachments : Ends(t, s) => Ends(t, s)' \/ s \in told'

\* Shapes and CalmThreads, thread by thread.
LEMMA ShapeSplit == Shapes <=> \A t \in Threads : ShapeOf(t)
BY Kinds DEF Shapes, ShapeOf

LEMMA CalmSplit == CalmThreads <=> (Calm => \A t \in Threads : CalmOf(t))
BY Kinds DEF CalmThreads, CalmOf

\* Steady keeps the shape of the threads that do not move.
LEMMA ShapeKept ==
    ASSUME TypeOK, Made, Steady, NEW u \in Threads, ShapeOf(u), th'[u] = th[u]
    PROVE  ShapeOf(u)'
<1>1. \A m \in Peers : (u = Req(m) => ReqShape(m)') /\ (u = Bye(m) => ByeShape(m)')
  BY DEF ShapeOf, ReqShape, ByeShape
<1>2. \A s \in Attachments : (u = Str(s) => StreamShape(s)') /\ (u = Wat(s) => WatchShape(s)')
  BY DEF ShapeOf, StreamShape, WatchShape
<1>3. CaptureShape(u)'
  <2>1. th[u].pc \in Captured => PeerOf(u)' = PeerOf(u)
    <3>1. \A m \in Peers : u = Req(m) \/ u = Bye(m) => PeerOf(u)' = PeerOf(u)
      BY DEF PeerOf, Req, Bye
    <3>2. \A s \in Attachments : u = Str(s) \/ u = Wat(s) =>
             PeerOf(u) = owner[s] /\ PeerOf(u)' = owner'[s]
      BY DEF PeerOf, Str, Wat
    <3>3. \A s \in Attachments : (u = Str(s) \/ u = Wat(s)) /\ th[u].pc \in Captured => s <= born
      BY DEF Made, Captured, TypeOK, Attachments
    <3> QED
      BY <3>1, <3>2, <3>3, Kinds DEF Steady
  <2>2. /\ th[u].done # None => owner'[th[u].done] = owner[th[u].done]
        /\ th[u].att \in cancelled => th[u].att \in cancelled'
        /\ th[u].pc = "pipe" => th[u].att \in Attachments
    BY ThreadFields DEF Steady, Made, ShapeOf, CaptureShape
  <2> QED
    BY <2>1, <2>2 DEF ShapeOf, CaptureShape, Steady
<1> QED
  BY <1>1, <1>2, <1>3 DEF ShapeOf

\* One lemma for each part of IInv: it survives a step that respects its frame.
LEMMA ShapesKept ==
    ASSUME TypeOK, Made, Shapes, Steady, NEW t \in Threads, Others(t), ShapeOf(t)'
    PROVE  Shapes'
<1>1. \A u \in Threads : ShapeOf(u)'
  BY ShapeKept, ShapeSplit DEF Others
<1> QED
  BY <1>1, Kinds DEF Shapes, ShapeOf

LEMMA MadeKept ==
    ASSUME TypeOK, Made, Steady, NEW t \in Threads, Others(t), MadeFrame(t), born' = born,
           \A m \in Peers : bridges'[m] <= born /\ streamDone'[m] <= born /\ view'[m] <= born,
           \A p \in Panes : pipe'[p] <= born,
           \A s \in Attachments : s > born => bridge'[s] = bridge[s] /\ (s \in ended' => s \in ended)
    PROVE  Made'
<1>1. \A u \in Threads : MadeOf(u)'
  BY DEF Made, MadeOf, MadeFrame, Others
<1>2. \A s \in Attachments : s > born => th'[Str(s)].pc = "idle" /\ th'[Wat(s)].pc = "idle"
  BY Kinds DEF Made, MadeFrame, Others, Sleeps
<1> QED
  BY <1>1, <1>2 DEF Made, MadeOf, Steady

LEMMA FeedsKept ==
    ASSUME TypeOK, Made, Feeds, Steady, NEW t \in Threads, Others(t), FeedFrame(t),
           UNCHANGED <<pane, bridge, pipe>>
    PROVE  Feeds'
<1>1. \A o \in Peers : th[Req(o)].pc = "displace" =>
         th'[Req(o)].pc = "displace" /\ th'[Req(o)].att = th[Req(o)].att
  BY Kinds DEF Others, FeedFrame
<1> QED
  BY <1>1 DEF Feeds, Steady

LEMMA SizesKept ==
    ASSUME TypeOK, Made, Sizes, Steady, NEW t \in Threads, Others(t), SizeFrame(t),
           UNCHANGED <<bridges, forced, manual>>
    PROVE  Sizes'
<1>1. Unresized' => Unresized
  BY DEF Unresized, Steady
<1>2. \A u \in Threads : SizeFrame(u) \/ (th'[u] = th[u])
  BY DEF Others
<1>3. \A p : SizeInHand(p) => SizeInHand(p)'
  BY <1>2 DEF SizeInHand, SizeFrame
<1>4. \A p : WillRelease(p) => WillRelease(p)'
  <2>1. \A m \in Peers : bridges[m] # None => pane'[bridges'[m]] = pane[bridges[m]]
    BY DEF TypeOK, Made, Steady
  <2> QED
    BY <1>2, <2>1, Kinds DEF WillRelease, SizeFrame
<1>5. \A m \in Peers : Unresized => th'[Req(m)].pc # "resize"
  BY <1>2, Kinds DEF SizeFrame, Sizes
<1> QED
  BY <1>1, <1>3, <1>4, <1>5 DEF Sizes

LEMMA StreamsKept ==
    ASSUME TypeOK, Made, Streams, Steady, NEW t \in Threads, Others(t), StreamFrame(t),
           UNCHANGED <<streamDone, ended, view>>, superseded' \cap ended = {},
           \A m \in Peers : bridges'[m] \in {bridges[m], None}
    PROVE  Streams'
<1>1. \A m \in Peers : ReqFrame(m)
  <2> SUFFICES ASSUME NEW m \in Peers, t # Req(m)
               PROVE  ReqFrame(m)
    BY DEF StreamFrame
  <2>1. th'[Req(m)] = th[Req(m)]
    BY Kinds DEF Others
  <2> QED
    BY <2>1 DEF ReqFrame, Stands, Entered, Settled, Vacated
<1>2. \A s \in Attachments : (Runs(s)' => Runs(s)) /\ Sleeps(Str(s)) /\ Sleeps(Wat(s))
  BY Kinds DEF StreamFrame, Others, Runs, Sleeps
<1>3. \A m \in Peers : th[Req(m)].own \in Attachments \cup {None} /\ th[Req(m)].own <= born
  BY Kinds, ThreadFields DEF Made
<1>4. StandsAlone'
  <2> SUFFICES ASSUME NEW m \in Peers
               PROVE  /\ Stands(m)' => LET s == th'[Req(m)].own
                                       IN  /\ s # None /\ owner'[s] = m /\ s \notin ended'
                                           /\ th'[Str(s)].pc = "idle" /\ th'[Wat(s)].pc = "idle"
                      /\ Entered(m)' => streamDone'[m] = th'[Req(m)].own
                      /\ Entered(m)' /\ th'[Req(m)].pc # "attached" => view'[m] = th'[Req(m)].own
                      /\ th'[Req(m)].pc \in {"displace", "insert"} =>
                            pane'[th'[Req(m)].own] = th'[Req(m)].want
    BY DEF StandsAlone
  <2> DEFINE s == th[Req(m)].own
  <2>1. ReqFrame(m)
    BY <1>1
  <2>2. Stands(m)' => th'[Req(m)].own = s /\ s \in Attachments /\ s <= born /\ owner[s] = m
                      /\ th[Str(s)].pc = "idle" /\ th[Wat(s)].pc = "idle" /\ s \notin ended
    BY <1>3, <2>1 DEF Streams, StandsAlone, ReqFrame
  <2>3. (Entered(m)' => Stands(m)') /\ (th'[Req(m)].pc \in {"displace", "insert"} => Stands(m)')
    BY DEF Entered, Stands
  <2>4. s \in Attachments => /\ th[Str(s)].pc = "idle" => th'[Str(s)].pc = "idle"
                             /\ th[Wat(s)].pc = "idle" => th'[Wat(s)].pc = "idle"
    BY <1>2 DEF Sleeps
  <2>5. s \in Attachments /\ s <= born => owner'[s] = owner[s] /\ pane'[s] = pane[s]
    BY DEF Steady
  <2>6. Entered(m)' => streamDone'[m] = s
    BY <2>1 DEF ReqFrame, Streams, StandsAlone
  <2>7. Entered(m)' /\ th'[Req(m)].pc # "attached" => view'[m] = s
    BY <2>1 DEF ReqFrame, Streams, StandsAlone
  <2>8. th'[Req(m)].pc \in {"displace", "insert"} => pane[s] = th'[Req(m)].want
    BY <2>1 DEF ReqFrame, Streams, StandsAlone
  <2>9. s \in Attachments => s # None
    BY DEF Attachments, None
  <2> HIDE DEF s
  <2> QED
    BY <2>2, <2>3, <2>4, <2>5, <2>6, <2>7, <2>8, <2>9
<1>5. RequestWaits'
  BY <1>1 DEF Streams, RequestWaits, ReqFrame
<1>6. Forgotten'
  BY DEF Streams, Forgotten, TypeOK, Made, Steady
<1>7. RunningIsRead'
  <2>1. \A s \in Attachments : Runs(s) => s <= born
    BY DEF Runs, Made, TypeOK, Attachments
  <2> QED
    BY <1>2, <2>1 DEF Streams, RunningIsRead, Steady, TypeOK, Made
<1> QED
  BY <1>4, <1>5, <1>6, <1>7 DEF Streams

\* Panes do not come back and disconnects are not undone: it was calm before.
LEMMA CalmBefore ==
    ASSUME TypeOK, Made, Steady, Calm', used' \in [world : Worlds, disconnects : Nat, resizes : Nat]
    PROVE  Calm
<1>1. used.disconnects \in Nat /\ used'.disconnects \in Nat
  BY DEF TypeOK
<1>2. used.disconnects = 0
  BY <1>1 DEF Steady, Calm
<1>3. alive = used.world.panes
  BY DEF Made, Steady, Calm
<1> QED
  BY <1>2, <1>3 DEF Calm

LEMMA AwaitedKept ==
    ASSUME SupersededAwaited, NEW t \in Threads, Others(t), AwaitFrame(t),
           superseded' \subseteq superseded, None \notin superseded
    PROVE  SupersededAwaited'
<1>1. \A u \in Threads : AwaitFrame(u)
  BY DEF Others, AwaitFrame
<1> QED
  BY <1>1 DEF SupersededAwaited, AwaitFrame

LEMMA CalmKept ==
    ASSUME TypeOK, Made, Steady, CalmThreads, NEW t \in Threads, Others(t), Calm' => CalmOf(t)',
           used' \in [world : Worlds, disconnects : Nat, resizes : Nat],
           Calm => \A m \in Peers :
                      th[Req(m)].pc \in {"attached", "pre"} => bridges'[m] = bridges[m]
    PROVE  CalmThreads'
<1> SUFFICES ASSUME Calm', NEW u \in Threads
             PROVE  CalmOf(u)'
  BY Kinds DEF CalmThreads, CalmOf
<1>1. CalmOf(u)
  BY CalmBefore, CalmSplit
<1>2. CASE u = t
  BY <1>2
<1>3. CASE u # t
  <2>1. th'[u] = th[u]
    BY <1>3 DEF Others
  <2>2. \A m \in Peers : th[Req(m)].pc \in {"attached", "pre"} => bridges'[m] = bridges[m]
    BY CalmBefore
  <2> QED
    BY <1>1, <2>1, <2>2 DEF CalmOf
<1> QED
  BY <1>2, <1>3

LEMMA ReportedKept ==
    ASSUME TypeOK, Made, Steady, Reported, NEW t \in Threads, Others(t), ReportFrame(t),
           used' \in [world : Worlds, disconnects : Nat, resizes : Nat],
           UNCHANGED <<bridges, view>>, told \subseteq told'
    PROVE  Reported'
<1> SUFFICES ASSUME Calm', NEW m \in Peers, view[m] \notin told' \cup {None}
             PROVE  \/ bridges[m] = view[m]
                    \/ Replying(m)'
                    \/ Ends(Str(view[m]), view[m])' \/ Ends(Req(m), view[m])'
  BY DEF Reported
<1>1. \/ bridges[m] = view[m]
      \/ Replying(m)
      \/ Ends(Str(view[m]), view[m]) \/ Ends(Req(m), view[m])
  BY CalmBefore DEF Reported
<1>2. view[m] \in Attachments
  BY DEF TypeOK
<1>3. Replying(m) => Replying(m)'
  BY Kinds DEF ReportFrame, Replying, Others
<1>4. \A u \in Threads : Ends(u, view[m]) => Ends(u, view[m])'
  BY <1>2 DEF ReportFrame, Ends, Others
<1> QED
  BY <1>1, <1>2, <1>3, <1>4, Kinds

-----------------------------------------------------------------------------
(* Steps that only move a thread.                                           *)

PlainCore(t) ==
    /\ ShapeOf(t)'
    /\ MadeFrame(t)
    /\ StreamFrame(t)
    /\ AwaitFrame(t)
    /\ Calm' => CalmOf(t)'
    /\ ReportFrame(t)

Plain(t) == PlainCore(t) /\ FeedFrame(t) /\ SizeFrame(t)

\* A step that respects all but the pipes and the window sizes.
LEMMA CoreStep ==
    ASSUME IInv, NEW t \in Threads, Others(t), th' \in [Threads -> ThreadStates], PlainCore(t),
           UNCHANGED <<alive, born, owner, pane, bridges, streamDone, superseded, ended, view>>,
           bridge' \in [Attachments -> {"none", "open", "displaced", "closed"}],
           \A s \in Attachments : (bridge[s] = "closed" \/ s > born) => bridge'[s] = bridge[s],
           pipe' \in [Panes -> Attachments \cup {None}],
           \A p \in Panes : pipe'[p] <= born,
           forced' \in SUBSET Panes, manual' \in SUBSET Panes,
           exitNotified' \in SUBSET Peers,
           cancelled \subseteq cancelled', cancelled' \in SUBSET Attachments,
           told \subseteq told', told' \in SUBSET Attachments,
           used' \in [world : Worlds, disconnects : Nat, resizes : Nat],
           used'.world = used.world, used.disconnects <= used'.disconnects,
           Feeds', Sizes'
    PROVE  IInv'
<1>1. TypeOK'
  BY DEF IInv, TypeOK
<1>2. Steady
  BY DEF IInv, TypeOK, Steady
<1>3. Shapes'
  BY <1>2, ShapesKept DEF IInv, PlainCore
<1>4. Made'
  BY <1>2, MadeKept DEF IInv, PlainCore, Made
<1>5. Streams'
  BY <1>2, StreamsKept DEF IInv, PlainCore, Streams, Forgotten
<1>6. SupersededAwaited'
  BY AwaitedKept DEF IInv, PlainCore, Reports, TypeOK, Attachments, None
<1>7. CalmThreads'
  BY <1>2, CalmKept DEF IInv, PlainCore, Reports
<1>8. Reported'
  BY <1>2, ReportedKept DEF IInv, PlainCore, Reports
<1> QED
  BY <1>1, <1>3, <1>4, <1>5, <1>6, <1>7, <1>8 DEF IInv, Reports

\* A step that touches neither the bridges nor the streams.
LEMMA PlainStep ==
    ASSUME IInv, NEW t \in Threads, Others(t), th' \in [Threads -> ThreadStates], Plain(t),
           UNCHANGED <<alive, bridgeVars, sizeVars, bridges, streamDone, superseded, ended, view>>,
           exitNotified' \in SUBSET Peers,
           cancelled \subseteq cancelled', cancelled' \in SUBSET Attachments,
           told \subseteq told', told' \in SUBSET Attachments,
           used' \in [world : Worlds, disconnects : Nat, resizes : Nat],
           used'.world = used.world, used.disconnects <= used'.disconnects
    PROVE  IInv'
<1> USE DEF bridgeVars, sizeVars
<1>1. Steady
  BY DEF IInv, TypeOK, Steady
<1>2. Feeds'
  BY <1>1, FeedsKept DEF IInv, Plain
<1>3. Sizes'
  BY <1>1, SizesKept DEF IInv, Plain
<1>4. /\ bridge' \in [Attachments -> {"none", "open", "displaced", "closed"}]
      /\ pipe' \in [Panes -> Attachments \cup {None}]
      /\ \A p \in Panes : pipe'[p] <= born
      /\ forced' \in SUBSET Panes /\ manual' \in SUBSET Panes
  BY DEF IInv, TypeOK, Made
<1> QED
  BY <1>2, <1>3, <1>4, CoreStep DEF Plain

\* A step that only moves its thread.
LEMMA QuietStep ==
    ASSUME IInv, NEW t \in Threads, Others(t), th' \in [Threads -> ThreadStates], Plain(t),
           UNCHANGED <<alive, bridgeVars, sizeVars, handlerVars, mobileVars, used>>
    PROVE  IInv'
<1>1. /\ exitNotified' \in SUBSET Peers
      /\ cancelled \subseteq cancelled' /\ cancelled' \in SUBSET Attachments
      /\ told \subseteq told' /\ told' \in SUBSET Attachments
      /\ used' \in [world : Worlds, disconnects : Nat, resizes : Nat]
      /\ used'.world = used.world /\ used.disconnects <= used'.disconnects
  BY DEF IInv, TypeOK, handlerVars, mobileVars
<1> QED
  BY <1>1, PlainStep DEF handlerVars, mobileVars

\* A step of a request that leaves used alone.
ReqCore(m) ==
    /\ ReqShape(m)'
    /\ CaptureShape(Req(m))'
    /\ MadeOf(Req(m))'
    /\ ReqFrame(m)
    /\ AwaitFrame(Req(m))
    /\ Calm' => /\ th'[Req(m)].pc \in DetachStages => th'[Req(m)].ret # "idle"
                /\ th'[Req(m)].pc \in {"attached", "pre"} => bridges'[m] = th'[Req(m)].own
    /\ Replying(m) => Replying(m)'
    /\ \A s \in Attachments : Ends(Req(m), s) => Ends(Req(m), s)' \/ s \in told'

\* The same frames, for each kind of thread.
LEMMA RequestIsCore ==
    ASSUME NEW m \in Peers, ReqCore(m)
    PROVE  PlainCore(Req(m))
<1>1. ShapeOf(Req(m))'
  BY Kinds DEF ReqCore, ShapeOf
<1>2. MadeFrame(Req(m)) /\ StreamFrame(Req(m))
  BY Kinds DEF ReqCore, MadeFrame, StreamFrame
<1>3. (Calm' => CalmOf(Req(m))') /\ ReportFrame(Req(m))
  BY Kinds DEF ReqCore, CalmOf, ReportFrame
<1> QED
  BY <1>1, <1>2, <1>3 DEF PlainCore, ReqCore

ReqPlain(m) == ReqCore(m) /\ FeedFrame(Req(m)) /\ SizeFrame(Req(m))

LEMMA RequestIsPlain ==
    ASSUME NEW m \in Peers, ReqPlain(m)
    PROVE  Plain(Req(m))
BY RequestIsCore DEF ReqPlain, Plain

\* A step of a stream, which stands for itself.
StrCore(s) ==
    /\ StreamShape(s)'
    /\ CaptureShape(Str(s))'
    /\ MadeOf(Str(s))'
    /\ Runs(s)' => Runs(s)
    /\ Sleeps(Str(s))
    /\ AwaitFrame(Str(s))
    /\ Ends(Str(s), s) => Ends(Str(s), s)' \/ s \in told'

LEMMA StreamIsCore ==
    ASSUME NEW s \in Attachments, StreamShape(s), StrCore(s)
    PROVE  PlainCore(Str(s))
<1>1. ShapeOf(Str(s))'
  BY Kinds DEF StrCore, ShapeOf
<1>2. MadeFrame(Str(s)) /\ StreamFrame(Str(s))
  BY Kinds DEF StrCore, MadeFrame, StreamFrame
<1>3. (Calm' => CalmOf(Str(s))')
  BY Kinds DEF CalmOf
<1>4. \A x : Ends(Str(s), x) => x = s
  BY DEF Ends, StreamShape, DetachStages
<1>5. ReportFrame(Str(s))
  BY <1>4, Kinds DEF StrCore, ReportFrame
<1> QED
  BY <1>1, <1>2, <1>3, <1>5 DEF PlainCore, StrCore

StrPlain(s) == StrCore(s) /\ FeedFrame(Str(s)) /\ SizeFrame(Str(s))

LEMMA StreamIsPlain ==
    ASSUME NEW s \in Attachments, StreamShape(s), StrPlain(s)
    PROVE  Plain(Str(s))
BY StreamIsCore DEF StrPlain, Plain

\* A step of a watcher.
WatCore(s) ==
    /\ WatchShape(s)'
    /\ CaptureShape(Wat(s))'
    /\ MadeOf(Wat(s))'
    /\ Sleeps(Wat(s))
    /\ AwaitFrame(Wat(s))
    /\ Calm' => th'[Wat(s)].pc \in {"idle", "watch", "gone"}

LEMMA WatchIsCore ==
    ASSUME NEW s \in Attachments, WatchShape(s), WatCore(s)
    PROVE  PlainCore(Wat(s))
<1>1. ShapeOf(Wat(s))'
  BY Kinds DEF WatCore, ShapeOf
<1>2. MadeFrame(Wat(s)) /\ StreamFrame(Wat(s))
  BY Kinds DEF WatCore, MadeFrame, StreamFrame
<1>3. (Calm' => CalmOf(Wat(s))')
  BY Kinds DEF WatCore, CalmOf
<1>4. ReportFrame(Wat(s))
  BY Kinds DEF ReportFrame, Ends, WatchShape, DetachStages
<1> QED
  BY <1>1, <1>2, <1>3, <1>4 DEF PlainCore, WatCore

WatPlain(s) == WatCore(s) /\ SizeFrame(Wat(s))

LEMMA WatchIsPlain ==
    ASSUME NEW s \in Attachments, WatchShape(s), WatPlain(s)
    PROVE  Plain(Wat(s))
BY WatchIsCore DEF WatPlain, Plain, FeedFrame, WatchShape, DetachStages

\* A step of PeerDisconnected.
ByeCore(m) ==
    /\ ByeShape(m)'
    /\ CaptureShape(Bye(m))'
    /\ MadeOf(Bye(m))'
    /\ AwaitFrame(Bye(m))
    /\ Calm' => th'[Bye(m)].pc = "idle"

LEMMA ByeIsCore ==
    ASSUME NEW m \in Peers, ByeShape(m), ByeCore(m)
    PROVE  PlainCore(Bye(m))
<1>1. ShapeOf(Bye(m))'
  BY Kinds DEF ByeCore, ShapeOf
<1>2. MadeFrame(Bye(m)) /\ StreamFrame(Bye(m))
  BY Kinds DEF ByeCore, MadeFrame, StreamFrame
<1>3. (Calm' => CalmOf(Bye(m))')
  BY Kinds DEF ByeCore, CalmOf
<1>4. ReportFrame(Bye(m))
  BY Kinds DEF ReportFrame, Ends, ByeShape, DetachStages
<1> QED
  BY <1>1, <1>2, <1>3, <1>4 DEF PlainCore, ByeCore

ByePlain(m) == ByeCore(m) /\ SizeFrame(Bye(m))

LEMMA ByeIsPlain ==
    ASSUME NEW m \in Peers, ByeShape(m), ByePlain(m)
    PROVE  Plain(Bye(m))
BY ByeIsCore DEF ByePlain, Plain, FeedFrame, ByeShape, DetachStages

\* The facts of the invariant about one thread.
LEMMA ThreadInv ==
    ASSUME IInv
    PROVE  /\ \A m \in Peers : /\ ReqShape(m) /\ CaptureShape(Req(m)) /\ MadeOf(Req(m))
                               /\ ByeShape(m) /\ CaptureShape(Bye(m)) /\ MadeOf(Bye(m))
           /\ \A s \in Attachments : /\ StreamShape(s) /\ CaptureShape(Str(s)) /\ MadeOf(Str(s))
                                     /\ WatchShape(s) /\ CaptureShape(Wat(s)) /\ MadeOf(Wat(s))
           /\ \A t \in Threads : MadeOf(t) /\ CaptureShape(t)
BY Kinds DEF IInv, Shapes, Made, MadeOf

\* What a request does before it has an attachment, and when it gives one up.
LEMMA AttachStarts ==
    ASSUME IInv, NEW m \in Peers, NEW p \in Panes, Attach(m, p)
    PROVE  IInv'
<1>1. /\ Becomes(Req(m), "detach", None, p, None, None, NoPane, "track")
      /\ th[Req(m)].pc = "idle" /\ born' = born
  BY AttachEffect DEF IInv, Attach, Req, At, bridgeVars
<1>2. born \in Nat
  BY DEF IInv, TypeOK
<1>3. ReqPlain(m)
  BY <1>1, <1>2, ThreadInv
    DEF None, Becomes, ReqPlain, ReqCore, ReqShape, CaptureShape, MadeOf, ReqFrame,
     FeedFrame, SizeFrame, AwaitFrame, Stands, Entered, Settled, Vacated, Replying, Ends,
     Captured, Holding, AfterHold, Attaching, DetachStages
<1> QED
  BY <1>1, <1>3, RequestIsPlain, QuietStep, Kinds DEF Attach, Becomes

\* One lemma for each action that only moves a request.
LEMMA ResizeFailsStep ==
    ASSUME IInv, NEW m \in Peers, ResizeFails(m)
    PROVE  IInv'
<1>1. Jumps(Req(m), "attach") /\ th[Req(m)].pc = "track" /\ born' = born
  BY GotoEffect, Kinds DEF IInv, ResizeFails, Req, Places, At, bridgeVars
<1>2. ReqPlain(m)
  BY <1>1, ThreadInv
    DEF Jumps, Becomes, ReqPlain, ReqCore, ReqShape, CaptureShape, MadeOf, ReqFrame,
     FeedFrame, SizeFrame, AwaitFrame, Stands, Entered, Settled, Vacated, Replying, Ends,
     Captured, Holding, AfterHold, Attaching, DetachStages
<1> QED
  BY <1>1, <1>2, RequestIsPlain, QuietStep, Kinds DEF ResizeFails, Jumps, Becomes

LEMMA AttachFailsStep ==
    ASSUME IInv, NEW m \in Peers, AttachFails(m)
    PROVE  IInv'
<1> DEFINE r == th[Req(m)]
<1>1. /\ Becomes(Req(m), "release", r.own, r.want, r.att, r.done, r.rel, "failed")
      /\ r.pc = "attach" /\ born' = born
  BY AttachFailsEffect DEF IInv, AttachFails, Req, At, bridgeVars
<1>2. ReqPlain(m)
  BY <1>1, ThreadInv DEF Becomes, ReqPlain, ReqCore, ReqShape, CaptureShape, MadeOf, ReqFrame,
     FeedFrame, SizeFrame, AwaitFrame, Stands, Entered, Settled, Vacated, Replying, Ends,
     Captured, Holding, AfterHold, Attaching, DetachStages
<1> QED
  BY <1>1, <1>2, RequestIsPlain, QuietStep, Kinds DEF AttachFails, Becomes

\* failPreStream: the request ends its own stream, or finds that another thread does.
LEMMA PreStreamFailsStep ==
    ASSUME IInv, NEW m \in Peers, PreStreamFails(m)
    PROVE  IInv'
<1> DEFINE r == th[Req(m)]
<1>1. r.pc = "pre" /\ born' = born
  BY DEF PreStreamFails, Req, At, bridgeVars
<1>2. \/ Jumps(Req(m), "end")
      \/ Becomes(Req(m), "detach", r.own, r.want, r.att, r.done, r.rel, "notice")
  BY GotoEffect, CallEffect, Kinds DEF IInv, PreStreamFails, Req, Places, Returning
<1>3. ReqPlain(m)
  BY <1>1, <1>2, ThreadInv
    DEF Jumps, Becomes, ReqPlain, ReqCore, ReqShape, CaptureShape, MadeOf, ReqFrame,
     FeedFrame, SizeFrame, AwaitFrame, Stands, Entered, Settled, Vacated, Replying, Ends,
     Captured, Holding, AfterHold, Attaching, DetachStages
<1> QED
  BY <1>2, <1>3, RequestIsPlain, QuietStep, Kinds DEF PreStreamFails, Jumps, Becomes

LEMMA DetachRequestStep ==
    ASSUME IInv, NEW m \in Peers, DetachRequest(m)
    PROVE  IInv'
<1> DEFINE r == th[Req(m)]
<1>1. /\ Becomes(Req(m), "detach", r.own, r.want, r.att, r.done, r.rel, "detached")
      /\ r.pc = "idle" /\ born' = born
  BY CallEffect, Kinds DEF IInv, DetachRequest, Req, Returning, At, bridgeVars
<1>2. ReqPlain(m)
  BY <1>1, ThreadInv DEF Becomes, ReqPlain, ReqCore, ReqShape, CaptureShape, MadeOf, ReqFrame,
     FeedFrame, SizeFrame, AwaitFrame, Stands, Entered, Settled, Vacated, Replying, Ends,
     Captured, Holding, AfterHold, Attaching, DetachStages
<1> QED
  BY <1>1, <1>2, RequestIsPlain, QuietStep, Kinds DEF DetachRequest, Becomes

\* list_sessions detaches only when a pane has exited.
LEMMA ListFindsPaneGoneStep ==
    ASSUME IInv, NEW m \in Peers, ListFindsPaneGone(m)
    PROVE  IInv'
<1> DEFINE r == th[Req(m)]
<1>1. /\ Becomes(Req(m), "detach", r.own, r.want, r.att, r.done, r.rel, "idle")
      /\ r.pc = "idle" /\ born' = born
  BY CallEffect, Kinds DEF IInv, ListFindsPaneGone, Req, Returning, At, bridgeVars
<1>2. ~Calm'
  <2>1. bridges[m] \in Attachments /\ bridges[m] <= born
    BY DEF ListFindsPaneGone, IInv, TypeOK, Made
  <2> QED
    BY <2>1 DEF ListFindsPaneGone, IInv, Made, Calm
<1>3. ReqPlain(m)
  BY <1>1, <1>2, ThreadInv DEF Becomes, ReqPlain, ReqCore, ReqShape, CaptureShape, MadeOf, ReqFrame,
     FeedFrame, SizeFrame, AwaitFrame, Stands, Entered, Settled, Vacated, Replying, Ends,
     Captured, Holding, AfterHold, Attaching, DetachStages
<1>4. /\ exitNotified' \in SUBSET Peers
      /\ cancelled \subseteq cancelled' /\ cancelled' \in SUBSET Attachments
      /\ told \subseteq told' /\ told' \in SUBSET Attachments
      /\ used' \in [world : Worlds, disconnects : Nat, resizes : Nat]
      /\ used'.world = used.world /\ used.disconnects <= used'.disconnects
  BY DEF IInv, TypeOK, ListFindsPaneGone, TellClosed, handlerVars
<1> QED
  BY <1>1, <1>3, <1>4, RequestIsPlain, PlainStep, Kinds
  DEF ListFindsPaneGone, TellClosed, Becomes, handlerVars

LEMMA ResizeRequestStep ==
    ASSUME IInv, NEW m \in Peers, ResizeRequest(m)
    PROVE  IInv'
<1>1. /\ Becomes(Req(m), "resize", None, NoPane, bridges[m], None, NoPane, "idle")
      /\ th[Req(m)].pc = "idle" /\ born' = born
  BY ResizeRequestEffect DEF IInv, ResizeRequest, Req, At, bridgeVars
<1>2. /\ born \in Nat /\ bridges[m] <= born
      /\ used' \in [world : Worlds, disconnects : Nat, resizes : Nat]
      /\ used'.world = used.world /\ used.disconnects <= used'.disconnects
  BY DEF ResizeRequest, IInv, TypeOK, Made
<1>3. ~Unresized
  BY DEF ResizeRequest, IInv, TypeOK, Unresized
<1>4. ReqPlain(m)
  BY <1>1, <1>2, <1>3, ThreadInv
    DEF None, Becomes, ReqPlain, ReqCore, ReqShape, CaptureShape, MadeOf, ReqFrame,
     FeedFrame, SizeFrame, AwaitFrame, Stands, Entered, Settled, Vacated, Replying, Ends,
     Captured, Holding, AfterHold, Attaching, DetachStages
<1> QED
  BY <1>1, <1>2, <1>4, RequestIsPlain, PlainStep, Kinds
    DEF ResizeRequest, Becomes, handlerVars, mobileVars, IInv, TypeOK

\* PeerDisconnected begins.
LEMMA PeerDisconnectedStep ==
    ASSUME IInv, NEW m \in Peers, PeerDisconnected(m)
    PROVE  IInv'
<1> DEFINE r == th[Bye(m)]
<1>1. /\ Becomes(Bye(m), "detach", r.own, r.want, r.att, r.done, r.rel, "idle")
      /\ r.pc = "idle" /\ born' = born
  BY CallEffect, Kinds DEF IInv, PeerDisconnected, Bye, Returning, At, bridgeVars
<1>2. /\ used' \in [world : Worlds, disconnects : Nat, resizes : Nat]
      /\ used'.world = used.world /\ used.disconnects <= used'.disconnects /\ ~Calm'
  BY DEF PeerDisconnected, IInv, TypeOK, Calm
<1>3. ByePlain(m)
  BY <1>1, <1>2, ThreadInv
    DEF Becomes, ByePlain, ByeCore, ByeShape, CaptureShape, MadeOf, SizeFrame,
     AwaitFrame, Captured, Holding, DetachStages
<1> QED
  BY <1>1, <1>2, <1>3, ThreadInv, ByeIsPlain, PlainStep, Kinds
  DEF PeerDisconnected, Becomes, handlerVars, mobileVars, IInv, TypeOK

-----------------------------------------------------------------------------
(* The stream and the watcher.                                              *)

\* One lemma for each action of the stream's loop.
LEMMA CheckContextStep ==
    ASSUME IInv, NEW s \in Attachments, CheckContext(s)
    PROVE  IInv'
<1> DEFINE r == th[Str(s)]
<1>1. r.pc = "check" /\ born' = born
  BY DEF CheckContext, Str, At, bridgeVars
<1>2. Jumps(Str(s), "end") \/ Jumps(Str(s), "read")
  BY GotoEffect, Kinds DEF IInv, CheckContext, Str, Places
<1>3. StrPlain(s)
  BY <1>1, <1>2, ThreadInv
    DEF Jumps, Becomes, StrPlain, StrCore, StreamShape, CaptureShape, MadeOf, Runs, Sleeps,
     FeedFrame, SizeFrame, AwaitFrame, Ends, Captured, Holding, DetachStages
<1> QED
  BY <1>2, <1>3, ThreadInv, StreamIsPlain, QuietStep, Kinds DEF CheckContext, Jumps, Becomes

LEMMA ReadDataStep ==
    ASSUME IInv, NEW s \in Attachments, ReadData(s)
    PROVE  IInv'
<1> DEFINE r == th[Str(s)]
<1>1. r.pc = "read" /\ born' = born
  BY DEF ReadData, Str, At, bridgeVars
<1>2. Jumps(Str(s), "end") \/ Jumps(Str(s), "send") \/ Jumps(Str(s), "check")
  BY GotoEffect, Kinds DEF IInv, ReadData, Str, Places
<1>3. StrPlain(s)
  BY <1>1, <1>2, ThreadInv
    DEF Jumps, Becomes, StrPlain, StrCore, StreamShape, CaptureShape, MadeOf, Runs, Sleeps,
     FeedFrame, SizeFrame, AwaitFrame, Ends, Captured, Holding, DetachStages
<1> QED
  BY <1>2, <1>3, ThreadInv, StreamIsPlain, QuietStep, Kinds DEF ReadData, Jumps, Becomes

\* A read that fails finds the context canceled or the bridge displaced.
LEMMA ReadFailsStep ==
    ASSUME IInv, NEW s \in Attachments, ReadFails(s)
    PROVE  IInv'
<1> DEFINE r == th[Str(s)]
<1>1. r.pc = "read" /\ born' = born
  BY DEF ReadFails, Str, At, bridgeVars
<1>2. \/ Jumps(Str(s), "end")
      \/ Becomes(Str(s), "detach", r.own, r.want, r.att, r.done, r.rel, "notice")
  BY GotoEffect, CallEffect, Kinds DEF IInv, Feeds, ReadFails, Str, Places, Returning
<1>3. StrPlain(s)
  BY <1>1, <1>2, ThreadInv
    DEF Jumps, Becomes, StrPlain, StrCore, StreamShape, CaptureShape, MadeOf, Runs, Sleeps,
     FeedFrame, SizeFrame, AwaitFrame, Ends, Captured, Holding, DetachStages
<1> QED
  BY <1>2, <1>3, ThreadInv, StreamIsPlain, QuietStep, Kinds DEF ReadFails, Jumps, Becomes

LEMMA SendOutputStep ==
    ASSUME IInv, NEW s \in Attachments, SendOutput(s)
    PROVE  IInv'
<1> DEFINE r == th[Str(s)]
<1>1. r.pc = "send" /\ born' = born
  BY DEF SendOutput, Str, At, bridgeVars
<1>2. Jumps(Str(s), "check")
  BY GotoEffect, Kinds DEF IInv, SendOutput, Str, Places
<1>3. StrPlain(s)
  BY <1>1, <1>2, ThreadInv
    DEF Jumps, Becomes, StrPlain, StrCore, StreamShape, CaptureShape, MadeOf, Runs, Sleeps,
     FeedFrame, SizeFrame, AwaitFrame, Ends, Captured, Holding, DetachStages
<1> QED
  BY <1>2, <1>3, ThreadInv, StreamIsPlain, QuietStep, Kinds DEF SendOutput, Jumps, Becomes

LEMMA SendFailsStep ==
    ASSUME IInv, NEW s \in Attachments, SendFails(s)
    PROVE  IInv'
<1> DEFINE r == th[Str(s)]
<1>1. r.pc = "send" /\ born' = born
  BY DEF SendFails, Str, At, bridgeVars
<1>2. \/ Jumps(Str(s), "end")
      \/ Becomes(Str(s), "detach", r.own, r.want, r.att, r.done, r.rel, "notice")
  BY GotoEffect, CallEffect, Kinds DEF IInv, SendFails, Str, Places, Returning
<1>3. StrPlain(s)
  BY <1>1, <1>2, ThreadInv
    DEF Jumps, Becomes, StrPlain, StrCore, StreamShape, CaptureShape, MadeOf, Runs, Sleeps,
     FeedFrame, SizeFrame, AwaitFrame, Ends, Captured, Holding, DetachStages
<1> QED
  BY <1>2, <1>3, ThreadInv, StreamIsPlain, QuietStep, Kinds DEF SendFails, Jumps, Becomes

\* The watcher's own steps.
LEMMA WatchStopsStep ==
    ASSUME IInv, NEW s \in Attachments, WatchStops(s)
    PROVE  IInv'
<1>1. /\ Becomes(Wat(s), "gone", None, NoPane, None, None, NoPane, "idle")
      /\ th[Wat(s)].pc = "watch" /\ born' = born
  BY BlankEffect, Kinds DEF IInv, WatchStops, Wat, Places, At, bridgeVars
<1>2. born \in Nat
  BY DEF IInv, TypeOK
<1>3. WatPlain(s)
  BY <1>1, <1>2, ThreadInv
    DEF None, Becomes, WatPlain, WatCore, WatchShape, CaptureShape, MadeOf, Sleeps, SizeFrame,
     AwaitFrame, Captured, Holding, DetachStages
<1> QED
  BY <1>1, <1>3, ThreadInv, WatchIsPlain, QuietStep, Kinds DEF WatchStops, Becomes

LEMMA WatchTickStep ==
    ASSUME IInv, NEW s \in Attachments, WatchTick(s)
    PROVE  IInv'
<1> DEFINE r == th[Wat(s)]
<1>1. /\ Becomes(Wat(s), "exit", r.own, r.want, r.att, r.done, r.rel, "gone")
      /\ r.pc = "watch" /\ born' = born
  BY WatchTickEffect DEF IInv, WatchTick, Wat, At, bridgeVars
<1>2. ~Calm'
  <2>1. s <= born
    BY <1>1 DEF IInv, Made, TypeOK, Attachments
  <2> QED
    BY <2>1 DEF WatchTick, IInv, Made, Calm
<1>3. WatPlain(s)
  BY <1>1, <1>2, ThreadInv
    DEF Becomes, WatPlain, WatCore, WatchShape, CaptureShape, MadeOf, Sleeps, SizeFrame,
     AwaitFrame, Captured, Holding, DetachStages
<1> QED
  BY <1>1, <1>3, ThreadInv, WatchIsPlain, QuietStep, Kinds DEF WatchTick, Becomes

-----------------------------------------------------------------------------
(* detachPeerWait after its hold of h.mu.                                   *)

\* A move to the next stage, which changes nothing a mobile or a window depends on.
LEMMA DetachMoves ==
    ASSUME IInv, NEW t \in Threads, NEW pc, Jumps(t, pc), CaptureShape(t)', born' = born,
           UNCHANGED <<alive, used, bridges>>,
           \/ th[t].pc = "cancel" /\ pc = "close"
           \/ th[t].pc = "close" /\ pc = "pipe"
           \/ th[t].pc = "pipe" /\ pc = "wait"
           \/ th[t].pc = "release" /\ pc = "clear"
    PROVE  PlainCore(t) /\ FeedFrame(t)
<1>1. Calm' = Calm
  BY DEF Calm
<1>2. ASSUME NEW m \in Peers, t = Req(m) PROVE ReqCore(m)
  <2>1. Calm => (th[t].pc \in DetachStages => th[t].ret # "idle")
    BY <1>2 DEF IInv, Reports, CalmThreads
  <2> QED
    BY <1>1, <1>2, <2>1, ThreadInv DEF Jumps, Becomes, ReqCore, ReqShape, MadeOf, ReqFrame,
       AwaitFrame, Stands, Entered, Settled, Vacated, Replying, Ends, Captured, Holding, AfterHold,
       Attaching, DetachStages
<1>3. ASSUME NEW m \in Peers, t = Bye(m) PROVE ByeCore(m)
  <2>1. Calm => th[t].pc = "idle"
    BY <1>3 DEF IInv, Reports, CalmThreads
  <2> QED
    BY <1>1, <1>3, <2>1, ThreadInv DEF Jumps, Becomes, ByeCore, ByeShape, MadeOf, AwaitFrame,
       Captured, DetachStages
<1>4. ASSUME NEW s \in Attachments, t = Str(s) PROVE StrCore(s)
  BY <1>4, ThreadInv DEF Jumps, Becomes, StrCore, StreamShape, MadeOf, Runs, Sleeps, AwaitFrame,
     Ends, Captured, DetachStages
<1>5. ASSUME NEW s \in Attachments, t = Wat(s) PROVE WatCore(s)
  <2>1. Calm => th[t].pc \in {"idle", "watch", "gone"}
    BY <1>5 DEF IInv, Reports, CalmThreads
  <2> QED
    BY <1>1, <1>5, <2>1, ThreadInv DEF Jumps, Becomes, WatCore, WatchShape, MadeOf, Sleeps,
       AwaitFrame, Captured, DetachStages
<1>6. PlainCore(t)
  BY <1>2, <1>3, <1>4, <1>5, Kinds, ThreadInv, RequestIsCore, ByeIsCore, StreamIsCore, WatchIsCore
<1> QED
  BY <1>6 DEF FeedFrame

\* The return from a detach, or from a handlePaneExit that found nothing to do.
LEMMA ReturnMoves ==
    ASSUME IInv, NEW t \in Threads, th[t].pc \in {"release", "clear", "exit"}, born' = born,
           Becomes(t, th[t].ret, th[t].own, th[t].want, None, None, NoPane, "idle")
    PROVE  PlainCore(t) /\ FeedFrame(t)
<1> USE DEF None
<1>1. born \in Nat /\ CaptureShape(t)'
  BY ThreadFields DEF IInv, TypeOK, CaptureShape, Becomes, Captured, Returning
<1>2. ASSUME NEW m \in Peers, t = Req(m) PROVE ReqCore(m)
  BY <1>1, <1>2, ThreadInv DEF Becomes, ReqCore, ReqShape, MadeOf, ReqFrame,
     AwaitFrame, Stands, Entered, Settled, Vacated, Replying, Ends, Captured, Holding, AfterHold,
     Attaching, DetachStages
<1>3. ASSUME NEW m \in Peers, t = Bye(m) PROVE ByeCore(m)
  BY <1>1, <1>3, ThreadInv DEF Becomes, ByeCore, ByeShape, MadeOf, AwaitFrame,
     Captured, DetachStages
<1>4. ASSUME NEW s \in Attachments, t = Str(s) PROVE StrCore(s)
  BY <1>1, <1>4, ThreadInv DEF Becomes, StrCore, StreamShape, MadeOf, Runs, Sleeps, AwaitFrame,
     Ends, Captured, DetachStages
<1>5. ASSUME NEW s \in Attachments, t = Wat(s) PROVE WatCore(s)
  BY <1>1, <1>5, ThreadInv DEF Becomes, WatCore, WatchShape, MadeOf, Sleeps,
     AwaitFrame, Captured, DetachStages
<1>6. PlainCore(t)
  BY <1>2, <1>3, <1>4, <1>5, Kinds, ThreadInv, RequestIsCore, ByeIsCore, StreamIsCore, WatchIsCore
<1> QED
  BY <1>6 DEF FeedFrame

\* The detach cancels the stream's context.
LEMMA CancelStep ==
    ASSUME IInv, NEW t \in Threads, Cancel(t)
    PROVE  IInv'
<1>1. Jumps(t, "close") /\ th[t].pc = "cancel"
  BY GotoEffect DEF IInv, Cancel, Places, DetachStages, At
<1>2. th[t].att \in Attachments
  BY <1>1, ThreadFields, ThreadInv DEF CaptureShape, IInv
<1>3. CaptureShape(t)'
  BY <1>1, <1>2, ThreadInv DEF CaptureShape, Jumps, Becomes, Captured, Cancel, PeerOf, bridgeVars
<1>4. PlainCore(t) /\ FeedFrame(t)
  BY <1>1, <1>3, DetachMoves DEF Cancel, bridgeVars
<1>5. Plain(t)
  BY <1>1, <1>4 DEF Plain, SizeFrame, Jumps, Becomes, Holding, Captured
<1>6. /\ exitNotified' \in SUBSET Peers
      /\ cancelled \subseteq cancelled' /\ cancelled' \in SUBSET Attachments
      /\ told \subseteq told' /\ told' \in SUBSET Attachments
      /\ used' \in [world : Worlds, disconnects : Nat, resizes : Nat]
      /\ used'.world = used.world /\ used.disconnects <= used'.disconnects
  BY <1>2 DEF IInv, TypeOK, Cancel, mobileVars
<1> QED
  BY <1>1, <1>5, <1>6, PlainStep DEF Cancel, Jumps, Becomes, mobileVars

\* The types that a step keeps which leaves the handler and the mobile alone.
LEMMA RestTyped ==
    ASSUME TypeOK, UNCHANGED <<handlerVars, mobileVars, used>>
    PROVE  /\ exitNotified' \in SUBSET Peers
           /\ cancelled \subseteq cancelled' /\ cancelled' \in SUBSET Attachments
           /\ told \subseteq told' /\ told' \in SUBSET Attachments
           /\ used' \in [world : Worlds, disconnects : Nat, resizes : Nat]
           /\ used'.world = used.world /\ used.disconnects <= used'.disconnects
BY DEF TypeOK, handlerVars, mobileVars

\* A step on bridges and pipes.
LEMMA BridgeStep ==
    ASSUME IInv, NEW t \in Threads, Others(t), th' \in [Threads -> ThreadStates], PlainCore(t),
           SizeFrame(t),
           UNCHANGED <<alive, born, owner, pane, sizeVars, handlerVars, mobileVars, used>>,
           bridge' \in [Attachments -> {"none", "open", "displaced", "closed"}],
           \A s \in Attachments : (bridge[s] = "closed" \/ s > born) => bridge'[s] = bridge[s],
           pipe' \in [Panes -> Attachments \cup {None}],
           \A p \in Panes : pipe'[p] <= born,
           Feeds'
    PROVE  IInv'
<1>1. Steady
  BY DEF IInv, TypeOK, Steady, handlerVars
<1>2. Sizes'
  BY <1>1, SizesKept DEF IInv, sizeVars, handlerVars
<1>3. forced' \in SUBSET Panes /\ manual' \in SUBSET Panes
  BY DEF IInv, TypeOK, sizeVars
<1>4. TypeOK
  BY DEF IInv
<1> QED
  BY <1>2, <1>3, <1>4, RestTyped, CoreStep DEF handlerVars, mobileVars

\* The detach closes the bridge it took: the context was cancelled before.
LEMMA CloseBridgeStep ==
    ASSUME IInv, NEW t \in Threads, CloseBridge(t)
    PROVE  IInv'
<1> DEFINE a == th[t].att
<1>1. Jumps(t, "pipe") /\ th[t].pc = "close"
  BY GotoEffect DEF IInv, CloseBridge, Places, DetachStages, At
<1>2. a \in Attachments /\ a \in cancelled /\ a <= born
  BY <1>1, ThreadFields, ThreadInv DEF CaptureShape, IInv, MadeOf
<1>3. bridge' = [bridge EXCEPT ![a] = "closed"] /\ UNCHANGED <<pane, pipe, cancelled>>
  BY DEF CloseBridge, handlerVars
<1>4. bridge \in [Attachments -> {"none", "open", "displaced", "closed"}] /\ born \in Nat
  BY DEF IInv, TypeOK
<1>5. CaptureShape(t)'
  BY <1>1, <1>2, <1>3, <1>4, ThreadInv
  DEF CaptureShape, Jumps, Becomes, Captured, CloseBridge, PeerOf
<1>6. PlainCore(t) /\ FeedFrame(t)
  BY <1>1, <1>5, DetachMoves DEF CloseBridge, handlerVars
<1>7. SizeFrame(t)
  BY <1>1 DEF SizeFrame, Jumps, Becomes, Holding, Captured
<1>8. Feeds'
  <2>1. \A o \in Peers : th[Req(o)].pc = "displace" =>
           th'[Req(o)].pc = "displace" /\ th'[Req(o)].att = th[Req(o)].att
    BY <1>1, <1>6, Kinds DEF Jumps, Becomes, Others, FeedFrame
  <2>2. \A s \in Attachments : bridge'[s] = IF s = a THEN "closed" ELSE bridge[s]
    BY <1>3, <1>4
  <2> QED
    BY <1>2, <1>3, <2>1, <2>2 DEF IInv, Feeds
<1>9. /\ bridge' \in [Attachments -> {"none", "open", "displaced", "closed"}]
      /\ \A s \in Attachments : (bridge[s] = "closed" \/ s > born) => bridge'[s] = bridge[s]
      /\ pipe' \in [Panes -> Attachments \cup {None}]
      /\ \A p \in Panes : pipe'[p] <= born
  <2>1. \A s \in Attachments : s > born => s # a
    BY <1>2, <1>4 DEF Attachments
  <2>2. /\ bridge' \in [Attachments -> {"none", "open", "displaced", "closed"}]
        /\ \A s \in Attachments : (bridge[s] = "closed" \/ s > born) => bridge'[s] = bridge[s]
    BY <1>2, <1>3, <1>4, <2>1
  <2>3. pipe' \in [Panes -> Attachments \cup {None}] /\ \A p \in Panes : pipe'[p] <= born
    BY <1>3 DEF IInv, TypeOK, Made
  <2> QED
    BY <2>2, <2>3
<1> QED
  BY <1>1, <1>6, <1>7, <1>8, <1>9, BridgeStep DEF CloseBridge, Jumps, Becomes

\* A pipe is turned off by its owner alone, whose bridge is closed by then.
LEMMA ReleasePipeStep ==
    ASSUME IInv, NEW t \in Threads, ReleasePipe(t)
    PROVE  IInv'
<1> DEFINE a == th[t].att
<1>1. Jumps(t, "wait") /\ th[t].pc = "pipe"
  BY GotoEffect DEF IInv, ReleasePipe, Places, DetachStages, At
<1>2. a \in Attachments /\ bridge[a] = "closed" /\ a <= born
  BY <1>1, ThreadFields, ThreadInv DEF CaptureShape, IInv, MadeOf
<1>3. /\ pipe' = [pipe EXCEPT ![pane[a]] = IF pipe[pane[a]] = a THEN None ELSE pipe[pane[a]]]
      /\ UNCHANGED <<pane, bridge, cancelled, owner>>
  BY DEF ReleasePipe, PipeAfterClose, handlerVars
<1>4. pipe \in [Panes -> Attachments \cup {None}] /\ born \in Nat
  BY DEF IInv, TypeOK
<1>5. pane[a] \in Panes
  BY <1>2, AttachAssumption DEF IInv, TypeOK, Made
<1>6. \A p \in Panes : pipe'[p] = IF p = pane[a] /\ pipe[p] = a THEN None ELSE pipe[p]
  BY <1>3, <1>4, <1>5
<1>7. CaptureShape(t)'
  BY <1>1, <1>3, ThreadInv DEF CaptureShape, Jumps, Becomes, Captured, PeerOf
<1>8. PlainCore(t) /\ FeedFrame(t)
  BY <1>1, <1>7, DetachMoves DEF ReleasePipe, handlerVars
<1>9. SizeFrame(t)
  BY <1>1 DEF SizeFrame, Jumps, Becomes, Holding, Captured
<1>10. Feeds'
  <2>1. \A o \in Peers : th[Req(o)].pc = "displace" =>
           th'[Req(o)].pc = "displace" /\ th'[Req(o)].att = th[Req(o)].att
    BY <1>1, <1>8, Kinds DEF Jumps, Becomes, Others, FeedFrame
  <2>2. \A s \in Attachments : bridge[s] = "open" => s # a /\ pane[s] \in Panes
    BY <1>2, AttachAssumption DEF IInv, TypeOK, Made, Attachments
  <2>3. ASSUME NEW s \in Attachments, bridge[s] = "open" PROVE
          \/ pipe'[pane[s]] = s
          \/ \E o \in Peers : th'[Req(o)].pc = "displace" /\ th'[Req(o)].att = s
    <3>1. \/ pipe[pane[s]] = s
          \/ \E o \in Peers : th[Req(o)].pc = "displace" /\ th[Req(o)].att = s
      BY <2>3 DEF IInv, Feeds
    <3> QED
      BY <1>6, <2>1, <2>2, <2>3, <3>1
  <2>4. \A p \in Panes : pipe'[p] # None => pane[pipe'[p]] = p
    BY <1>6 DEF IInv, Feeds
  <2> QED
    BY <1>3, <2>3, <2>4 DEF IInv, Feeds
<1>11. /\ bridge' \in [Attachments -> {"none", "open", "displaced", "closed"}]
       /\ \A s \in Attachments : (bridge[s] = "closed" \/ s > born) => bridge'[s] = bridge[s]
       /\ pipe' \in [Panes -> Attachments \cup {None}]
       /\ \A p \in Panes : pipe'[p] <= born
  BY <1>2, <1>3, <1>4, <1>5, <1>6 DEF IInv, TypeOK, Made, None
<1> QED
  BY <1>1, <1>8, <1>9, <1>10, <1>11, BridgeStep DEF ReleasePipe, Jumps, Becomes

\* A step on window sizes.
LEMMA WindowStep ==
    ASSUME IInv, NEW t \in Threads, Others(t), th' \in [Threads -> ThreadStates], PlainCore(t),
           FeedFrame(t), UNCHANGED <<alive, bridgeVars, handlerVars, mobileVars, used>>,
           forced' \in SUBSET Panes, manual' \in SUBSET Panes, Sizes'
    PROVE  IInv'
<1> USE DEF bridgeVars
<1>1. Steady
  BY DEF IInv, TypeOK, Steady, handlerVars
<1>2. Feeds'
  BY <1>1, FeedsKept DEF IInv
<1>3. /\ bridge' \in [Attachments -> {"none", "open", "displaced", "closed"}]
      /\ pipe' \in [Panes -> Attachments \cup {None}]
      /\ \A p \in Panes : pipe'[p] <= born
  BY DEF IInv, TypeOK, Made
<1>4. TypeOK
  BY DEF IInv
<1> QED
  BY <1>2, <1>3, <1>4, RestTyped, CoreStep DEF handlerVars, mobileVars

\* Who releases a pane still does, unless it is the thread that moves.
LEMMA ReleaseKept ==
    ASSUME TypeOK, NEW t \in Threads, Others(t), NEW p, WillRelease(p), UNCHANGED <<bridges, pane>>,
           \/ th[t].pc \notin Holding \cup {"attach", "displace", "insert"}
           \/ th[t].pc \in Holding \cup {"attach"} /\ th[t].rel # p
    PROVE  WillRelease(p)'
<1>1. CASE \E m \in Peers : bridges[m] # None /\ pane[bridges[m]] = p
  BY <1>1 DEF WillRelease
<1>2. CASE \E u \in Threads : th[u].pc \in Holding \cup {"attach"} /\ th[u].rel = p
  BY <1>2 DEF WillRelease, Others, Holding, Captured
<1>3. CASE \E m \in Peers : th[Req(m)].pc \in {"displace", "insert"} /\ th[Req(m)].want = p
  <2>1. PICK m \in Peers : th[Req(m)].pc \in {"displace", "insert"} /\ th[Req(m)].want = p
    BY <1>3
  <2>2. th'[Req(m)] = th[Req(m)]
    BY <2>1, Kinds DEF Others, Holding, Captured
  <2> QED
    BY <2>1, <2>2 DEF WillRelease
<1> QED
  BY <1>1, <1>2, <1>3 DEF WillRelease

\* The pane is released when its override was ours: the clear is then in hand.
LEMMA ReleaseIfForcedStep ==
    ASSUME IInv, NEW t \in Threads, ReleaseIfForced(t)
    PROVE  IInv'
<1>1. th[t].pc = "release" /\ forced' = forced \ {th[t].rel} /\ UNCHANGED <<manual, bridges, pane, used, born>>
  BY DEF ReleaseIfForced, At, handlerVars, bridgeVars
<1>2. \/ th[t].rel \in forced /\ Jumps(t, "clear")
      \/ /\ th[t].rel \notin forced
         /\ Becomes(t, th[t].ret, th[t].own, th[t].want, None, None, NoPane, "idle")
  BY GotoEffect, ReturnEffect DEF IInv, ReleaseIfForced, Places, DetachStages
<1>3. Others(t) /\ th' \in [Threads -> ThreadStates]
  BY <1>2 DEF Jumps, Becomes
<1>4. PlainCore(t) /\ FeedFrame(t)
  <2>1. CASE Jumps(t, "clear")
    <3>1. CaptureShape(t)'
      BY <2>1 DEF Jumps, Becomes, CaptureShape, Captured
    <3> QED
      BY <1>1, <2>1, <3>1, DetachMoves DEF ReleaseIfForced, handlerVars
  <2>2. CASE Becomes(t, th[t].ret, th[t].own, th[t].want, None, None, NoPane, "idle")
    BY <1>1, <2>2, ReturnMoves
  <2> QED
    BY <1>2, <2>1, <2>2
<1>5. Sizes'
  <2>1. Unresized' => Unresized
    BY <1>1 DEF Unresized
  <2>2. \A m \in Peers : Unresized => th'[Req(m)].pc # "resize"
    <3>1. th'[t].pc # "resize"
      BY <1>2, ThreadFields DEF IInv, Jumps, Becomes, Returning
    <3> QED
      BY <1>3, <3>1, Kinds DEF Others, IInv, Sizes
  <2>3. ASSUME Unresized, NEW p \in manual PROVE p \in forced' \/ SizeInHand(p)'
    <3>1. CASE SizeInHand(p)
      BY <1>1, <1>3, <3>1 DEF SizeInHand, Others
    <3>2. CASE p \in forced /\ p = th[t].rel
      BY <1>2, <3>2 DEF SizeInHand, Jumps, Becomes
    <3> QED
      BY <1>1, <2>3, <3>1, <3>2 DEF IInv, Sizes
  <2>4. \A p \in forced' : WillRelease(p)'
    BY <1>1, <1>3, ReleaseKept DEF IInv, Sizes, Holding
  <2> QED
    BY <1>1, <2>1, <2>2, <2>3, <2>4 DEF Sizes
<1>6. forced' \in SUBSET Panes /\ manual' \in SUBSET Panes
  BY <1>1 DEF IInv, TypeOK
<1> QED
  BY <1>3, <1>4, <1>5, <1>6, WindowStep DEF ReleaseIfForced

\* The override is cleared: the window is no longer manual.
LEMMA ClearOverrideStep ==
    ASSUME IInv, NEW t \in Threads, ClearOverride(t)
    PROVE  IInv'
<1>1. /\ th[t].pc = "clear" /\ manual' = manual \ {th[t].rel}
      /\ UNCHANGED <<forced, bridges, pane, used, born>>
  BY DEF ClearOverride, At, handlerVars, bridgeVars
<1>2. Becomes(t, th[t].ret, th[t].own, th[t].want, None, None, NoPane, "idle")
  BY ReturnEffect DEF IInv, ClearOverride
<1>3. Others(t) /\ th' \in [Threads -> ThreadStates]
  BY <1>2 DEF Becomes
<1>4. PlainCore(t) /\ FeedFrame(t)
  BY <1>1, <1>2, ReturnMoves
<1>5. Sizes'
  <2>1. Unresized' => Unresized
    BY <1>1 DEF Unresized
  <2>2. \A m \in Peers : Unresized => th'[Req(m)].pc # "resize"
    <3>1. th'[t].pc # "resize"
      BY <1>2, ThreadFields DEF IInv, Becomes, Returning
    <3> QED
      BY <1>3, <3>1, Kinds DEF Others, IInv, Sizes
  <2>3. ASSUME Unresized, NEW p \in manual' PROVE p \in forced' \/ SizeInHand(p)'
    <3>1. p \in forced \/ SizeInHand(p)
      BY <1>1, <2>3 DEF IInv, Sizes
    <3> QED
      BY <1>1, <1>3, <2>3, <3>1 DEF SizeInHand, Others
  <2>4. \A p \in forced' : WillRelease(p)'
    BY <1>1, <1>3, ReleaseKept DEF IInv, Sizes, Holding, Captured
  <2> QED
    BY <2>1, <2>2, <2>3, <2>4 DEF Sizes
<1>6. forced' \in SUBSET Panes /\ manual' \in SUBSET Panes
  BY <1>1 DEF IInv, TypeOK
<1> QED
  BY <1>3, <1>4, <1>5, <1>6, WindowStep DEF ClearOverride

-----------------------------------------------------------------------------
(* An attach resizes the window before it takes the pane.                   *)

\* The attach pins the window; its mark is in hand.
LEMMA ResizeStep ==
    ASSUME IInv, NEW m \in Peers, Resize(m)
    PROVE  IInv'
<1> DEFINE t == Req(m)
           p == th[t].want
<1>1. /\ t \in Threads /\ th[t].pc = "track" /\ p \in Panes
      /\ manual' = manual \cup {p}
      /\ UNCHANGED <<forced, bridges, pane, used, born>>
  BY Kinds DEF Resize, Req, At, handlerVars, bridgeVars, IInv, TypeOK
<1>2. Jumps(t, "mark")
  BY <1>1, GotoEffect DEF IInv, Resize, Req, Places
<1>3. ReqCore(m)
  BY <1>1, <1>2, ThreadInv DEF Jumps, Becomes, ReqCore, ReqShape, CaptureShape, MadeOf, ReqFrame,
     AwaitFrame, Stands, Entered, Settled, Vacated, Replying, Ends,
     Captured, Holding, AfterHold, Attaching, DetachStages
<1>4. Others(t) /\ th' \in [Threads -> ThreadStates] /\ FeedFrame(t)
  BY <1>1, <1>2 DEF Jumps, Becomes, FeedFrame
<1>5. Sizes'
  <2>1. Unresized' => Unresized
    BY <1>1 DEF Unresized
  <2>2. \A n \in Peers : Unresized => th'[Req(n)].pc # "resize"
    BY <1>2, <1>4, Kinds DEF Others, IInv, Sizes, Jumps, Becomes
  <2>3. ASSUME Unresized, NEW q \in manual' PROVE q \in forced' \/ SizeInHand(q)'
    <3>1. CASE q = p
      BY <1>1, <1>2, <3>1 DEF SizeInHand, Jumps, Becomes
    <3>2. CASE q \in manual
      <4>1. q \in forced \/ SizeInHand(q)
        BY <2>3, <3>2 DEF IInv, Sizes
      <4> QED
        BY <1>1, <1>4, <4>1 DEF SizeInHand, Others
    <3> QED
      BY <1>1, <3>1, <3>2
  <2>4. \A q \in forced' : WillRelease(q)'
    BY <1>1, <1>4, ReleaseKept DEF IInv, Sizes, Holding, Captured
  <2> QED
    BY <2>1, <2>2, <2>3, <2>4 DEF Sizes
<1>6. forced' \in SUBSET Panes /\ manual' \in SUBSET Panes
  BY <1>1 DEF IInv, TypeOK
<1>7. PlainCore(t)
  BY <1>3, RequestIsCore
<1> QED
  BY <1>1, <1>4, <1>5, <1>6, <1>7, WindowStep DEF Resize

\* The pane is marked: the request will attach to it, or release it.
LEMMA MarkForcedStep ==
    ASSUME IInv, NEW m \in Peers, MarkForced(m)
    PROVE  IInv'
<1> DEFINE t == Req(m)
           p == th[t].want
<1>1. /\ t \in Threads /\ th[t].pc = "mark" /\ forced' = forced \cup {p}
      /\ UNCHANGED <<manual, bridges, pane, used, born>>
  BY Kinds DEF MarkForced, Req, At, handlerVars, bridgeVars
<1>2. Becomes(t, "attach", th[t].own, p, th[t].att, th[t].done, p, th[t].ret)
  BY MarkEffect DEF IInv
<1>3. ReqCore(m)
  BY <1>1, <1>2, ThreadInv DEF Becomes, ReqCore, ReqShape, CaptureShape, MadeOf, ReqFrame,
     AwaitFrame, Stands, Entered, Settled, Vacated, Replying, Ends,
     Captured, Holding, AfterHold, Attaching, DetachStages
<1>4. Others(t) /\ th' \in [Threads -> ThreadStates] /\ FeedFrame(t)
  BY <1>1, <1>2 DEF Becomes, FeedFrame
<1>5. Sizes'
  <2>1. Unresized' => Unresized
    BY <1>1 DEF Unresized
  <2>2. \A n \in Peers : Unresized => th'[Req(n)].pc # "resize"
    BY <1>2, <1>4, Kinds DEF Others, IInv, Sizes, Becomes
  <2>3. ASSUME Unresized, NEW q \in manual' PROVE q \in forced' \/ SizeInHand(q)'
    <3>1. q \in forced \/ SizeInHand(q)
      BY <1>1, <2>3 DEF IInv, Sizes
    <3> QED
      BY <1>1, <1>4, <3>1 DEF SizeInHand, Others
  <2>4. ASSUME NEW q \in forced' PROVE WillRelease(q)'
    <3>1. CASE q = p
      BY <1>1, <1>2, <3>1 DEF WillRelease, Becomes
    <3>2. CASE q \in forced
      BY <1>1, <1>4, <3>2, ReleaseKept DEF IInv, Sizes, Holding, Captured
    <3> QED
      BY <1>1, <3>1, <3>2
  <2> QED
    BY <2>1, <2>2, <2>3, <2>4 DEF Sizes
<1>6. forced' \in SUBSET Panes /\ manual' \in SUBSET Panes
  BY <1>1, ThreadInv DEF IInv, TypeOK, ReqShape
<1>7. PlainCore(t)
  BY <1>3, RequestIsCore
<1> QED
  BY <1>1, <1>4, <1>5, <1>6, <1>7, WindowStep DEF MarkForced

\* A resize request needs a world that has some.
LEMMA ResizePaneStep ==
    ASSUME IInv, NEW m \in Peers, ResizePane(m)
    PROVE  IInv'
<1> DEFINE t == Req(m)
<1>1. /\ t \in Threads /\ th[t].pc = "resize" /\ manual' \subseteq manual \cup alive
      /\ UNCHANGED <<forced, bridges, pane, used, born>>
  BY Kinds DEF ResizePane, Req, At, handlerVars, bridgeVars
<1>2. Becomes(t, "idle", None, NoPane, None, None, NoPane, "idle")
  BY <1>1, IdleEffect DEF IInv, ResizePane, Req
<1>3. ReqCore(m)
  <2>1. born \in Nat
    BY DEF IInv, TypeOK
  <2> QED
    BY <1>1, <1>2, <2>1, ThreadInv DEF None, Becomes, ReqCore, ReqShape, CaptureShape, MadeOf,
       ReqFrame, AwaitFrame, Stands, Entered, Settled, Vacated, Replying, Ends,
       Captured, Holding, AfterHold, Attaching, DetachStages
<1>4. Others(t) /\ th' \in [Threads -> ThreadStates] /\ FeedFrame(t)
  BY <1>1, <1>2 DEF Becomes, FeedFrame
<1>5. Sizes'
  <2>1. ~Unresized'
    BY <1>1 DEF Unresized, IInv, Sizes
  <2>2. \A q \in forced' : WillRelease(q)'
    BY <1>1, <1>4, ReleaseKept DEF IInv, Sizes, Holding, Captured
  <2> QED
    BY <2>1, <2>2 DEF Sizes
<1>6. forced' \in SUBSET Panes /\ manual' \in SUBSET Panes
  BY <1>1 DEF IInv, TypeOK
<1>7. PlainCore(t)
  BY <1>3, RequestIsCore
<1> QED
  BY <1>1, <1>4, <1>5, <1>6, <1>7, WindowStep DEF ResizePane

-----------------------------------------------------------------------------
(* The end of a stream, and of a pane.                                      *)

\* The stream_reset is sent: the mobile was told.
LEMMA SendResetStep ==
    ASSUME IInv, NEW t \in Threads, SendReset(t)
    PROVE  IInv'
<1>1. Jumps(t, "end") /\ th[t].pc = "reset" /\ told' = told \cup {th[t].own} /\ born' = born
  BY GotoEffect DEF IInv, SendReset, Places, At, bridgeVars
<1>2. ASSUME NEW m \in Peers, t = Req(m)
      PROVE  Plain(t) /\ th[t].own \in Attachments
  <2>1. ReqPlain(m)
    BY <1>1, <1>2, ThreadInv DEF Jumps, Becomes, ReqPlain, ReqCore, ReqShape, CaptureShape, MadeOf,
       ReqFrame, FeedFrame, SizeFrame, AwaitFrame, Stands, Entered, Settled, Vacated, Replying,
       Ends, Captured, Holding, AfterHold, Attaching, DetachStages
  <2>2. th[t].own \in Attachments
    BY <1>1, <1>2, Kinds, ThreadFields DEF IInv, Streams, StandsAlone, Stands
  <2> QED
    BY <1>2, <2>1, <2>2, RequestIsPlain
<1>3. ASSUME NEW s \in Attachments, t = Str(s)
      PROVE  Plain(t) /\ th[t].own \in Attachments
  <2>1. StrPlain(s)
    BY <1>1, <1>3, ThreadInv DEF Jumps, Becomes, StrPlain, StrCore, StreamShape, CaptureShape,
       MadeOf, Runs, Sleeps, FeedFrame, SizeFrame, AwaitFrame, Ends, Captured, Holding, DetachStages
  <2> QED
    BY <1>1, <1>3, <2>1, ThreadInv, StreamIsPlain DEF StreamShape
<1>4. Plain(t) /\ th[t].own \in Attachments
  BY <1>1, <1>2, <1>3, Kinds, ThreadInv DEF ByeShape, WatchShape, DetachStages
<1>5. /\ exitNotified' \in SUBSET Peers
      /\ cancelled \subseteq cancelled' /\ cancelled' \in SUBSET Attachments
      /\ told \subseteq told' /\ told' \in SUBSET Attachments
      /\ used' \in [world : Worlds, disconnects : Nat, resizes : Nat]
      /\ used'.world = used.world /\ used.disconnects <= used'.disconnects
  BY <1>1, <1>4 DEF IInv, TypeOK, SendReset, handlerVars
<1> QED
  BY <1>1, <1>4, <1>5, PlainStep DEF SendReset, Jumps, Becomes, handlerVars

\* Only a watcher finds that its pane has gone.
LEMMA WatcherAlone ==
    ASSUME IInv, NEW t \in Threads, th[t].pc \in {"exit", "tell"}
    PROVE  ~Calm /\ \E s \in Attachments : t = Wat(s) /\ th[t].ret = "gone"
<1>1. PICK s \in Attachments : t = Wat(s)
  BY Kinds, ThreadInv DEF ReqShape, ByeShape, StreamShape, DetachStages, Attaching
<1>2. th[t].ret = "gone"
  BY <1>1, ThreadInv DEF WatchShape
<1>3. ~Calm
  BY <1>1 DEF IInv, Reports, CalmThreads
<1> QED
  BY <1>1, <1>2, <1>3

\* The watcher that found its pane gone runs when it is not calm.
LEMMA HandlePaneExitStep ==
    ASSUME IInv, NEW t \in Threads, HandlePaneExit(t)
    PROVE  IInv'
<1>1. th[t].pc = "exit" /\ born' = born /\ UNCHANGED <<alive, used>>
  BY DEF HandlePaneExit, At, bridgeVars
<1>2. PICK s \in Attachments : t = Wat(s) /\ th[t].ret = "gone"
  BY <1>1, WatcherAlone
<1>3. \/ Becomes(t, th[t].ret, th[t].own, th[t].want, None, None, NoPane, "idle")
      \/ Becomes(t, "tell", th[t].own, th[t].want, th[t].att, th[t].done,
                 pane[bridges[PeerOf(t)]], th[t].ret)
  BY PaneExitEffect DEF IInv
<1>4. Plain(t)
  <2>1. born \in Nat /\ ~Calm'
    BY <1>1, WatcherAlone DEF IInv, TypeOK, Calm
  <2>2. WatPlain(s)
    BY <1>1, <1>2, <1>3, <2>1, ThreadInv DEF None, Becomes, WatPlain, WatCore, WatchShape,
       CaptureShape, MadeOf, Sleeps, SizeFrame, AwaitFrame, Captured, Holding, DetachStages
  <2> QED
    BY <1>2, <2>2, ThreadInv, WatchIsPlain
<1>5. /\ exitNotified' \in SUBSET Peers
      /\ cancelled \subseteq cancelled' /\ cancelled' \in SUBSET Attachments
      /\ told \subseteq told' /\ told' \in SUBSET Attachments
      /\ used' \in [world : Worlds, disconnects : Nat, resizes : Nat]
      /\ used'.world = used.world /\ used.disconnects <= used'.disconnects
  <2>1. TypeOK /\ PeerOf(t) \in Peers
    BY WorksForPeer DEF IInv
  <2> QED
    BY <2>1 DEF TypeOK, HandlePaneExit, mobileVars
<1> QED
  BY <1>3, <1>4, <1>5, PlainStep DEF HandlePaneExit, Becomes, mobileVars

\* It tells the mobile.
LEMMA SendPaneClosedStep ==
    ASSUME IInv, NEW t \in Threads, SendPaneClosed(t)
    PROVE  IInv'
<1>1. th[t].pc = "tell" /\ born' = born /\ UNCHANGED <<alive, used>>
  BY DEF SendPaneClosed, At, bridgeVars
<1>2. PICK s \in Attachments : t = Wat(s) /\ th[t].ret = "gone"
  BY <1>1, WatcherAlone
<1>3. Becomes(t, "detach", th[t].own, th[t].want, th[t].att, th[t].done, NoPane, th[t].ret)
  BY SendPaneClosedEffect DEF IInv
<1>4. Plain(t)
  <2>1. ~Calm'
    BY <1>1, WatcherAlone DEF Calm
  <2>2. WatPlain(s)
    BY <1>1, <1>2, <1>3, <2>1, ThreadInv DEF Becomes, WatPlain, WatCore, WatchShape,
       CaptureShape, MadeOf, Sleeps, SizeFrame, AwaitFrame, Captured, Holding, DetachStages
  <2> QED
    BY <1>2, <2>2, ThreadInv, WatchIsPlain
<1>5. /\ exitNotified' \in SUBSET Peers
      /\ cancelled \subseteq cancelled' /\ cancelled' \in SUBSET Attachments
      /\ told \subseteq told' /\ told' \in SUBSET Attachments
      /\ used' \in [world : Worlds, disconnects : Nat, resizes : Nat]
      /\ used'.world = used.world /\ used.disconnects <= used'.disconnects
  BY DEF IInv, TypeOK, SendPaneClosed, TellClosed, handlerVars
<1> QED
  BY <1>3, <1>4, <1>5, PlainStep DEF SendPaneClosed, TellClosed, Becomes, handlerVars

\* A pane exits: no thread moves.
LEMMA PaneExitsStep ==
    ASSUME IInv, NEW p \in Panes, PaneExits(p)
    PROVE  IInv'
<1> USE DEF bridgeVars, sizeVars, handlerVars, mobileVars
<1>1. /\ UNCHANGED <<bridgeVars, sizeVars, handlerVars, mobileVars, th, used>>
      /\ alive' \subseteq alive /\ p \in alive /\ p \notin alive'
  BY DEF PaneExits
<1>2. TypeOK'
  BY <1>1 DEF IInv, TypeOK
<1>3. Shapes'
  BY <1>1 DEF IInv, Shapes, ReqShape, ByeShape, StreamShape, WatchShape, CaptureShape, PeerOf
<1>4. Made'
  BY <1>1 DEF IInv, Made
<1>5. Streams'
  BY <1>1 DEF IInv, Streams, StandsAlone, RequestWaits, Forgotten, RunningIsRead, Stands, Entered,
     Settled, Vacated, Runs
<1>6. Feeds'
  BY <1>1 DEF IInv, Feeds
<1>7. Sizes'
  BY <1>1 DEF IInv, Sizes, Unresized, SizeInHand, WillRelease
<1>8. SupersededAwaited'
  BY <1>1 DEF IInv, Reports, SupersededAwaited
<1>9. ~Calm'
  BY <1>1 DEF IInv, Made, Calm
<1> QED
  BY <1>2, <1>3, <1>4, <1>5, <1>6, <1>7, <1>8, <1>9 DEF IInv, Reports, CalmThreads, Reported

-----------------------------------------------------------------------------
(* The steps of a detach that bear on the streams.                          *)

\* A request at attached or pre owns the peer's entry, so no stream runs.
LEMMA StartsAlone ==
    ASSUME IInv, NEW s \in Attachments, Runs(s)
    PROVE  ~Entered(owner[s]) /\ ~Settled(owner[s])
<1>1. streamDone[owner[s]] = s /\ owner[s] \in Peers /\ s # None
  BY DEF IInv, Streams, RunningIsRead, TypeOK, Attachments, None
<1>2. Entered(owner[s]) => th[Req(owner[s])].own = s /\ th[Str(s)].pc = "idle"
  BY <1>1 DEF IInv, Streams, StandsAlone, Entered
<1> QED
  BY <1>1, <1>2 DEF IInv, Streams, RequestWaits, Runs

\* The hold of h.mu.  While no pane exits and no peer disconnects, only the peer's
\* request and its running stream come here.
LEMMA DetachStepInv ==
    ASSUME IInv, NEW t \in Threads, Detach(t)
    PROVE  IInv'
<1> DEFINE m == PeerOf(t)
           s == bridges[m]
           d == IF Waits(t) THEN streamDone[m] ELSE None
           rel == IF s = None THEN NoPane ELSE pane[s]
           pc == IF s = None THEN "wait" ELSE "cancel"
<1>1. /\ th[t].pc = "detach"
      /\ superseded' = superseded \cup ({d} \ {None})
      /\ bridges' = [bridges EXCEPT ![m] = None]
      /\ UNCHANGED <<alive, born, owner, pane, bridge, pipe, forced, manual, streamDone, cancelled,
                     ended, view, told, used>>
      /\ exitNotified' \in {exitNotified, exitNotified \ {m}}
  BY DEF Detach, At, bridgeVars, sizeVars, mobileVars
<1>2. Becomes(t, pc, th[t].own, th[t].want, s, d, rel, th[t].ret)
  BY DetachEffect DEF IInv
<1>3. /\ m \in Peers
      /\ bridges \in [Peers -> Attachments \cup {None}]
      /\ s \in Attachments \cup {None} /\ s <= born
      /\ d \in Attachments \cup {None} /\ d <= born /\ born \in Nat
  <2>1. m \in Peers
    BY WorksForPeer DEF IInv
  <2>2. born \in Nat /\ None <= born
    BY DEF IInv, TypeOK, None
  <2> QED
    BY <2>1, <2>2 DEF IInv, TypeOK, Made
<1>4. d # None => Waits(t) /\ d = streamDone[m] /\ owner[d] = m /\ d \notin ended
  BY <1>3 DEF IInv, Streams, Forgotten
<1>5. Others(t) /\ th' \in [Threads -> ThreadStates] /\ PeerOf(t)' = m
  BY <1>1, <1>2 DEF Becomes, PeerOf
<1>6. TypeOK'
  BY <1>1, <1>3, <1>5 DEF IInv, TypeOK
<1>7. Steady
  BY <1>1 DEF IInv, TypeOK, Steady
<1>8. \A n \in Peers : bridges'[n] = IF n = m THEN None ELSE bridges[n]
  BY <1>1, <1>3
<1> HIDE DEF m, s, d, rel
<1>9. ShapeOf(t)' /\ MadeFrame(t)
  <2>1. CaptureShape(t)'
    BY <1>1, <1>2, <1>4, <1>5 DEF CaptureShape, Becomes, Captured, Waits
  <2>2. \A n \in Peers : (t = Req(n) => ReqShape(n)') /\ (t = Bye(n) => ByeShape(n)')
    BY <1>1, <1>2, ThreadInv DEF ReqShape, ByeShape, Becomes, DetachStages, Attaching
  <2>3. \A x \in Attachments : (t = Str(x) => StreamShape(x)') /\ (t = Wat(x) => WatchShape(x)')
    BY <1>1, <1>2, ThreadInv DEF StreamShape, WatchShape, Becomes, DetachStages
  <2>4. MadeFrame(t)
    BY <1>1, <1>2, <1>3, ThreadInv DEF MadeFrame, MadeOf, Sleeps, Becomes
  <2> QED
    BY <2>1, <2>2, <2>3, <2>4 DEF ShapeOf
<1>10. Shapes'
  BY <1>7, <1>5, <1>9, ShapesKept DEF IInv
<1>11. Made'
  <2>1. \A n \in Peers : bridges'[n] <= born /\ streamDone'[n] <= born /\ view'[n] <= born
    BY <1>1, <1>3, <1>8 DEF IInv, Made, None
  <2> QED
    BY <1>1, <1>5, <1>7, <1>9, <2>1, MadeKept DEF IInv, Made
<1>12. Streams'
  <2>1. ASSUME NEW n \in Peers, t = Req(n) PROVE ReqFrame(n)
    <3>1. m = n
      BY <2>1, WorksFor DEF m
    <3>2. th[t].ret \in {"track", "detached"} => d = streamDone[n]
      BY <3>1 DEF d, Waits
    <3> QED
      BY <1>1, <1>2, <1>8, <2>1, <3>1, <3>2, ThreadInv DEF ReqFrame, Becomes, ReqShape, Stands,
         Entered, Settled, Vacated, Captured, Holding, AfterHold, Attaching, DetachStages
  <2>2. \A x \in Attachments : /\ t = Str(x) => (Runs(x)' => Runs(x)) /\ Sleeps(t)
                               /\ t = Wat(x) => Sleeps(t)
    BY <1>1, <1>2 DEF Runs, Sleeps, Becomes
  <2>3. superseded' \cap ended = {}
    BY <1>1, <1>4 DEF IInv, Streams, Forgotten
  <2> QED
    BY <1>1, <1>5, <1>7, <1>8, <2>1, <2>2, <2>3, StreamsKept DEF IInv, StreamFrame
<1>13. Feeds'
  BY <1>1, <1>5, <1>7, FeedsKept DEF IInv, FeedFrame
<1>14. Sizes'
  <2>1. Unresized' => Unresized
    BY <1>1 DEF Unresized
  <2>2. \A n \in Peers : Unresized => th'[Req(n)].pc # "resize"
    BY <1>2, <1>5, Kinds DEF Others, Becomes, IInv, Sizes
  <2>3. \A p \in manual : SizeInHand(p) => SizeInHand(p)'
    BY <1>1, <1>5 DEF SizeInHand, Others
  <2>4. ASSUME NEW p \in forced PROVE WillRelease(p)'
    <3>1. WillRelease(p)
      BY DEF IInv, Sizes
    <3>2. CASE s # None /\ pane[s] = p
      <4>1. th'[t].pc \in Holding /\ th'[t].rel = p
        BY <1>2, <3>2 DEF Becomes, Holding, Captured, rel
      <4> QED
        BY <4>1 DEF WillRelease
    <3>3. CASE \E n \in Peers : n # m /\ bridges[n] # None /\ pane[bridges[n]] = p
      BY <1>1, <1>8, <3>3 DEF WillRelease
    <3>4. CASE \E u \in Threads : th[u].pc \in Holding \cup {"attach"} /\ th[u].rel = p
      BY <1>1, <1>5, <3>4 DEF WillRelease, Others, Holding, Captured
    <3>5. CASE \E n \in Peers : th[Req(n)].pc \in {"displace", "insert"} /\ th[Req(n)].want = p
      BY <1>1, <1>5, <3>5, Kinds DEF WillRelease, Others
    <3> QED
      BY <1>3, <3>1, <3>2, <3>3, <3>4, <3>5 DEF WillRelease, s
  <2> QED
    BY <1>1, <2>1, <2>2, <2>3, <2>4 DEF IInv, Sizes
<1>15. SupersededAwaited'
  <2>1. ASSUME NEW x \in superseded PROVE \E u \in Threads : th'[u].pc \in Captured /\ th'[u].done = x
    BY <1>1, <1>5 DEF IInv, Reports, SupersededAwaited, Others, Captured
  <2>2. th'[t].pc \in Captured /\ th'[t].done = d
    BY <1>2 DEF Becomes, Captured
  <2> QED
    BY <1>1, <2>1, <2>2 DEF SupersededAwaited
\* Under calm it is the peer's request, or its stream.
<1>16. ASSUME Calm PROVE \/ t = Req(m) /\ th[t].ret # "idle"
                         \/ \E x \in Attachments : t = Str(x) /\ owner[x] = m /\ Runs(x)
  <2>1. CalmThreads
    BY DEF IInv, Reports
  <2>2. \A n \in Peers : t # Bye(n)
    BY <1>1, <1>16, <2>1 DEF CalmThreads
  <2>3. \A x \in Attachments : t # Wat(x)
    BY <1>1, <1>16, <2>1 DEF CalmThreads
  <2>4. \A n \in Peers : t = Req(n) => n = m /\ th[t].ret # "idle"
    BY <1>1, <1>16, <2>1, WorksFor DEF CalmThreads, m, DetachStages
  <2>5. \A x \in Attachments : t = Str(x) => owner[x] = m /\ Runs(x)
    BY <1>1, WorksFor DEF m, Runs
  <2> QED
    BY <2>2, <2>3, <2>4, <2>5, Kinds
<1>17. CalmThreads'
  <2>1. Calm' => CalmOf(t)'
    <3>1. Calm' => Calm
      BY <1>1 DEF Calm
    <3> QED
      BY <1>2, <1>16, <3>1, Kinds DEF CalmOf, Becomes
  <2>2. ASSUME Calm, NEW n \in Peers, th[Req(n)].pc \in {"attached", "pre"}
        PROVE  bridges'[n] = bridges[n]
    <3>1. Entered(n)
      BY <2>2 DEF Entered, Stands
    <3>2. t # Req(n)
      BY <1>1, <2>2
    <3>3. m # n
      BY <1>16, <2>2, <3>1, <3>2, StartsAlone
    <3> QED
      BY <1>8, <3>3
  <2>3. CalmThreads /\ TypeOK /\ Made /\ used' \in [world : Worlds, disconnects : Nat, resizes : Nat]
    BY <1>6 DEF IInv, Reports, TypeOK
  <2> QED
    BY <1>5, <1>7, <2>1, <2>2, <2>3, CalmKept
<1>18. Reported'
  <2> SUFFICES ASSUME Calm', NEW n \in Peers, view[n] \notin told \cup {None}
               PROVE  \/ bridges'[n] = view[n]
                      \/ Replying(n)'
                      \/ Ends(Str(view[n]), view[n])' \/ Ends(Req(n), view[n])'
    BY <1>1 DEF Reported
  <2>1. Calm
    BY <1>1 DEF Calm
  <2>2. /\ view[n] \in Attachments /\ owner[view[n]] = n
        /\ \/ bridges[n] = view[n]
           \/ Replying(n)
           \/ Ends(Str(view[n]), view[n]) \/ Ends(Req(n), view[n])
    BY <2>1 DEF IInv, Reports, Reported, TypeOK, Streams, RunningIsRead
  <2>3. \A u \in Threads : Ends(u, view[n]) => Ends(u, view[n])'
    BY <1>1, <1>2, <1>5 DEF Ends, Others, Becomes, DetachStages
  <2>4. Replying(n) => Replying(n)'
    <3>1. Replying(n) => t # Req(n)
      BY <1>1 DEF Replying, Attaching, AfterHold, Holding, Captured
    <3> QED
      BY <1>5, <3>1, Kinds DEF Replying, Others
  <2>5. CASE bridges[n] = view[n] /\ n # m
    BY <1>8, <2>5
  <2>6. CASE bridges[n] = view[n] /\ n = m
    <3>1. CASE t = Req(m) /\ th[t].ret = "notice"
      <4>1. view[n] = th[t].own
        BY <1>1, <2>6, <3>1 DEF IInv, Streams, StandsAlone, Entered, Stands, DetachStages
      <4> QED
        BY <1>1, <1>2, <2>6, <3>1, <4>1 DEF Ends, Becomes, DetachStages
    <3>2. CASE t = Req(m) /\ th[t].ret # "notice"
      <4>1. th[t].ret \in {"track", "failed", "detached"}
        BY <1>1, <1>3, <1>16, <2>1, <3>2, ThreadInv, Kinds DEF ReqShape, DetachStages
      <4> QED
        BY <1>2, <2>6, <3>2, <4>1 DEF Replying, Becomes, AfterHold, Holding, Captured
    <3>3. CASE \E x \in Attachments : t = Str(x) /\ owner[x] = m /\ Runs(x)
      <4>1. PICK x \in Attachments : t = Str(x) /\ owner[x] = m /\ Runs(x)
        BY <3>3
      <4>2. view[n] = x
        BY <2>6, <4>1 DEF IInv, Streams, RunningIsRead
      <4>3. th[t].own = x /\ th[t].ret = "notice"
        BY <1>1, <4>1, ThreadInv DEF StreamShape, DetachStages
      <4> QED
        BY <1>1, <1>2, <4>1, <4>2, <4>3 DEF Ends, Becomes, DetachStages
    <3> QED
      BY <1>16, <2>1, <3>1, <3>2, <3>3
  <2>7. Str(view[n])' = Str(view[n]) /\ Str(view[n]) \in Threads /\ Req(n) \in Threads
    BY <1>1, <2>2, Kinds
  <2> QED
    BY <2>2, <2>3, <2>4, <2>5, <2>6, <2>7
<1> QED
  BY <1>6, <1>10, <1>11, <1>12, <1>13, <1>14, <1>15, <1>17, <1>18 DEF IInv, Reports

\* A step that moves one thread and nothing else.
LEMMA ThreadStep ==
    ASSUME IInv, NEW t \in Threads, Others(t), th' \in [Threads -> ThreadStates],
           UNCHANGED <<alive, bridgeVars, sizeVars, handlerVars, mobileVars, used>>,
           ShapeOf(t)', MadeFrame(t), StreamFrame(t), FeedFrame(t), SizeFrame(t),
           Calm' => CalmOf(t)', SupersededAwaited', Reported'
    PROVE  IInv'
<1> USE DEF bridgeVars, sizeVars, handlerVars, mobileVars
<1>1. TypeOK'
  BY DEF IInv, TypeOK
<1>2. Steady
  BY DEF IInv, TypeOK, Steady
<1>3. Shapes'
  BY <1>2, ShapesKept DEF IInv
<1>4. Made'
  BY <1>2, MadeKept DEF IInv, Made
<1>5. Streams'
  BY <1>2, StreamsKept DEF IInv, Streams, Forgotten
<1>6. Feeds'
  BY <1>2, FeedsKept DEF IInv
<1>7. Sizes'
  BY <1>2, SizesKept DEF IInv
<1>8. CalmThreads'
  <2>1. used' \in [world : Worlds, disconnects : Nat, resizes : Nat]
    BY DEF IInv, TypeOK
  <2> QED
    BY <1>2, <2>1, CalmKept DEF IInv, Reports
<1> QED
  BY <1>1, <1>3, <1>4, <1>5, <1>6, <1>7, <1>8 DEF IInv, Reports

\* The wait ends when the stream has ended, and with it its entry.
LEMMA AwaitStreamStep ==
    ASSUME IInv, NEW t \in Threads, AwaitStream(t)
    PROVE  IInv'
<1>1. /\ th[t].pc = "wait" /\ (th[t].done = None \/ th[t].done \in ended)
      /\ born' = born /\ UNCHANGED <<streamDone, ended, superseded, bridges, view, told, alive, used>>
  BY DEF AwaitStream, At, bridgeVars, handlerVars, mobileVars
<1>2. Jumps(t, "release")
  BY GotoEffect DEF IInv, AwaitStream, Places, DetachStages
<1>3. Others(t) /\ th' \in [Threads -> ThreadStates]
  BY <1>2 DEF Jumps, Becomes
<1>4. ShapeOf(t)'
  <2>1. CaptureShape(t)'
    BY <1>2 DEF CaptureShape, Jumps, Becomes, Captured
  <2>2. \A n \in Peers : (t = Req(n) => ReqShape(n)') /\ (t = Bye(n) => ByeShape(n)')
    BY <1>1, <1>2, ThreadInv DEF ReqShape, ByeShape, Jumps, Becomes, DetachStages, Attaching
  <2>3. \A x \in Attachments : (t = Str(x) => StreamShape(x)') /\ (t = Wat(x) => WatchShape(x)')
    BY <1>1, <1>2, ThreadInv DEF StreamShape, WatchShape, Jumps, Becomes, DetachStages
  <2> QED
    BY <2>1, <2>2, <2>3 DEF ShapeOf
<1>5. MadeFrame(t)
  BY <1>1, <1>2, ThreadInv DEF MadeFrame, MadeOf, Sleeps, Jumps, Becomes
<1>6. StreamFrame(t)
  <2>1. ASSUME NEW n \in Peers, t = Req(n) PROVE ReqFrame(n)
    <3>1. th[t].ret \in {"track", "detached"} => streamDone[n] = None
      BY <1>1, <2>1 DEF IInv, Streams, RequestWaits, Forgotten, Captured
    <3> QED
      BY <1>1, <1>2, <2>1, <3>1, ThreadInv DEF ReqFrame, Jumps, Becomes, ReqShape, Stands,
         Entered, Settled, Vacated, Captured, Holding, AfterHold, Attaching, DetachStages
  <2>2. \A x \in Attachments : /\ t = Str(x) => (Runs(x)' => Runs(x)) /\ Sleeps(t)
                               /\ t = Wat(x) => Sleeps(t)
    BY <1>1, <1>2 DEF Runs, Sleeps, Jumps, Becomes
  <2> QED
    BY <2>1, <2>2 DEF StreamFrame
<1>7. FeedFrame(t) /\ SizeFrame(t)
  BY <1>1, <1>2 DEF FeedFrame, SizeFrame, Jumps, Becomes, Holding, Captured
<1>8. Calm' => CalmOf(t)'
  <2>1. Calm' = Calm
    BY <1>1 DEF Calm
  <2>2. Calm => CalmOf(t)
    BY CalmSplit DEF IInv, Reports
  <2> QED
    BY <1>1, <1>2, <2>1, <2>2 DEF CalmOf, Jumps, Becomes, DetachStages
<1>9. SupersededAwaited'
  <2> SUFFICES ASSUME NEW x \in superseded
               PROVE  \E u \in Threads : th'[u].pc \in Captured /\ th'[u].done = x
    BY <1>1 DEF SupersededAwaited
  <2>1. PICK u \in Threads : th[u].pc \in Captured /\ th[u].done = x
    BY DEF IInv, Reports, SupersededAwaited
  <2>2. x # None /\ x \notin ended
    BY DEF IInv, TypeOK, Attachments, None, Streams, Forgotten
  <2>3. u # t
    BY <1>1, <2>1, <2>2
  <2> QED
    BY <1>3, <2>1, <2>3 DEF Others
<1>10. Reported'
  <2>1. ReportFrame(t)
    BY <1>1, <1>2 DEF ReportFrame, Replying, Ends, Jumps, Becomes, AfterHold, Holding, Captured,
       DetachStages, Attaching
  <2>2. TypeOK /\ Made /\ Reported /\ used' \in [world : Worlds, disconnects : Nat, resizes : Nat]
    BY <1>1 DEF IInv, TypeOK, Reports
  <2>3. Steady
    BY DEF AwaitStream, IInv, TypeOK, Steady, bridgeVars, handlerVars
  <2> QED
    BY <1>1, <1>3, <2>1, <2>2, <2>3, ReportedKept
<1> QED
  BY <1>3, <1>4, <1>5, <1>6, <1>7, <1>8, <1>9, <1>10, ThreadStep DEF AwaitStream

\* Who is at a notice, a reset or the end of a stream: the stream, or the request
\* that stands for it.
LEMMA EndsOwnStream ==
    ASSUME IInv, NEW t \in Threads, th[t].pc \in {"notice", "reset", "end"}
    PROVE  LET s == th[t].own
           IN  /\ s \in Attachments
               /\ owner[s] = PeerOf(t) /\ streamDone[owner[s]] = s /\ view[owner[s]] = s
               /\ t = Req(owner[s]) \/ t = Str(s)
               /\ t = Req(owner[s]) => Entered(owner[s])
<1>1. CASE \E m \in Peers : t = Req(m)
  <2>1. PICK m \in Peers : t = Req(m)
    BY <1>1
  <2>2. Entered(m) /\ th[t].pc # "attached" /\ th[t].own \in Attachments \cup {None} /\ PeerOf(t) = m
    BY <2>1, ThreadFields, WorksFor DEF Entered, Stands, IInv
  <2> QED
    BY <2>1, <2>2 DEF IInv, Streams, StandsAlone, Entered
<1>2. CASE \E s \in Attachments : t = Str(s)
  <2>1. PICK s \in Attachments : t = Str(s)
    BY <1>2
  <2>2. Runs(s) /\ th[t].own = s /\ PeerOf(t) = owner[s]
    BY <2>1, ThreadInv, WorksFor DEF Runs, StreamShape
  <2> QED
    BY <2>1, <2>2, Kinds DEF IInv, Streams, RunningIsRead
<1> QED
  BY <1>1, <1>2, Kinds, ThreadInv DEF ByeShape, WatchShape, DetachStages

\* A stream that is superseded says nothing: the request that waits for it replies.
LEMMA NoticeStep ==
    ASSUME IInv, NEW t \in Threads, Notice(t)
    PROVE  IInv'
<1> DEFINE s == th[t].own
<1>1. th[t].pc = "notice" /\ born' = born /\ UNCHANGED <<superseded, bridges, view, told, alive, used>>
  BY DEF Notice, At, bridgeVars, handlerVars, mobileVars
<1>2. (s \in superseded /\ Jumps(t, "end")) \/ Jumps(t, "reset")
  BY GotoEffect DEF IInv, Notice, Places
<1>3. Others(t) /\ th' \in [Threads -> ThreadStates]
  BY <1>2 DEF Jumps, Becomes
<1>4. /\ s \in Attachments /\ owner[s] \in Peers /\ view[owner[s]] = s
      /\ t = Req(owner[s]) \/ t = Str(s)
  BY <1>1, EndsOwnStream DEF IInv, TypeOK
<1>5. ShapeOf(t)'
  <2>1. CaptureShape(t)'
    BY <1>2 DEF CaptureShape, Jumps, Becomes, Captured
  <2>2. \A n \in Peers : (t = Req(n) => ReqShape(n)') /\ (t = Bye(n) => ByeShape(n)')
    BY <1>1, <1>2, ThreadInv DEF ReqShape, ByeShape, Jumps, Becomes, DetachStages, Attaching
  <2>3. \A x \in Attachments : (t = Str(x) => StreamShape(x)') /\ (t = Wat(x) => WatchShape(x)')
    BY <1>1, <1>2, ThreadInv DEF StreamShape, WatchShape, Jumps, Becomes, DetachStages
  <2> QED
    BY <2>1, <2>2, <2>3 DEF ShapeOf
<1>6. MadeFrame(t)
  BY <1>1, <1>2, ThreadInv DEF MadeFrame, MadeOf, Sleeps, Jumps, Becomes
<1>7. StreamFrame(t)
  <2>1. ASSUME NEW n \in Peers, t = Req(n) PROVE ReqFrame(n)
    BY <1>1, <1>2, <2>1 DEF ReqFrame, Jumps, Becomes, Stands,
       Entered, Settled, Vacated, Captured, Holding, AfterHold, Attaching, DetachStages
  <2>2. \A x \in Attachments : /\ t = Str(x) => (Runs(x)' => Runs(x)) /\ Sleeps(t)
                               /\ t = Wat(x) => Sleeps(t)
    BY <1>1, <1>2 DEF Runs, Sleeps, Jumps, Becomes
  <2> QED
    BY <2>1, <2>2 DEF StreamFrame
<1>8. FeedFrame(t) /\ SizeFrame(t) /\ AwaitFrame(t)
  BY <1>1, <1>2 DEF FeedFrame, SizeFrame, AwaitFrame, Jumps, Becomes, Holding, Captured
<1>9. CalmOf(t)'
  BY <1>2, <1>4, Kinds DEF CalmOf, Jumps, Becomes, DetachStages
<1>10. SupersededAwaited'
  BY <1>1, <1>3, <1>8, AwaitedKept DEF IInv, Reports, TypeOK, Attachments, None
<1>11. Reported'
  <2> SUFFICES ASSUME Calm', NEW n \in Peers, view[n] \notin told \cup {None}
               PROVE  \/ bridges[n] = view[n]
                      \/ Replying(n)'
                      \/ Ends(Str(view[n]), view[n])' \/ Ends(Req(n), view[n])'
    BY <1>1 DEF Reported
  <2>1. Calm
    BY <1>1 DEF Calm
  <2>2. /\ view[n] \in Attachments /\ owner[view[n]] = n
        /\ \/ bridges[n] = view[n]
           \/ Replying(n)
           \/ Ends(Str(view[n]), view[n]) \/ Ends(Req(n), view[n])
    BY <2>1 DEF IInv, Reports, Reported, TypeOK, Streams, RunningIsRead
  <2>3. Replying(n) => Replying(n)'
    <3>1. Replying(n) => t # Req(n)
      BY <1>1 DEF Replying, Attaching, AfterHold, Holding, Captured
    <3> QED
      BY <1>3, <3>1, Kinds DEF Replying, Others
  <2>4. CASE Jumps(t, "reset")
    <3>1. \A u \in Threads : Ends(u, view[n]) => Ends(u, view[n])'
      BY <1>1, <2>4 DEF Ends, Others, Jumps, Becomes
    <3>2. Str(view[n])' = Str(view[n]) /\ Str(view[n]) \in Threads /\ Req(n) \in Threads
      BY <1>1, <2>2, Kinds
    <3> QED
      BY <2>2, <2>3, <3>1, <3>2
  <2>5. CASE view[n] # s
    <3>1. \A u \in Threads : Ends(u, view[n]) => Ends(u, view[n])'
      BY <1>1, <1>3, <2>5 DEF Ends, Others
    <3>2. Str(view[n])' = Str(view[n]) /\ Str(view[n]) \in Threads /\ Req(n) \in Threads
      BY <1>1, <2>2, Kinds
    <3> QED
      BY <2>2, <2>3, <3>1, <3>2
  <2>6. CASE view[n] = s /\ s \in superseded
    <3>1. PICK u \in Threads : th[u].pc \in Captured /\ th[u].done = s
      BY <2>6 DEF IInv, Reports, SupersededAwaited
    <3>2. PeerOf(u) = n /\ th[u].ret # "notice"
      BY <1>4, <2>2, <2>6, <3>1, ThreadInv DEF CaptureShape, Attachments, None
    <3>3. u = Req(n)
      <4>1. \A x \in Peers : u = Req(x) => x = n
        BY <3>2, WorksFor
      <4>2. \A x \in Peers : u # Bye(x)
        BY <2>1, <3>1 DEF IInv, Reports, CalmThreads, Captured
      <4>3. \A x \in Attachments : u # Wat(x)
        BY <2>1, <3>1 DEF IInv, Reports, CalmThreads, Captured
      <4>4. \A x \in Attachments : u # Str(x)
        BY <3>1, <3>2, ThreadInv DEF StreamShape, Captured, DetachStages
      <4> QED
        BY <4>1, <4>2, <4>3, <4>4, Kinds
    <3>4. th[u].ret # "idle"
      BY <2>1, <3>1, <3>3 DEF IInv, Reports, CalmThreads, Captured, DetachStages
    <3>5. Replying(n)
      BY <3>1, <3>2, <3>3, <3>4, ThreadInv
      DEF ReqShape, Replying, AfterHold, Holding, Captured, DetachStages
    <3> QED
      BY <2>3, <3>5
  <2> QED
    BY <1>2, <2>4, <2>5, <2>6
<1> QED
  BY <1>3, <1>5, <1>6, <1>7, <1>8, <1>9, <1>10, <1>11, ThreadStep DEF Notice

\* endStream: the entry goes, and whoever waits is let go.
LEMMA EndStreamStep ==
    ASSUME IInv, NEW t \in Threads, EndStream(t)
    PROVE  IInv'
<1> DEFINE s == th[t].own
           m == owner[s]
           pc == IF t[1] = "req" THEN "idle" ELSE "gone"
<1>1. /\ s \in Attachments /\ m \in Peers /\ PeerOf(t) = m /\ streamDone[m] = s /\ s <= born
      /\ t = Req(m) \/ t = Str(s)
      /\ t = Req(m) => Entered(m)
  BY EndsOwnStream, ThreadInv DEF IInv, TypeOK, EndStream, At, MadeOf
<1>2. /\ th[t].pc = "end"
      /\ streamDone' = [streamDone EXCEPT ![m] = None]
      /\ superseded' = superseded \ {s}
      /\ ended' = ended \cup {s}
      /\ UNCHANGED <<alive, born, owner, pane, bridge, pipe, forced, manual, bridges, exitNotified,
                     cancelled, view, told, used>>
  <2>1. streamDone' = [streamDone EXCEPT ![m] = IF streamDone[m] = s THEN None ELSE streamDone[m]]
    BY <1>1 DEF EndStream
  <2> QED
    BY <1>1, <2>1 DEF EndStream, At, bridgeVars, sizeVars, mobileVars
<1>3. Becomes(t, pc, None, NoPane, None, None, NoPane, "idle")
  BY BlankEffect DEF IInv, EndStream, Places
<1>4. pc = IF t = Req(m) THEN "idle" ELSE "gone"
  BY <1>1, Tags
<1> HIDE DEF pc
<1>5. Others(t) /\ th' \in [Threads -> ThreadStates] /\ born \in Nat
  BY <1>3 DEF Becomes, IInv, TypeOK
<1>6. TypeOK'
  BY <1>1, <1>2, <1>5 DEF IInv, TypeOK
<1>7. Steady
  BY <1>2 DEF IInv, TypeOK, Steady
<1>8. \A n \in Peers : streamDone'[n] = IF n = m THEN None ELSE streamDone[n]
  BY <1>2 DEF IInv, TypeOK
<1> HIDE DEF s, m
<1>9. Shapes'
  <2>1. CaptureShape(t)'
    BY <1>3, <1>4 DEF CaptureShape, Becomes, Captured
  <2>2. \A n \in Peers : (t = Req(n) => ReqShape(n)') /\ (t = Bye(n) => ByeShape(n)')
    BY <1>1, <1>3, <1>4, Kinds DEF ReqShape, Becomes, DetachStages, Attaching
  <2>3. \A x \in Attachments : (t = Str(x) => StreamShape(x)') /\ (t = Wat(x) => WatchShape(x)')
    BY <1>1, <1>3, <1>4, Kinds DEF StreamShape, Becomes, DetachStages
  <2>4. ShapeOf(t)'
    BY <2>1, <2>2, <2>3 DEF ShapeOf
  <2> QED
    BY <1>5, <1>7, <2>4, ShapesKept DEF IInv
<1>10. Made'
  <2>1. MadeFrame(t)
    BY <1>2, <1>3, <1>5 DEF MadeFrame, MadeOf, Sleeps, Becomes, None
  <2>2. \A n \in Peers : bridges'[n] <= born /\ streamDone'[n] <= born /\ view'[n] <= born
    BY <1>2, <1>5, <1>8 DEF IInv, Made, None
  <2>3. \A x \in Attachments : x > born => (x \in ended' => x \in ended)
    BY <1>1, <1>2, <1>5 DEF Attachments
  <2> QED
    BY <1>2, <1>5, <1>7, <2>1, <2>2, <2>3, MadeKept DEF IInv, Made
<1>11. StandsAlone'
  <2> SUFFICES ASSUME NEW n \in Peers, Stands(n)'
               PROVE  LET x == th'[Req(n)].own
                      IN  /\ x # None /\ owner'[x] = n /\ x \notin ended'
                          /\ th'[Str(x)].pc = "idle" /\ th'[Wat(x)].pc = "idle"
                          /\ Entered(n)' => streamDone'[n] = x
                          /\ Entered(n)' /\ th'[Req(n)].pc # "attached" => view'[n] = x
                          /\ th'[Req(n)].pc \in {"displace", "insert"} => pane'[x] = th'[Req(n)].want
    BY DEF StandsAlone, Entered, Stands
  <2>1. Req(n) # t
    BY <1>1, <1>3, <1>4, Kinds DEF Stands, Becomes, DetachStages
  <2>2. th'[Req(n)] = th[Req(n)]
    BY <1>5, <2>1, Kinds DEF Others
  <2>3. Stands(n) /\ (Entered(n)' => Entered(n))
    BY <2>2 DEF Stands, Entered
  <2> DEFINE x == th[Req(n)].own
  <2>4. /\ x \in Attachments /\ owner[x] = n /\ x \notin ended
        /\ th[Str(x)].pc = "idle" /\ th[Wat(x)].pc = "idle"
        /\ Entered(n) => streamDone[n] = x
        /\ Entered(n) /\ th[Req(n)].pc # "attached" => view[n] = x
        /\ th[Req(n)].pc \in {"displace", "insert"} => pane[x] = th[Req(n)].want
    BY <2>3, Kinds, ThreadFields DEF IInv, Streams, StandsAlone
  <2>5. x # s /\ t # Str(x) /\ t # Wat(x)
    BY <1>1, <1>2, <2>1, <2>4, Kinds DEF m
  <2>6. Entered(n) => n # m
    BY <1>1, <2>4, <2>5
  <2>7. th'[Str(x)] = th[Str(x)] /\ th'[Wat(x)] = th[Wat(x)] /\ x # None
    BY <1>5, <2>4, <2>5, Kinds DEF Others, Attachments, None
  <2> HIDE DEF x
  <2>8. th'[Req(n)].own = x
    BY <2>2 DEF x
  <2> QED
    BY <1>2, <1>8, <2>2, <2>3, <2>4, <2>5, <2>6, <2>7, <2>8
<1>12. RequestWaits'
  <2> SUFFICES ASSUME NEW n \in Peers
               PROVE  /\ Settled(n)' => streamDone'[n] = None
                      /\ th'[Req(n)].pc \in Captured /\ th'[Req(n)].ret \in {"track", "detached"} =>
                            streamDone'[n] \in {None, th'[Req(n)].done}
                      /\ Vacated(n)' => bridges'[n] = None
    BY DEF RequestWaits
  <2>1. CASE Req(n) = t
    BY <1>1, <1>3, <1>4, <2>1, Kinds
    DEF Settled, Vacated, Becomes, Captured, AfterHold, Holding, Attaching
  <2>2. CASE Req(n) # t
    <3>1. th'[Req(n)] = th[Req(n)]
      BY <1>5, <2>2, Kinds DEF Others
    <3> QED
      BY <1>2, <1>8, <3>1 DEF IInv, Streams, RequestWaits, Settled, Vacated
  <2> QED
    BY <2>1, <2>2
<1>13. Forgotten'
  <2>1. \A n \in Peers : streamDone[n] # None => streamDone[n] \notin ended /\ owner[streamDone[n]] = n
    BY DEF IInv, Streams, Forgotten
  <2>2. \A n \in Peers : streamDone'[n] # None =>
           streamDone'[n] = streamDone[n] /\ n # m /\ streamDone[n] # s
    BY <1>1, <1>8, <2>1 DEF m
  <2>3. superseded' \cap ended' = {}
    BY <1>2 DEF IInv, Streams, Forgotten
  <2> QED
    BY <1>2, <2>1, <2>2, <2>3 DEF Forgotten
<1>14. RunningIsRead'
  <2>1. ASSUME NEW x \in Attachments, Runs(x)'
        PROVE  streamDone'[owner[x]] = x /\ view[owner[x]] = x
    <3>1. Runs(x) /\ x # s
      <4>1. CASE t = Str(s)
        BY <1>1, <1>3, <1>4, <1>5, <2>1, <4>1, Kinds DEF Runs, Becomes, Others
      <4>2. CASE t = Req(m)
        <5>1. th[Str(s)].pc = "idle" /\ th'[Str(x)] = th[Str(x)]
          BY <1>1, <1>5, <4>2, Kinds DEF IInv, Streams, StandsAlone, Others, Entered, s
        <5> QED
          BY <2>1, <5>1 DEF Runs
      <4> QED
        BY <1>1, <4>1, <4>2
    <3>2. streamDone[owner[x]] = x /\ view[owner[x]] = x /\ owner[x] \in Peers
      BY <3>1 DEF IInv, TypeOK, Streams, RunningIsRead
    <3>3. owner[x] # m
      BY <1>1, <3>1, <3>2
    <3> QED
      BY <1>8, <3>2, <3>3
  <2> QED
    BY <1>2, <2>1 DEF IInv, Streams, RunningIsRead
<1>15. Feeds' /\ Sizes'
  <2>1. FeedFrame(t) /\ SizeFrame(t)
    BY <1>2, <1>3, <1>4 DEF FeedFrame, SizeFrame, Becomes, Holding, Captured
  <2>2. TypeOK /\ Made /\ Feeds /\ Sizes
    BY DEF IInv
  <2> QED
    BY <1>2, <1>5, <1>7, <2>1, <2>2, FeedsKept, SizesKept
<1>16. SupersededAwaited' /\ CalmThreads' /\ Reported'
  <2>1. AwaitFrame(t) /\ ReportFrame(t) /\ CalmOf(t)'
    BY <1>1, <1>2, <1>3, <1>4, Kinds
      DEF AwaitFrame, ReportFrame, CalmOf, Becomes, Captured, Replying,
       Ends, Attaching, AfterHold, Holding, DetachStages
  <2>2. /\ TypeOK /\ Made /\ SupersededAwaited /\ CalmThreads /\ Reported
        /\ superseded' \subseteq superseded /\ None \notin superseded
        /\ used' \in [world : Worlds, disconnects : Nat, resizes : Nat]
    BY <1>2 DEF IInv, Reports, TypeOK, Attachments, None
  <2>3. SupersededAwaited'
    BY <1>5, <2>1, <2>2, AwaitedKept
  <2>4. CalmThreads'
    BY <1>2, <1>5, <1>7, <2>1, <2>2, CalmKept
  <2>5. Reported'
    BY <1>2, <1>5, <1>7, <2>1, <2>2, ReportedKept
  <2> QED
    BY <2>3, <2>4, <2>5
<1> QED
  BY <1>6, <1>9, <1>10, <1>11, <1>12, <1>13, <1>14, <1>15, <1>16 DEF IInv, Streams, Reports

-----------------------------------------------------------------------------
(* The attach takes the pane.                                               *)

\* The bridge whose pipe was taken learns of it.
LEMMA DisplaceStep ==
    ASSUME IInv, NEW m \in Peers, Displace(m)
    PROVE  IInv'
<1> DEFINE t == Req(m)
           a == th[t].att
<1>1. /\ t \in Threads /\ th[t].pc = "displace" /\ born' = born
      /\ UNCHANGED <<pane, pipe, cancelled>>
      /\ bridge' = IF a # None /\ bridge[a] = "open" THEN [bridge EXCEPT ![a] = "displaced"] ELSE bridge
  BY Kinds DEF Displace, Req, At, handlerVars
<1>2. Becomes(t, "insert", th[t].own, th[t].want, None, th[t].done, th[t].rel, th[t].ret)
  BY DisplaceEffect DEF IInv
<1>3. /\ a \in Attachments \cup {None} /\ a <= born /\ born \in Nat
      /\ bridge \in [Attachments -> {"none", "open", "displaced", "closed"}]
      /\ \A s \in Attachments : s > born => bridge[s] = "none"
  BY <1>1, ThreadFields, ThreadInv DEF IInv, TypeOK, Made, MadeOf
<1>4. /\ bridge' \in [Attachments -> {"none", "open", "displaced", "closed"}]
      /\ \A s \in Attachments : bridge'[s] = IF s = a /\ bridge[s] = "open" THEN "displaced"
                                             ELSE bridge[s]
  BY <1>1, <1>3 DEF Attachments, None
<1>5. ReqCore(m)
  BY <1>1, <1>2, <1>3, ThreadInv
    DEF None, Becomes, ReqCore, ReqShape, CaptureShape, MadeOf, ReqFrame,
     AwaitFrame, Stands, Entered, Settled, Vacated, Replying, Ends,
     Captured, Holding, AfterHold, Attaching, DetachStages
<1>6. Others(t) /\ th' \in [Threads -> ThreadStates] /\ SizeFrame(t)
  BY <1>1, <1>2 DEF Becomes, SizeFrame, Holding, Captured
<1>7. Feeds'
  <2>1. ASSUME NEW s \in Attachments, bridge'[s] = "open"
        PROVE  \/ pipe[pane[s]] = s
               \/ \E o \in Peers : th'[Req(o)].pc = "displace" /\ th'[Req(o)].att = s
    <3>1. bridge[s] = "open" /\ s # a
      BY <1>4, <2>1
    <3>2. \A o \in Peers : th[Req(o)].att = s => th'[Req(o)] = th[Req(o)] \/ o = m
      BY <1>6, Kinds DEF Others
    <3> QED
      BY <3>1, <3>2 DEF IInv, Feeds
  <2>2. \A s \in Attachments : bridge'[s] = "closed" => bridge[s] = "closed"
    BY <1>4
  <2> QED
    BY <1>1, <2>1, <2>2 DEF IInv, Feeds
<1>8. /\ \A s \in Attachments : (bridge[s] = "closed" \/ s > born) => bridge'[s] = bridge[s]
      /\ pipe' \in [Panes -> Attachments \cup {None}]
      /\ \A p \in Panes : pipe'[p] <= born
  BY <1>1, <1>3, <1>4 DEF IInv, TypeOK, Made
<1>9. PlainCore(t)
  BY <1>5, RequestIsCore
<1> QED
  BY <1>1, <1>4, <1>6, <1>7, <1>8, <1>9, BridgeStep DEF Displace

\* The new attachment is nobody's yet.
LEMMA AttachPaneStep ==
    ASSUME IInv, NEW m \in Peers, AttachPane(m)
    PROVE  IInv'
<1> DEFINE t == Req(m)
           s == born + 1
           p == th[t].want
<1>1. /\ t \in Threads /\ th[t].pc = "attach" /\ p \in alive /\ s \in Attachments
      /\ born' = s
      /\ owner' = [owner EXCEPT ![s] = m]
      /\ pane' = [pane EXCEPT ![s] = p]
      /\ bridge' = [bridge EXCEPT ![s] = "open"]
      /\ pipe' = [pipe EXCEPT ![p] = s]
      /\ UNCHANGED <<alive, forced, manual, bridges, streamDone, exitNotified, superseded, cancelled,
                     ended, view, told, used>>
  BY Kinds DEF AttachPane, Req, At, sizeVars, handlerVars, mobileVars
<1>2. Becomes(t, "displace", s, p, pipe[p], th[t].done, NoPane, th[t].ret)
  BY AttachPaneEffect DEF IInv
<1>3. born \in Nat /\ p \in Panes /\ p \in used.world.panes /\ pipe[p] <= born
  BY <1>1 DEF IInv, TypeOK, Made
<1>4. /\ bridge[s] = "none" /\ th[Str(s)].pc = "idle" /\ th[Wat(s)].pc = "idle" /\ s \notin ended
  BY <1>1, <1>3 DEF IInv, Made
<1>5. Others(t) /\ th' \in [Threads -> ThreadStates]
  BY <1>2 DEF Becomes
<1>6. /\ \A x \in Attachments :
           /\ owner'[x] = IF x = s THEN m ELSE owner[x]
           /\ pane'[x] = IF x = s THEN p ELSE pane[x]
           /\ bridge'[x] = IF x = s THEN "open" ELSE bridge[x]
      /\ \A q \in Panes : pipe'[q] = IF q = p THEN s ELSE pipe[q]
  BY <1>1, <1>3 DEF IInv, TypeOK
<1>7. TypeOK'
  BY <1>1, <1>3, <1>5 DEF IInv, TypeOK, Attachments
<1> HIDE DEF s, p
<1>8. s \in Nat /\ s = born + 1
  BY <1>3 DEF s
<1>9. Steady
  BY <1>1, <1>3, <1>4, <1>6, <1>8 DEF Steady, IInv, TypeOK
<1>10. Shapes'
  <2>1. ReqShape(m)' /\ CaptureShape(t)'
    BY <1>2 DEF ReqShape, CaptureShape, Becomes, Captured, DetachStages, Attaching
  <2>2. ShapeOf(t)'
    BY <2>1, Kinds DEF ShapeOf
  <2> QED
    BY <1>1, <1>5, <1>9, <2>2, ShapesKept DEF IInv
<1>11. Made'
  <2>1. \A n \in Peers : bridges'[n] <= s /\ streamDone'[n] <= s /\ view'[n] <= s
    <3>1. \A n \in Peers : bridges[n] \in Nat /\ streamDone[n] \in Nat /\ view[n] \in Nat
      BY DEF IInv, TypeOK, Attachments, None
    <3> QED
      BY <1>1, <1>3, <1>8, <3>1 DEF IInv, Made
  <2>2. \A q \in Panes : pipe'[q] <= s
    <3>1. \A q \in Panes : pipe[q] \in Nat
      BY DEF IInv, TypeOK, Attachments, None
    <3> QED
      BY <1>3, <1>6, <1>8, <3>1 DEF IInv, Made
  <2>3. \A u \in Threads : th'[u].own <= s /\ th'[u].att <= s /\ th'[u].done <= s
    <3>1. \A u \in Threads : th[u].own \in Nat /\ th[u].att \in Nat /\ th[u].done \in Nat
      BY ThreadFields DEF IInv, Attachments, None
    <3>2. pipe[p] \in Nat
      BY <1>3 DEF IInv, TypeOK, Attachments, None
    <3> QED
      BY <1>1, <1>2, <1>3, <1>5, <1>8, <3>1, <3>2 DEF IInv, Made, Becomes, Others
  <2>4. \A x \in Attachments : x > s =>
           bridge'[x] = "none" /\ th'[Str(x)].pc = "idle" /\ th'[Wat(x)].pc = "idle" /\ x \notin ended'
    <3>1. \A x \in Attachments : x > s => x > born /\ x # s
      BY <1>3, <1>8 DEF Attachments
    <3>2. \A x \in Attachments : th'[Str(x)] = th[Str(x)] /\ th'[Wat(x)] = th[Wat(x)]
      BY <1>5, Kinds DEF Others
    <3> QED
      BY <1>1, <1>6, <3>1, <3>2 DEF IInv, Made
  <2>5. \A x \in Attachments : x <= s => pane'[x] \in used.world.panes
    <3>1. \A x \in Attachments : x <= s => x <= born \/ x = s
      BY <1>3, <1>8 DEF Attachments
    <3> QED
      BY <1>3, <1>6, <3>1 DEF IInv, Made
  <2> QED
    BY <1>1, <2>1, <2>2, <2>3, <2>4, <2>5 DEF IInv, Made
<1>12. \A x \in Attachments : x <= born => x # s
  BY <1>3, <1>8 DEF Attachments
<1>13. StandsAlone'
  <2> SUFFICES ASSUME NEW n \in Peers, Stands(n)'
               PROVE  LET x == th'[Req(n)].own
                      IN  /\ x # None /\ owner'[x] = n /\ x \notin ended'
                          /\ th'[Str(x)].pc = "idle" /\ th'[Wat(x)].pc = "idle"
                          /\ Entered(n)' => streamDone'[n] = x
                          /\ Entered(n)' /\ th'[Req(n)].pc # "attached" => view'[n] = x
                          /\ th'[Req(n)].pc \in {"displace", "insert"} => pane'[x] = th'[Req(n)].want
    BY DEF StandsAlone, Entered, Stands
  <2>1. \A x \in Attachments : th'[Str(x)] = th[Str(x)] /\ th'[Wat(x)] = th[Wat(x)]
    BY <1>5, Kinds DEF Others
  <2>2. CASE n = m
    <3>1. ~Entered(n)' /\ th'[Req(n)].own = s /\ th'[Req(n)].want = p
      BY <1>2, <2>2 DEF Becomes, Entered
    <3> QED
      BY <1>1, <1>4, <1>6, <2>1, <2>2, <3>1 DEF Attachments, None
  <2>3. CASE n # m
    <3>1. th'[Req(n)] = th[Req(n)]
      BY <1>5, <2>3, Kinds DEF Others
    <3>2. Stands(n) /\ (Entered(n)' => Entered(n))
      BY <3>1 DEF Stands, Entered
    <3> DEFINE x == th[Req(n)].own
    <3>3. /\ x \in Attachments /\ x <= born /\ owner[x] = n /\ x \notin ended /\ x # None
          /\ th[Str(x)].pc = "idle" /\ th[Wat(x)].pc = "idle"
          /\ Entered(n) => streamDone[n] = x
          /\ Entered(n) /\ th[Req(n)].pc # "attached" => view[n] = x
          /\ th[Req(n)].pc \in {"displace", "insert"} => pane[x] = th[Req(n)].want
      BY <3>2, Kinds, ThreadFields DEF IInv, Made, Streams, StandsAlone
    <3>4. x # s
      BY <1>12, <3>3
    <3>5. th'[Req(n)].own = x
      BY <3>1
    <3> HIDE DEF x
    <3> QED
      BY <1>1, <1>6, <2>1, <3>1, <3>2, <3>3, <3>4, <3>5
  <2> QED
    BY <2>2, <2>3
<1>14. RequestWaits'
  <2> SUFFICES ASSUME NEW n \in Peers
               PROVE  /\ Settled(n)' => streamDone[n] = None
                      /\ th'[Req(n)].pc \in Captured /\ th'[Req(n)].ret \in {"track", "detached"} =>
                            streamDone[n] \in {None, th'[Req(n)].done}
                      /\ Vacated(n)' => bridges[n] = None
    BY <1>1 DEF RequestWaits
  <2>1. CASE n = m
    <3>1. Settled(n) /\ Vacated(n) /\ th'[Req(n)].pc \notin Captured
      BY <1>1, <1>2, <2>1 DEF Settled, Vacated, Attaching, Becomes, Captured
    <3> QED
      BY <3>1 DEF IInv, Streams, RequestWaits
  <2>2. CASE n # m
    <3>1. th'[Req(n)] = th[Req(n)]
      BY <1>5, <2>2, Kinds DEF Others
    <3> QED
      BY <3>1 DEF IInv, Streams, RequestWaits, Settled, Vacated
  <2> QED
    BY <2>1, <2>2
<1>15. Forgotten'
  <2>1. \A n \in Peers : streamDone[n] # None => streamDone[n] \in Attachments /\ streamDone[n] # s
    BY <1>12 DEF IInv, TypeOK, Made
  <2> QED
    BY <1>1, <1>6, <2>1 DEF IInv, Streams, Forgotten
<1>16. RunningIsRead'
  <2>1. \A x \in Attachments : Runs(x)' => Runs(x) /\ x # s
    BY <1>4, <1>5, Kinds DEF Runs, Others
  <2>2. \A n \in Peers : view[n] # None => view[n] \in Attachments /\ view[n] # s
    BY <1>12 DEF IInv, TypeOK, Made
  <2> QED
    BY <1>1, <1>6, <2>1, <2>2 DEF IInv, Streams, RunningIsRead
<1>17. Feeds'
  <2>1. \A q \in Panes : pipe'[q] # None => pane'[pipe'[q]] = q
    <3>1. \A q \in Panes : pipe[q] # None => pipe[q] \in Attachments /\ pipe[q] # s
      BY <1>12 DEF IInv, TypeOK, Made
    <3> QED
      BY <1>1, <1>6, <3>1 DEF IInv, Feeds
  <2>2. \A x \in Attachments : bridge'[x] = "closed" => x \in cancelled'
    BY <1>1, <1>6 DEF IInv, Feeds
  <2>3. ASSUME NEW x \in Attachments, bridge'[x] = "open"
        PROVE  \/ pipe'[pane'[x]] = x
               \/ \E o \in Peers : th'[Req(o)].pc = "displace" /\ th'[Req(o)].att = x
    <3>1. CASE x = s
      BY <1>3, <1>6, <3>1
    <3>2. CASE x # s /\ pipe[pane[x]] = x /\ pane[x] = p
      BY <1>2, <3>2 DEF Becomes
    <3>3. CASE x # s /\ pipe[pane[x]] = x /\ pane[x] # p
      <4>1. pane[x] \in Panes
        <5>1. x <= born
          BY <1>6, <2>3, <3>3 DEF IInv, Made, TypeOK, Attachments
        <5> QED
          BY <5>1, AttachAssumption DEF IInv, Made, TypeOK
      <4> QED
        BY <1>6, <3>3, <4>1
    <3>4. CASE \E o \in Peers : th[Req(o)].pc = "displace" /\ th[Req(o)].att = x
      <4>1. PICK o \in Peers : th[Req(o)].pc = "displace" /\ th[Req(o)].att = x
        BY <3>4
      <4>2. th'[Req(o)] = th[Req(o)]
        BY <1>1, <1>5, <4>1, Kinds DEF Others
      <4> QED
        BY <4>1, <4>2
    <3>5. x # s => bridge[x] = "open"
      BY <1>6, <2>3
    <3> QED
      BY <3>1, <3>2, <3>3, <3>4, <3>5 DEF IInv, Feeds
  <2> QED
    BY <2>1, <2>2, <2>3 DEF Feeds
<1>18. Sizes'
  <2>1. Unresized' => Unresized
    BY <1>1 DEF Unresized
  <2>2. \A n \in Peers : Unresized => th'[Req(n)].pc # "resize"
    BY <1>2, <1>5, Kinds DEF Others, Becomes, IInv, Sizes
  <2>3. \A q : SizeInHand(q) => SizeInHand(q)'
    BY <1>1, <1>5 DEF SizeInHand, Others
  <2>4. ASSUME NEW q \in forced PROVE WillRelease(q)'
    <3>1. WillRelease(q) /\ q # NoPane
      BY PaneAssumption DEF IInv, Sizes, TypeOK
    <3>2. CASE \E n \in Peers : bridges[n] # None /\ pane[bridges[n]] = q
      <4>1. \A n \in Peers : bridges[n] # None => bridges[n] \in Attachments /\ bridges[n] # s
        BY <1>12 DEF IInv, TypeOK, Made
      <4> QED
        BY <1>1, <1>6, <3>2, <4>1 DEF WillRelease
    <3>3. CASE \E u \in Threads : th[u].pc \in Holding \cup {"attach"} /\ th[u].rel = q
      <4>1. PICK u \in Threads : th[u].pc \in Holding \cup {"attach"} /\ th[u].rel = q
        BY <3>3
      <4>2. CASE u # t
        BY <1>5, <4>1, <4>2 DEF WillRelease, Others
      <4>3. CASE u = t
        <5>1. p = q
          BY <1>1, <3>1, <4>1, <4>3, ThreadInv DEF ReqShape, p
        <5> QED
          BY <1>2, <5>1 DEF WillRelease, Becomes
      <4> QED
        BY <4>2, <4>3
    <3>4. CASE \E n \in Peers : th[Req(n)].pc \in {"displace", "insert"} /\ th[Req(n)].want = q
      BY <1>1, <1>5, <3>4, Kinds DEF WillRelease, Others
    <3> QED
      BY <3>1, <3>2, <3>3, <3>4 DEF WillRelease
  <2> QED
    BY <1>1, <2>1, <2>2, <2>3, <2>4 DEF IInv, Sizes
<1>19. SupersededAwaited' /\ CalmThreads' /\ Reported'
  <2>1. AwaitFrame(t) /\ ReportFrame(t) /\ CalmOf(t)'
    BY <1>1, <1>2, Kinds DEF AwaitFrame, ReportFrame, CalmOf, Becomes, Captured, Replying,
       Ends, Attaching, AfterHold, Holding, DetachStages
  <2>2. /\ TypeOK /\ Made /\ SupersededAwaited /\ CalmThreads /\ Reported
        /\ superseded' \subseteq superseded /\ None \notin superseded
        /\ used' \in [world : Worlds, disconnects : Nat, resizes : Nat]
    BY <1>1 DEF IInv, Reports, TypeOK, Attachments, None
  <2>3. SupersededAwaited'
    BY <1>1, <1>5, <2>1, <2>2, AwaitedKept
  <2>4. CalmThreads'
    BY <1>1, <1>5, <1>9, <2>1, <2>2, CalmKept
  <2>5. Reported'
    BY <1>1, <1>5, <1>9, <2>1, <2>2, ReportedKept
  <2> QED
    BY <2>3, <2>4, <2>5
<1> QED
  BY <1>7, <1>10, <1>11, <1>13, <1>14, <1>15, <1>16, <1>17, <1>18, <1>19 DEF IInv, Streams, Reports

\* The bridge enters the maps: the peer had none, and nothing streams to it.
LEMMA InsertBridgeStep ==
    ASSUME IInv, NEW m \in Peers, InsertBridge(m)
    PROVE  IInv'
<1> DEFINE t == Req(m)
           s == th[t].own
<1>1. /\ t \in Threads /\ th[t].pc = "insert"
      /\ bridges' = [bridges EXCEPT ![m] = s]
      /\ streamDone' = [streamDone EXCEPT ![m] = s]
      /\ UNCHANGED <<alive, born, owner, pane, bridge, pipe, forced, manual, exitNotified, superseded,
                     cancelled, ended, view, told, used>>
  BY Kinds DEF InsertBridge, Req, At, bridgeVars, sizeVars, mobileVars
<1>2. Jumps(t, "attached")
  BY <1>1, GotoEffect DEF IInv, InsertBridge, Req, Places
<1>3. Others(t) /\ th' \in [Threads -> ThreadStates] /\ th'[t].pc = "attached" /\ th'[t].own = s
  BY <1>2 DEF Jumps, Becomes
<1>4. /\ s \in Attachments /\ s <= born /\ s # None /\ owner[s] = m /\ s \notin ended
      /\ th[Str(s)].pc = "idle" /\ th[Wat(s)].pc = "idle" /\ pane[s] = th[t].want
  BY <1>1, ThreadFields DEF IInv, Made, Streams, StandsAlone, Stands
<1>5. /\ Settled(m) /\ Vacated(m) /\ streamDone[m] = None /\ bridges[m] = None
  BY <1>1 DEF Settled, Vacated, Attaching, IInv, Streams, RequestWaits
<1>6. \A n \in Peers : /\ bridges'[n] = IF n = m THEN s ELSE bridges[n]
                       /\ streamDone'[n] = IF n = m THEN s ELSE streamDone[n]
  BY <1>1 DEF IInv, TypeOK
<1>7. TypeOK'
  BY <1>1, <1>3, <1>4 DEF IInv, TypeOK
<1>8. Steady
  BY <1>1 DEF IInv, TypeOK, Steady
<1> HIDE DEF s
<1>9. Shapes'
  <2>1. ReqShape(m)' /\ CaptureShape(t)'
    BY <1>3 DEF ReqShape, CaptureShape, Captured, DetachStages, Attaching
  <2>2. ShapeOf(t)'
    BY <2>1, Kinds DEF ShapeOf
  <2> QED
    BY <1>1, <1>3, <1>8, <2>2, ShapesKept DEF IInv
<1>10. Made'
  <2>1. MadeFrame(t)
    BY <1>1, <1>2, ThreadInv, Kinds DEF MadeFrame, MadeOf, Jumps, Becomes
  <2>2. \A n \in Peers : bridges'[n] <= born /\ streamDone'[n] <= born /\ view'[n] <= born
    BY <1>1, <1>4, <1>6 DEF IInv, Made
  <2> QED
    BY <1>1, <1>3, <1>8, <2>1, <2>2, MadeKept DEF IInv, Made
<1>11. \A n \in Peers : n # m => th'[Req(n)] = th[Req(n)]
  BY <1>3, Kinds DEF Others
<1>12. \A x \in Attachments : th'[Str(x)] = th[Str(x)] /\ th'[Wat(x)] = th[Wat(x)]
  BY <1>3, Kinds DEF Others
<1>13. StandsAlone'
  <2> SUFFICES ASSUME NEW n \in Peers, Stands(n)'
               PROVE  LET x == th'[Req(n)].own
                      IN  /\ x # None /\ owner'[x] = n /\ x \notin ended'
                          /\ th'[Str(x)].pc = "idle" /\ th'[Wat(x)].pc = "idle"
                          /\ Entered(n)' => streamDone'[n] = x
                          /\ Entered(n)' /\ th'[Req(n)].pc # "attached" => view'[n] = x
                          /\ th'[Req(n)].pc \in {"displace", "insert"} => pane'[x] = th'[Req(n)].want
    BY DEF StandsAlone, Entered, Stands
  <2>1. CASE n = m
    BY <1>1, <1>3, <1>4, <1>6, <1>12, <2>1
  <2>2. CASE n # m
    <3>1. Stands(n) /\ (Entered(n)' => Entered(n)) /\ th'[Req(n)] = th[Req(n)]
      BY <1>11, <2>2 DEF Stands, Entered
    <3> DEFINE x == th[Req(n)].own
    <3>2. /\ x \in Attachments /\ owner[x] = n /\ x \notin ended /\ x # None
          /\ th[Str(x)].pc = "idle" /\ th[Wat(x)].pc = "idle"
          /\ Entered(n) => streamDone[n] = x
          /\ Entered(n) /\ th[Req(n)].pc # "attached" => view[n] = x
          /\ th[Req(n)].pc \in {"displace", "insert"} => pane[x] = th[Req(n)].want
      BY <3>1, Kinds, ThreadFields DEF IInv, Streams, StandsAlone
    <3>3. th'[Req(n)].own = x
      BY <3>1
    <3> HIDE DEF x
    <3> QED
      BY <1>1, <1>6, <1>12, <2>2, <3>1, <3>2, <3>3
  <2> QED
    BY <2>1, <2>2
<1>14. RequestWaits'
  <2> SUFFICES ASSUME NEW n \in Peers
               PROVE  /\ Settled(n)' => streamDone'[n] = None
                      /\ th'[Req(n)].pc \in Captured /\ th'[Req(n)].ret \in {"track", "detached"} =>
                            streamDone'[n] \in {None, th'[Req(n)].done}
                      /\ Vacated(n)' => bridges'[n] = None
    BY DEF RequestWaits
  <2>1. CASE n = m
    BY <1>3, <2>1 DEF Settled, Vacated, Captured, AfterHold, Holding, Attaching
  <2>2. CASE n # m
    BY <1>6, <1>11, <2>2 DEF IInv, Streams, RequestWaits, Settled, Vacated
  <2> QED
    BY <2>1, <2>2
<1>15. Forgotten'
  BY <1>1, <1>4, <1>6 DEF IInv, Streams, Forgotten
<1>16. RunningIsRead'
  <2>1. \A x \in Attachments : Runs(x)' => Runs(x) /\ owner[x] # m /\ owner[x] \in Peers
    BY <1>5, <1>12, StartsAlone DEF Runs, IInv, TypeOK
  <2> QED
    BY <1>1, <1>6, <2>1 DEF IInv, Streams, RunningIsRead
<1>17. Feeds'
  BY <1>1, <1>3, <1>8, FeedsKept DEF IInv, FeedFrame
<1>18. Sizes'
  <2>1. Unresized' => Unresized
    BY <1>1 DEF Unresized
  <2>2. \A n \in Peers : Unresized => th'[Req(n)].pc # "resize"
    BY <1>3, <1>11 DEF IInv, Sizes
  <2>3. \A q : SizeInHand(q) => SizeInHand(q)'
    BY <1>1, <1>3 DEF SizeInHand, Others
  <2>4. ASSUME NEW q \in forced PROVE WillRelease(q)'
    <3>1. WillRelease(q)
      BY DEF IInv, Sizes
    <3>2. CASE \E n \in Peers : bridges[n] # None /\ pane[bridges[n]] = q
      BY <1>1, <1>5, <1>6, <3>2 DEF WillRelease
    <3>3. CASE \E u \in Threads : th[u].pc \in Holding \cup {"attach"} /\ th[u].rel = q
      BY <1>1, <1>3, <3>3 DEF WillRelease, Others, Holding, Captured
    <3>4. CASE \E n \in Peers : th[Req(n)].pc \in {"displace", "insert"} /\ th[Req(n)].want = q
      <4>1. PICK n \in Peers : th[Req(n)].pc \in {"displace", "insert"} /\ th[Req(n)].want = q
        BY <3>4
      <4>2. CASE n = m
        BY <1>1, <1>4, <1>6, <4>1, <4>2 DEF WillRelease
      <4>3. CASE n # m
        BY <1>11, <4>1, <4>3 DEF WillRelease
      <4> QED
        BY <4>2, <4>3
    <3> QED
      BY <3>1, <3>2, <3>3, <3>4 DEF WillRelease
  <2> QED
    BY <1>1, <2>1, <2>2, <2>3, <2>4 DEF IInv, Sizes
<1>19. SupersededAwaited' /\ CalmThreads'
  <2>1. AwaitFrame(t) /\ CalmOf(t)'
    BY <1>1, <1>3, <1>6, Kinds DEF AwaitFrame, CalmOf, Captured, DetachStages
  <2>2. /\ TypeOK /\ Made /\ SupersededAwaited /\ CalmThreads
        /\ superseded' \subseteq superseded /\ None \notin superseded
        /\ used' \in [world : Worlds, disconnects : Nat, resizes : Nat]
    BY <1>1 DEF IInv, Reports, TypeOK, Attachments, None
  <2>3. SupersededAwaited'
    BY <1>1, <1>3, <2>1, <2>2, AwaitedKept
  <2>4. \A n \in Peers : th[Req(n)].pc \in {"attached", "pre"} => bridges'[n] = bridges[n]
    BY <1>1, <1>6
  <2>5. CalmThreads'
    BY <1>1, <1>3, <1>8, <2>1, <2>2, <2>4, CalmKept
  <2> QED
    BY <2>3, <2>5
<1>20. Reported'
  <2> SUFFICES ASSUME Calm', NEW n \in Peers, view[n] \notin told \cup {None}
               PROVE  \/ bridges'[n] = view[n]
                      \/ Replying(n)'
                      \/ Ends(Str(view[n]), view[n])' \/ Ends(Req(n), view[n])'
    BY <1>1 DEF Reported
  <2>1. CASE n = m
    BY <1>3, <2>1 DEF Replying
  <2>2. CASE n # m
    <3>1. /\ view[n] \in Attachments
          /\ \/ bridges[n] = view[n]
             \/ Replying(n)
             \/ Ends(Str(view[n]), view[n]) \/ Ends(Req(n), view[n])
      BY <1>1 DEF Calm, IInv, Reports, Reported, TypeOK
    <3> QED
      BY <1>1, <1>6, <1>11, <1>12, <2>2, <3>1 DEF Replying, Ends
  <2> QED
    BY <2>1, <2>2
<1> QED
  BY <1>7, <1>9, <1>10, <1>13, <1>14, <1>15, <1>16, <1>17, <1>18, <1>19, <1>20
  DEF IInv, Streams, Reports

-----------------------------------------------------------------------------
(* The replies.                                                             *)

\* The request tells its mobile what it is attached to now.
LEMMA ReplyStep ==
    ASSUME IInv, NEW m \in Peers, NEW v,
           Others(Req(m)), th' \in [Threads -> ThreadStates], MadeOf(Req(m))',
           view' = [view EXCEPT ![m] = v],
           UNCHANGED <<alive, bridgeVars, sizeVars, handlerVars, told, used>>,
           \/ /\ th[Req(m)].pc = "attached" /\ th'[Req(m)].pc = "pre"
              /\ v = th[Req(m)].own /\ th'[Req(m)].own = v
           \/ th[Req(m)].pc \in {"failed", "detached"} /\ th'[Req(m)].pc = "idle" /\ v = None
    PROVE  IInv'
<1> DEFINE t == Req(m)
<1>1. /\ t \in Threads
      /\ UNCHANGED <<alive, born, owner, pane, bridge, pipe, forced, manual, bridges, streamDone,
                     exitNotified, superseded, cancelled, ended, told, used>>
  BY Kinds DEF bridgeVars, sizeVars, handlerVars
<1>2. Entered(m) \/ Settled(m)
  BY DEF Entered, Stands, Settled, Attaching
<1>3. v \in Attachments \cup {None} /\ v <= born /\ (v # None => owner[v] = m)
  <2>1. Entered(m) => th[t].own \in Attachments /\ owner[th[t].own] = m /\ th[t].own <= born
    BY <1>1, ThreadFields DEF IInv, Streams, StandsAlone, Made, Entered
  <2>2. th[t].pc = "attached" => Entered(m)
    BY DEF Entered, Stands
  <2>3. None <= born
    BY DEF IInv, TypeOK, None
  <2> QED
    BY <2>1, <2>2, <2>3
<1>4. \A n \in Peers : view'[n] = IF n = m THEN v ELSE view[n]
  BY DEF IInv, TypeOK
<1>5. TypeOK'
  BY <1>1, <1>3 DEF IInv, TypeOK
<1>6. Steady
  BY <1>1 DEF IInv, TypeOK, Steady
<1>7. Shapes'
  <2>1. ReqShape(m)' /\ CaptureShape(t)'
    BY DEF ReqShape, CaptureShape, Captured, DetachStages, Attaching
  <2>2. ShapeOf(t)'
    BY <2>1, Kinds DEF ShapeOf
  <2> QED
    BY <1>1, <1>6, <2>2, ShapesKept DEF IInv
<1>8. Made'
  <2>1. MadeFrame(t)
    BY Kinds DEF MadeFrame
  <2>2. \A n \in Peers : bridges'[n] <= born /\ streamDone'[n] <= born /\ view'[n] <= born
    BY <1>1, <1>3, <1>4 DEF IInv, Made
  <2> QED
    BY <1>1, <1>6, <2>1, <2>2, MadeKept DEF IInv, Made
<1>9. \A n \in Peers : n # m => th'[Req(n)] = th[Req(n)]
  BY Kinds DEF Others
<1>10. \A x \in Attachments : th'[Str(x)] = th[Str(x)] /\ th'[Wat(x)] = th[Wat(x)]
  BY Kinds DEF Others
<1>11. StandsAlone'
  <2> SUFFICES ASSUME NEW n \in Peers, Stands(n)'
               PROVE  LET x == th'[Req(n)].own
                      IN  /\ x # None /\ owner'[x] = n /\ x \notin ended'
                          /\ th'[Str(x)].pc = "idle" /\ th'[Wat(x)].pc = "idle"
                          /\ Entered(n)' => streamDone'[n] = x
                          /\ Entered(n)' /\ th'[Req(n)].pc # "attached" => view'[n] = x
                          /\ th'[Req(n)].pc \in {"displace", "insert"} => pane'[x] = th'[Req(n)].want
    BY DEF StandsAlone, Entered, Stands
  <2> DEFINE x == th[Req(n)].own
  <2>1. Stands(n) /\ (Entered(n)' => Entered(n)) /\ th'[Req(n)].own = x
    BY <1>9 DEF Stands, Entered, DetachStages
  <2>2. /\ x \in Attachments /\ owner[x] = n /\ x \notin ended /\ x # None
        /\ th[Str(x)].pc = "idle" /\ th[Wat(x)].pc = "idle"
        /\ Entered(n) => streamDone[n] = x
        /\ Entered(n) /\ th[Req(n)].pc # "attached" => view[n] = x
        /\ th[Req(n)].pc \in {"displace", "insert"} => pane[x] = th[Req(n)].want
    BY <2>1, Kinds, ThreadFields DEF IInv, Streams, StandsAlone
  <2>3. n = m => v = x /\ th'[Req(n)].pc = "pre"
    BY <2>1 DEF Stands, DetachStages
  <2> HIDE DEF x
  <2> QED
    BY <1>1, <1>4, <1>9, <1>10, <2>1, <2>2, <2>3
<1>12. RequestWaits'
  <2> SUFFICES ASSUME NEW n \in Peers
               PROVE  /\ Settled(n)' => streamDone[n] = None
                      /\ th'[Req(n)].pc \in Captured /\ th'[Req(n)].ret \in {"track", "detached"} =>
                            streamDone[n] \in {None, th'[Req(n)].done}
                      /\ Vacated(n)' => bridges[n] = None
    BY <1>1 DEF RequestWaits
  <2>1. CASE n = m
    BY <2>1 DEF Settled, Vacated, Captured, AfterHold, Holding, Attaching
  <2>2. CASE n # m
    BY <1>9, <2>2 DEF IInv, Streams, RequestWaits, Settled, Vacated
  <2> QED
    BY <2>1, <2>2
<1>13. Forgotten'
  BY <1>1 DEF IInv, Streams, Forgotten
<1>14. RunningIsRead'
  <2>1. \A x \in Attachments : Runs(x)' => Runs(x) /\ owner[x] # m /\ owner[x] \in Peers
    BY <1>2, <1>10, StartsAlone DEF Runs, IInv, TypeOK
  <2> QED
    BY <1>1, <1>3, <1>4, <2>1 DEF IInv, Streams, RunningIsRead
<1>15. Feeds' /\ Sizes'
  <2>1. FeedFrame(t) /\ SizeFrame(t)
    BY DEF FeedFrame, SizeFrame, Holding, Captured
  <2>2. TypeOK /\ Made /\ Feeds /\ Sizes
    BY DEF IInv
  <2> QED
    BY <1>1, <1>6, <2>1, <2>2, FeedsKept, SizesKept
<1>16. SupersededAwaited' /\ CalmThreads'
  <2>1. AwaitFrame(t)
    BY DEF AwaitFrame, Captured
  <2>2. Calm' => CalmOf(t)'
    <3>1. Calm => (th[t].pc = "attached" => bridges[m] = th[t].own)
      BY DEF IInv, Reports, CalmThreads
    <3> QED
      BY <1>1, <3>1, Kinds DEF Calm, CalmOf, DetachStages
  <2>3. /\ TypeOK /\ Made /\ SupersededAwaited /\ CalmThreads
        /\ superseded' \subseteq superseded /\ None \notin superseded
        /\ used' \in [world : Worlds, disconnects : Nat, resizes : Nat]
    BY <1>1 DEF IInv, Reports, TypeOK, Attachments, None
  <2>4. SupersededAwaited'
    BY <1>1, <2>1, <2>3, AwaitedKept
  <2>5. CalmThreads'
    BY <1>1, <1>6, <2>2, <2>3, CalmKept
  <2> QED
    BY <2>4, <2>5
<1>17. Reported'
  <2> SUFFICES ASSUME Calm', NEW n \in Peers, view'[n] \notin told \cup {None}
               PROVE  \/ bridges[n] = view'[n]
                      \/ Replying(n)'
                      \/ Ends(Str(view[n]), view[n])' \/ Ends(Req(n), view[n])'
    BY <1>1 DEF Reported
  <2>1. Calm
    BY <1>1 DEF Calm
  <2>2. CASE n = m
    <3>1. th[t].pc = "attached" => bridges[m] = th[t].own
      BY <2>1 DEF IInv, Reports, CalmThreads
    <3> QED
      BY <1>4, <2>2, <3>1
  <2>3. CASE n # m
    <3>1. /\ view[n] \in Attachments /\ view'[n] = view[n]
          /\ \/ bridges[n] = view[n]
             \/ Replying(n)
             \/ Ends(Str(view[n]), view[n]) \/ Ends(Req(n), view[n])
      BY <1>4, <2>1, <2>3 DEF IInv, Reports, Reported, TypeOK
    <3> QED
      BY <1>1, <1>9, <1>10, <2>3, <3>1 DEF Replying, Ends
  <2> QED
    BY <2>2, <2>3
<1> QED
  BY <1>5, <1>7, <1>8, <1>11, <1>12, <1>13, <1>14, <1>15, <1>16, <1>17 DEF IInv, Streams, Reports

\* The three replies.
LEMMA SendAttachedStep ==
    ASSUME IInv, NEW m \in Peers, SendAttached(m)
    PROVE  IInv'
<1>1. Jumps(Req(m), "pre") /\ th[Req(m)].pc = "attached" /\ born' = born
  BY GotoEffect, Kinds DEF IInv, SendAttached, Req, Places, At, bridgeVars
<1>2. view' = [view EXCEPT ![m] = th[Req(m)].own]
  BY DEF SendAttached, Req
<1>3. MadeOf(Req(m))'
  BY <1>1, ThreadInv DEF MadeOf, Jumps, Becomes
<1> QED
  BY <1>1, <1>2, <1>3, ReplyStep DEF SendAttached, Jumps, Becomes

LEMMA AttachFailedStep ==
    ASSUME IInv, NEW m \in Peers, AttachFailed(m)
    PROVE  IInv'
<1>1. /\ Becomes(Req(m), "idle", None, NoPane, None, None, NoPane, "idle")
      /\ th[Req(m)].pc = "failed" /\ born' = born
  BY IdleEffect, Kinds DEF IInv, AttachFailed, Req, At, bridgeVars
<1>2. born \in Nat
  BY DEF IInv, TypeOK
<1>3. MadeOf(Req(m))'
  BY <1>1, <1>2 DEF MadeOf, Becomes, None
<1> QED
  BY <1>1, <1>3, ReplyStep DEF AttachFailed, Becomes

LEMMA SendDetachedStep ==
    ASSUME IInv, NEW m \in Peers, SendDetached(m)
    PROVE  IInv'
<1>1. /\ Becomes(Req(m), "idle", None, NoPane, None, None, NoPane, "idle")
      /\ th[Req(m)].pc = "detached" /\ born' = born
  BY IdleEffect, Kinds DEF IInv, SendDetached, Req, At, bridgeVars
<1>2. born \in Nat
  BY DEF IInv, TypeOK
<1>3. MadeOf(Req(m))'
  BY <1>1, <1>2 DEF MadeOf, Becomes, None
<1> QED
  BY <1>1, <1>3, ReplyStep DEF SendDetached, Becomes

\* The stream and its watcher take over from the request.
LEMMA StartStreamStep ==
    ASSUME IInv, NEW m \in Peers, StartStream(m)
    PROVE  IInv'
<1> DEFINE t == Req(m)
<1>1. /\ t \in Threads /\ th[t].pc = "pre" /\ Entered(m)
      /\ UNCHANGED <<alive, born, owner, pane, bridge, pipe, forced, manual, bridges, streamDone,
                     exitNotified, superseded, cancelled, ended, view, told, used>>
  BY Kinds DEF StartStream, Req, At, Entered, Stands, bridgeVars, sizeVars, handlerVars, mobileVars
<1>2. PICK s \in Attachments :
        /\ s = th[t].own /\ s <= born /\ owner[s] = m /\ streamDone[m] = s /\ view[m] = s
        /\ th[Str(s)].pc = "idle" /\ th[Wat(s)].pc = "idle"
  BY <1>1, ThreadFields DEF IInv, Streams, StandsAlone, Made, Entered
<1> DEFINE Movers == {t, Str(s), Wat(s)}
<1>3. /\ th'[t] = Blank
      /\ th'[Str(s)].pc = "check" /\ th'[Wat(s)].pc = "watch"
      /\ \A u \in {Str(s), Wat(s)} : th'[u].own = s /\ th'[u].att = None /\ th'[u].done = None
      /\ \A u \in Threads \ Movers : th'[u] = th[u]
      /\ th' \in [Threads -> ThreadStates]
  BY <1>2, StartStreamEffect DEF IInv
<1>4. /\ th'[t].pc = "idle" /\ th'[t].own = None /\ th'[t].att = None /\ th'[t].done = None
      /\ \A u \in Movers : th[u].pc \in {"pre", "idle"} /\ th'[u].pc \in {"idle", "check", "watch"}
  BY <1>1, <1>2, <1>3 DEF Blank
<1>5. TypeOK'
  BY <1>1, <1>3 DEF IInv, TypeOK
<1>6. Steady
  BY <1>1 DEF IInv, TypeOK, Steady
<1>7. \A n \in Peers : n # m => th'[Req(n)] = th[Req(n)]
  BY <1>3, Kinds
<1>8. \A n \in Peers : th'[Bye(n)] = th[Bye(n)]
  BY <1>3, Kinds
<1>9. \A x \in Attachments : x # s => th'[Str(x)] = th[Str(x)] /\ th'[Wat(x)] = th[Wat(x)]
  BY <1>3, Kinds
<1>10. Shapes'
  <2>1. \A u \in Threads \ Movers : ShapeOf(u)'
    BY <1>3, <1>6, ShapeSplit, ShapeKept DEF IInv
  <2>2. \A u \in Movers : CaptureShape(u)'
    BY <1>4 DEF CaptureShape, Captured
  <2>3. ReqShape(m)' /\ StreamShape(s)' /\ WatchShape(s)'
    BY <1>3, <1>4 DEF ReqShape, StreamShape, WatchShape, DetachStages, Attaching
  <2>4. \A u \in Movers : ShapeOf(u)'
    BY <2>2, <2>3, Kinds DEF ShapeOf
  <2> HIDE DEF Movers
  <2>5. \A u \in Threads : ShapeOf(u)'
    BY <2>1, <2>4
  <2> QED
    BY <2>5, Kinds DEF Shapes, ShapeOf
<1>11. Made'
  <2>1. born \in Nat
    BY DEF IInv, TypeOK
  <2>2. \A u \in Threads : MadeOf(u)'
    <3>1. \A u \in Movers : MadeOf(u)'
      BY <1>1, <1>2, <1>3, <1>4, <2>1 DEF MadeOf, None
    <3>2. \A u \in Threads \ Movers : MadeOf(u)'
      BY <1>1, <1>3, ThreadInv DEF MadeOf
    <3> QED
      BY <3>1, <3>2
  <2>3. \A x \in Attachments : x > born => x # s
    BY <1>2, <2>1 DEF Attachments
  <2> QED
    BY <1>1, <1>9, <2>2, <2>3 DEF IInv, Made, MadeOf
<1>12. StandsAlone'
  <2> SUFFICES ASSUME NEW n \in Peers, Stands(n)'
               PROVE  LET x == th'[Req(n)].own
                      IN  /\ x # None /\ owner'[x] = n /\ x \notin ended'
                          /\ th'[Str(x)].pc = "idle" /\ th'[Wat(x)].pc = "idle"
                          /\ Entered(n)' => streamDone'[n] = x
                          /\ Entered(n)' /\ th'[Req(n)].pc # "attached" => view'[n] = x
                          /\ th'[Req(n)].pc \in {"displace", "insert"} => pane'[x] = th'[Req(n)].want
    BY DEF StandsAlone, Entered, Stands
  <2>1. n # m
    BY <1>4 DEF Stands, DetachStages
  <2> DEFINE x == th[Req(n)].own
  <2>2. Stands(n) /\ (Entered(n)' => Entered(n)) /\ th'[Req(n)] = th[Req(n)] /\ th'[Req(n)].own = x
    BY <1>7, <2>1 DEF Stands, Entered
  <2>3. /\ x \in Attachments /\ owner[x] = n /\ x \notin ended /\ x # None
        /\ th[Str(x)].pc = "idle" /\ th[Wat(x)].pc = "idle"
        /\ Entered(n) => streamDone[n] = x
        /\ Entered(n) /\ th[Req(n)].pc # "attached" => view[n] = x
        /\ th[Req(n)].pc \in {"displace", "insert"} => pane[x] = th[Req(n)].want
    BY <2>2, Kinds, ThreadFields DEF IInv, Streams, StandsAlone
  <2>4. x # s
    BY <1>2, <2>1, <2>3
  <2> HIDE DEF x
  <2> QED
    BY <1>1, <1>9, <2>2, <2>3, <2>4
<1>13. RequestWaits'
  <2> SUFFICES ASSUME NEW n \in Peers
               PROVE  /\ Settled(n)' => streamDone[n] = None
                      /\ th'[Req(n)].pc \in Captured /\ th'[Req(n)].ret \in {"track", "detached"} =>
                            streamDone[n] \in {None, th'[Req(n)].done}
                      /\ Vacated(n)' => bridges[n] = None
    BY <1>1 DEF RequestWaits
  <2>1. CASE n = m
    BY <1>4, <2>1 DEF Settled, Vacated, Captured, AfterHold, Holding, Attaching
  <2>2. CASE n # m
    BY <1>7, <2>2 DEF IInv, Streams, RequestWaits, Settled, Vacated
  <2> QED
    BY <2>1, <2>2
<1>14. Forgotten'
  BY <1>1 DEF IInv, Streams, Forgotten
<1>15. RunningIsRead'
  <2>1. \A x \in Attachments : Runs(x)' => Runs(x) \/ x = s
    BY <1>9 DEF Runs
  <2> QED
    BY <1>1, <1>2, <2>1 DEF IInv, Streams, RunningIsRead
<1>16. Feeds'
  <2>1. \A o \in Peers : th[Req(o)].pc = "displace" => th'[Req(o)] = th[Req(o)]
    BY <1>1, <1>7
  <2> QED
    BY <1>1, <2>1 DEF IInv, Feeds
<1>17. \A u \in Threads : th[u].pc \notin {"pre", "idle"} => th'[u] = th[u]
  BY <1>3, <1>4
<1>18. Sizes'
  <2>1. Unresized' = Unresized
    BY <1>1 DEF Unresized
  <2>2. \A n \in Peers : Unresized => th'[Req(n)].pc # "resize"
    BY <1>4, <1>7 DEF IInv, Sizes
  <2>3. \A q : SizeInHand(q) => SizeInHand(q)'
    BY <1>17 DEF SizeInHand
  <2>4. \A q : WillRelease(q) => WillRelease(q)'
    BY <1>1, <1>17, Kinds DEF WillRelease, Holding, Captured
  <2> QED
    BY <1>1, <2>1, <2>2, <2>3, <2>4 DEF IInv, Sizes
<1>19. SupersededAwaited'
  BY <1>1, <1>17 DEF IInv, Reports, SupersededAwaited, Captured
<1>20. CalmThreads'
  <2>1. Calm' = Calm
    BY <1>1 DEF Calm
  <2>2. \A x \in Attachments : th'[Wat(x)] = th[Wat(x)] \/ th'[Wat(x)].pc = "watch"
    BY <1>3, <1>9
  <2> QED
    BY <1>1, <1>4, <1>7, <1>8, <2>1, <2>2 DEF IInv, Reports, CalmThreads, DetachStages
<1>21. Reported'
  <2> SUFFICES ASSUME Calm', NEW n \in Peers, view[n] \notin told \cup {None}
               PROVE  \/ bridges[n] = view[n]
                      \/ Replying(n)'
                      \/ Ends(Str(view[n]), view[n])' \/ Ends(Req(n), view[n])'
    BY <1>1 DEF Reported
  <2>1. /\ view[n] \in Attachments
        /\ \/ bridges[n] = view[n]
           \/ Replying(n)
           \/ Ends(Str(view[n]), view[n]) \/ Ends(Req(n), view[n])
    BY <1>1 DEF Calm, IInv, Reports, Reported, TypeOK
  <2>2. Replying(n) => Replying(n)'
    BY <1>1, <1>17, Kinds DEF Replying, Attaching, AfterHold, Holding, Captured
  <2>3. \A u \in Threads : Ends(u, view[n]) => Ends(u, view[n])'
    BY <1>1, <1>17 DEF Ends, DetachStages
  <2>4. Str(view[n])' = Str(view[n]) /\ Str(view[n]) \in Threads /\ Req(n) \in Threads
    BY <1>1, <2>1, Kinds
  <2> QED
    BY <2>1, <2>2, <2>3, <2>4
<1> QED
  BY <1>5, <1>10, <1>11, <1>12, <1>13, <1>14, <1>15, <1>16, <1>18, <1>19, <1>20, <1>21
  DEF IInv, Streams, Reports

-----------------------------------------------------------------------------
(* The theorems.                                                            *)

\* The initial states.
LEMMA InitInv == Init => IInv
<1> SUFFICES ASSUME Init PROVE IInv
  OBVIOUS
<1>1. \A t \in Threads : /\ th[t] = Blank /\ th[t].pc = "idle" /\ th[t].own = None
                         /\ th[t].att = None /\ th[t].done = None
  BY DEF Init, Blank
<1>2. PICK w \in Worlds : used = [world |-> w, disconnects |-> 0, resizes |-> 0] /\ alive = w.panes
  BY DEF Init
<1>3. w.panes \in SUBSET Panes
  BY AttachAssumption
<1>4. TypeOK
  <2>1. (CHOOSE m \in Peers : TRUE) \in Peers
    BY PaneAssumption
  <2>2. th \in [Threads -> ThreadStates]
    BY BlankTyped DEF Init
  <2>3. used \in [world : Worlds, disconnects : Nat, resizes : Nat] /\ alive \in SUBSET Panes
    BY <1>2, <1>3
  <2> QED
    BY <2>1, <2>2, <2>3, AttachAssumption DEF Init, TypeOK
<1>5. \A m \in Peers : th[Req(m)].pc = "idle" /\ th[Bye(m)].pc = "idle"
  BY <1>1, Kinds
<1>6. \A s \in Attachments : th[Str(s)].pc = "idle" /\ th[Wat(s)].pc = "idle"
  BY <1>1, Kinds
<1>7. Shapes
  BY <1>1, <1>5, <1>6 DEF Shapes, ReqShape, ByeShape, StreamShape, WatchShape, CaptureShape,
     Captured, DetachStages, Attaching
<1>8. Made
  BY <1>1, <1>2, <1>6 DEF Made, Init, None, Attachments
<1>9. Streams
  BY <1>5, <1>6 DEF Init, Streams, StandsAlone, RequestWaits, Forgotten, RunningIsRead, Stands,
     Entered, Settled, Vacated, Runs, Captured, Holding, AfterHold, Attaching, DetachStages
<1>10. Feeds /\ Sizes
  BY <1>5 DEF Init, Feeds, Sizes
<1>11. Reports
  BY <1>5, <1>6 DEF Init, Reports, SupersededAwaited, CalmThreads, Reported, DetachStages
<1> QED
  BY <1>4, <1>7, <1>8, <1>9, <1>10, <1>11 DEF IInv

\* One case for each action of Next.
LEMMA NextInv == IInv /\ [Next]_vars => IInv'
<1> SUFFICES ASSUME IInv, [Next]_vars PROVE IInv'
  OBVIOUS
<1>1. ASSUME NEW t \in Threads, DetachStep(t) PROVE IInv'
  BY <1>1, DetachStepInv, CancelStep, CloseBridgeStep, ReleasePipeStep, AwaitStreamStep,
     ReleaseIfForcedStep, ClearOverrideStep DEF DetachStep
<1>2. ASSUME NEW t \in Threads, ExitStep(t) PROVE IInv'
  BY <1>2, NoticeStep, SendResetStep, EndStreamStep, HandlePaneExitStep, SendPaneClosedStep
  DEF ExitStep
<1>3. ASSUME NEW m \in Peers, AttachStep(m) PROVE IInv'
  BY <1>3, ResizeStep, ResizeFailsStep, MarkForcedStep, AttachPaneStep, DisplaceStep,
     AttachFailsStep, AttachFailedStep, InsertBridgeStep, SendAttachedStep, PreStreamFailsStep,
     StartStreamStep, SendDetachedStep, ResizePaneStep DEF AttachStep
<1>4. ASSUME NEW m \in Peers, Request(m) PROVE IInv'
  <2>1. used.world.panes \subseteq Panes
    BY AttachAssumption DEF IInv, TypeOK
  <2> QED
    BY <1>4, <2>1, AttachStarts, DetachRequestStep, ListFindsPaneGoneStep, ResizeRequestStep,
       PeerDisconnectedStep DEF Request
<1>5. ASSUME NEW s \in Attachments, StreamStep(s) PROVE IInv'
  BY <1>5, CheckContextStep, ReadDataStep, ReadFailsStep, SendOutputStep, SendFailsStep
  DEF StreamStep
<1>6. ASSUME NEW s \in Attachments, WatchStep(s) PROVE IInv'
  BY <1>6, WatchStopsStep, WatchTickStep DEF WatchStep
<1>7. ASSUME UNCHANGED vars PROVE IInv'
  <2> USE <1>7 DEF vars
  <2>1. TypeOK' /\ Made' /\ Feeds'
    BY DEF IInv, TypeOK, Made, Feeds
  <2>2. Shapes'
    BY DEF IInv, Shapes, ReqShape, ByeShape, StreamShape, WatchShape, CaptureShape, PeerOf
  <2>3. Streams'
    BY DEF IInv, Streams, StandsAlone, RequestWaits, Forgotten, RunningIsRead, Stands, Entered,
       Settled, Vacated, Runs
  <2>4. Sizes'
    BY DEF IInv, Sizes, Unresized, SizeInHand, WillRelease
  <2>5. SupersededAwaited' /\ CalmThreads' /\ Reported'
    BY DEF IInv, Reports, SupersededAwaited, CalmThreads, Reported, Calm, Replying, Ends
  <2> QED
    BY <2>1, <2>2, <2>3, <2>4, <2>5 DEF IInv, Reports
<1> QED
  BY <1>1, <1>2, <1>3, <1>4, <1>5, <1>6, <1>7, PaneExitsStep DEF Next

\* The inductive invariant of the pane streams.
THEOREM Invariance == Spec => []IInv
BY InitInv, NextInv, PTL DEF Spec

\* Every variable keeps its shape.
THEOREM TypeCorrect == Spec => []TypeOK
<1>1. IInv => TypeOK
  BY DEF IInv
<1> QED
  BY <1>1, Invariance, PTL

\* Handler.streamDone names every stream that still runs, so a detach that finds no
\* entry, or finds another's, has nothing to wait for.
THEOREM StreamsAreKnown == Spec => []StreamIsKnown
<1>1. IInv => StreamIsKnown
  BY DEF IInv, Streams, RunningIsRead, Runs, StreamIsKnown, At, Str
<1> QED
  BY <1>1, Invariance, PTL

\* Whoever may send for a stream, the mobile reads that stream.
LEMMA SendersAreRead ==
    ASSUME IInv, NEW t \in Threads, th[t].pc \in {"send", "reset"}
    PROVE  view[PeerOf(t)] = th[t].own
<1>1. CASE th[t].pc = "reset"
  BY <1>1, EndsOwnStream
<1>2. CASE th[t].pc = "send"
  <2>1. PICK s \in Attachments : t = Str(s)
    BY <1>2, Kinds, ThreadInv DEF ReqShape, ByeShape, WatchShape, DetachStages, Attaching
  <2>2. Runs(s) /\ th[t].own = s /\ PeerOf(t) = owner[s]
    BY <1>2, <2>1, ThreadInv, WorksFor DEF Runs, StreamShape
  <2> QED
    BY <2>2 DEF IInv, Streams, RunningIsRead
<1> QED
  BY <1>1, <1>2

\* No output and no stream_reset of an old stream follows the reply to the request that
\* ended it.
THEOREM OldStreamsAreSilent == Spec => NothingAfterReply
<1>1. IInv => \A t \in Threads :
        \/ At(t, "send") /\ th'[t].pc = "check"
        \/ At(t, "reset") /\ th'[t].pc = "end"
        => view[PeerOf(t)] = th[t].own
  BY SendersAreRead DEF At
<1> QED
  BY <1>1, Invariance, PTL DEF NothingAfterReply

\* An attached bridge that was not told otherwise receives the pane's output.
THEOREM AttachmentIsFed == Spec => []AttachedIsFed
<1>1. IInv => AttachedIsFed
  <2> SUFFICES ASSUME IInv, NEW m \in Peers, bridges[m] # None, bridge[bridges[m]] = "open",
                      pipe[pane[bridges[m]]] # bridges[m]
               PROVE  \E o \in Peers :
                        At(<<"req", o>>, "displace") /\ th[<<"req", o>>].att = bridges[m]
    BY DEF AttachedIsFed
  <2>1. bridges[m] \in Attachments
    BY DEF IInv, TypeOK
  <2>2. \E o \in Peers : th[Req(o)].pc = "displace" /\ th[Req(o)].att = bridges[m]
    BY <2>1 DEF IInv, Feeds
  <2> QED
    BY <2>2 DEF At, Req
<1> QED
  BY <1>1, Invariance, PTL

\* Where no resize request comes, tmux sizes every window again once no mobile is
\* attached.  A resize request that passes its check before a detach pins the window.
THEOREM WindowsAreReleased == Spec => [](Unresized => WindowReleased)
<1>1. IInv => (Unresized => WindowReleased)
  <2> SUFFICES ASSUME IInv, Unresized, Quiet, \A m \in Peers : bridges[m] = None,
                      NEW p \in manual
               PROVE  FALSE
    BY DEF WindowReleased
  <2>1. ~SizeInHand(p)
    BY DEF SizeInHand, Quiet
  <2>2. ~WillRelease(p)
    BY Kinds DEF WillRelease, Quiet, Holding, Captured
  <2> QED
    BY <2>1, <2>2 DEF IInv, Sizes
<1> QED
  BY <1>1, Invariance, PTL

\* While no pane exits and no peer disconnects, a mobile that was told it is attached,
\* and nothing since, is attached.
THEOREM StallsAreReported == Spec => []StallIsReported
<1>1. IInv => StallIsReported
  <2> SUFFICES ASSUME IInv, Quiet, Calm, NEW m \in Peers, view[m] \notin told \cup {None}
               PROVE  bridges[m] = view[m]
    BY DEF StallIsReported, Calm
  <2>1. view[m] \in Attachments
    BY DEF IInv, TypeOK
  <2>2. ~Replying(m)
    BY Kinds DEF Quiet, Replying, Attaching, AfterHold, Holding, Captured
  <2>3. \A t \in Threads : ~Ends(t, view[m])
    BY DEF Quiet, Ends, DetachStages
  <2> QED
    BY <2>1, <2>2, <2>3, Kinds DEF IInv, Reports, Reported
<1> QED
  BY <1>1, Invariance, PTL
=============================================================================
