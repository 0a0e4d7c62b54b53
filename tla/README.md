# pmux-agent: a TLA+ verification project

pmux-agent runs beside a tmux server and lets one paired mobile attach to its panes over
WebRTC. This directory holds TLA+ models of the parts of the agent in which goroutines,
timers, processes and remote parties meet, the TLC runs that check them on small
instances, and TLAPS proofs of their safety for every value of the constants.
`PROJECT.json` maps every definition to the lines it models.

## 1. Inventory

| Part | State it keeps | Operations | Hard about it | Module |
|---|---|---|---|---|
| Peer manager (`internal/webrtc/peer.go`) | device-keyed map of peers, `closed`, `shutDown`, allowed device, replaced attempts, `teardownWg`, `cleanupWg`, grace timers, ICE-restart watchdogs | connect_request, sdp_answer, peer_unavailable, pion callbacks, teardown goroutines, CloseAll, CloseAllAndReopen | five kinds of goroutine per peer, locks released in the middle of operations, handler state keyed by device and not by peer | `PeerManager` |
| Connection cleaner (`internal/agent/cleanup.go`) | none of its own | idle sweep | check-then-act against the manager | `PeerManager` |
| Peer authentication and sending (`internal/webrtc/peer.go`) | nonces, auth timer, three auth flags, send gate, `sendReady`, `sendStop`, dispatch lock | challenge, verify, fail, SendMessageContext, stopDispatch, Close | a timeout against a late answer, a send that waits while the peer is torn down | `PeerChannel` |
| Signaling client (`internal/webrtc/signaling.go`) | connection, token cache, dormant, suspended, failure window, activity signal | Run, connectAndServe, Suspend, Resume, SignalActivity, Send, Close | wake-ups, sleep during authentication, half-open sockets | `SignalingClient` |
| Sleep watcher, keep-awake (`internal/agent/sleepwatch_*.go`, `keepawake*.go`) | logind locks, IOKit port and run loop | start, onSleep, onWake, stop | the machine freezes in the middle of anything | `Presence` |
| Handler (`internal/agent/handler.go`) | per peer: bridge, cancel, pane, stream, exit mark | attach, detach, resize, disconnect, stream, watcher, list_sessions | every one of four threads may detach, and the stream may detach itself | `PaneStream`, `PeerChannel` |
| Pane bridge, size tracker (`internal/tmux`) | pipe owner per pane, forced windows | AttachPane, Read, Resize, Close | a pane has one pipe; a late Close meets a new owner | `PaneStream` |
| Title filter (`internal/tmux/titlefilter.go`) | automaton state, held-back bytes | Filter | titles cut anywhere by chunks | `TitleFilter` |
| Pairing and unpairing (`internal/agent/pair.go`, `unpair.go`, `internal/auth/pair*.go`) | paired_devices.json, secret store, the server's record | RunPair, RunUnpair, PairSession | crash between two writes, lost decisions, two protocols of server | `Pairing` |
| Secret store (`internal/auth/secretstore_file.go`) | a per-process cache of one file | Get, Set, Delete | the cache is never refreshed, a flush writes all of it | `Pairing` |
| Supervisor, PID file (`internal/agent/supervisor.go`, `pidfile.go`) | agent.pid, its inode and its flock | EnsureRunning, StopRunning, spawn, write and remove | commands that race, a rename under a lock | `Supervisor` |
| Updater (`internal/update`, `cmd/pmux`) | update-state.json, the executable | check, banner, self-update | an old agent restarted in the middle of an update | `Supervisor` |
| Codec, validation, compression | none | encode, decode | sequential; tests reach them | outcomes only |
| Identity, JWT, configuration, firewall check, CLI reports | little or none | – | sequential; tests reach them | – |

How they interact: the signaling client's read loop calls the peer manager; the manager
dispatches a peer's requests to the handler, one at a time, and calls its
`PeerDisconnected` when it tears the peer down; the handler opens bridges through the tmux
client and sends through the manager; the cleaner calls both. The sleep watcher calls
`Suspend` and `Resume` of the signaling client, SIGUSR1 its `SignalActivity`. `pmux pair`
and `pmux unpair` are other processes: they share two files with the agent and send it
SIGUSR2, on which the agent reloads the pairing and calls `CloseAllAndReopen`. Every `pmux`
command ensures that an agent runs, through the PID file.

What makes each part correct: no peer or handler state outlives its teardown and no slot
is kept for ever (manager); a mobile hears nothing before it has proved its key, and no
send holds up a teardown (channel); the host is online exactly when awake and always finds
its way back (signaling, sleep); what the mobile was told last is what it is attached to, and
the desktop window is released (handler, bridge); what the mobile sees is the pane's output
less its titles (filter); host, server and mobile agree on a pairing, or the old one still
works (pairing); one agent runs (supervisor). The hazards in `PROJECT.json` name the lines
where each of these could break.

## 2. Modules

**`PeerManager`** (with the cleaner). A hold of `pm.mu` is one action; a piece of code that
releases the lock and takes it again is two. A background goroutine is a unit of `work[p][k]`,
the number of goroutines on peer `p` about to run stage `k`; the two WaitGroups are the sums
over `TeardownStages` and `CleanupStages`, so "Wait" is "no goroutine in these stages". `loop`
is the read loop inside a handler of several steps, `reload` and `stopper` the SIGUSR2 and shutdown
goroutines, `timer` the fired callback of a grace timer. `peer_unavailable` is three steps,
since the code looks the peer up under `pm.mu`, reads its state under `p.mu` and starts the
closing goroutine later. pion is external: it changes `conn`, and its callbacks, which run in
goroutines of their own, are a set `cbs` taken in any order. The state the handler keeps for a
device is the one field `session[d]`, the peer whose request built it; `PaneStream` details it.
The handshake is reduced to its outcome, timeout included; `PeerChannel` details that.

**`PeerChannel`**, over `TitleFilter`. One DataChannel from its challenge to its Close.
Threads: OnOpen, the serial OnMessage calls, the auth timer's callback, the attachment's
stream, another goroutine that sends to the device id, and the tracked cleanup.
`SendMessageContext` is a procedure four of them run, a step for each lock, channel
operation and call into pion. The buffer counts messages. `wire` is the output the channel
was given, `read` what the stream has read of the pane and dealt with.

**`TitleStrip`** is the abstract specification of what a mobile is shown: the pane's output,
in order and without gaps, less its titles, defined on whole outputs. `PeerChannel` implements
it under `in <- read, out <- wire`: the automaton, the cuts into chunks, the outputs that
compress or not and the failed sends must add up to `Strip(read)` at every moment.

**`SignalingClient`**. `pc` is the place of `Run` in its loop and in `connectAndServe`.
Durations are kept only as what the code compares them with. The refresh loop of an ended
connection may still be in its exchange (`late`) and store a token.

**`Presence`** composes `SignalingClient` with the watcher and the machine. The machine
proposes or announces a sleep, waits for whoever holds a delay lock or has not answered,
may stop waiting, and then freezes every step of the agent until it wakes. The watcher is
logind's on Linux (delay lock, owner lookup, lock taken again after the wake) or IOKit's on
macOS (run loop, `IOAllowPowerChange`, a stop that is repeated since `CFRunLoopStop` before
`CFRunLoopRun` is lost). keep_awake holds a block inhibitor or a `caffeinate` child.

**`PaneStream`**. Threads: the dispatch of each peer's requests, the manager's
`PeerDisconnected`, and the stream and watcher of each attachment. `detachPeerWait` is one
procedure they all run, a step per lock or channel. `view` and `told` are what the
mobile knows; the properties compare that with what is true.

**`Pairing`**. Three processes over two stores, a server that is confirming or legacy and a
secret store that is a file or a keyring. Every write can fail and a command can be
killed at any step. The agent writes the device list too: `UpdatePairedDeviceName`, on a
`mobile_name_updated`, loads it in one step and saves it in another, without a lock. `overlap` is
history: a pairing ran beside an unpairing, or the agent wrote back a list that had changed
since it read it. A secret is the number of the session that derived it. Stopping and
starting the agent are single steps; `Supervisor` details them.

**`Supervisor`**. Commands are processes that each run one script (ensure, start, stop, restart,
pair, status, status detail, update). The path `agent.pid`, the inodes it named and the flocks
on them are separate state, since the agent renames a new inode over the path and a flock stays
with the old one. A command remembers the version compiled into it (`ver`). `raced` and `mixed`
are history. `raced`: the PID file was removed while it named an agent that starts or runs, or
while `spawn` was writing it; a command was killed while it rewrote the file; or two commands
were about to spawn under locks on different inodes. `mixed`: an agent was started while an
update was at work.

`MC_*` modules instantiate these for TLC and list the *worlds* of their runs: a world is a
bound on each kind of move of the environment (connections lost, reloads, pane exits, sleeps,
faults), the initial state picks one, and `left` counts it down. `*_proofs` hold the
theorems. Operators named in a comment as "Mutant" are plausible bugs of the definition
that follows them; each shows that a property can fail.

## 3. Runs

| Run | Result | Shows |
|---|---|---|
| `PeerManager_reload` | holds | two generations of a device's peer and a reload: closed manager empty, no tracked peer closing, only the paired device tracked, no orphaned session, none survives closeAll |
| `PeerManager_live` | holds | reload, sweep and shutdown overlap, or a loss goes through grace timer, ICE restart and watchdog: WaitGroups are waited on only while closed, shutdown waits for all, reload and shutdown end, a peer that is not answered, not connected or not authenticated frees its slot, every loss is resolved by the agent's own timers |
| `PeerManager_stale` | **violated** | finding 1 |
| `PeerChannel` | holds | the handshake is resolved one way, nothing precedes auth_confirm, no drain signal is lost, a teardown reaches Close although sends wait, and the stream implements `TitleStrip` |
| `Presence` | holds | offline while suspended and before the machine sleeps, no lost wake-up, rejected token dropped, a fresh retry window after a wake, online again after a wake or a half-open socket, and cancellation ends client and watcher |
| `PaneStream` | holds | two attachments of one mobile with exit and disconnect; two peers take one pane from each other |
| `PaneStream_live` | holds | every detach returns |
| `PaneStream_dead` | **violated** | finding 2 |
| `Pairing` | holds | agreement, old pairing kept, no ghost, secret for every device, unpaired stays out unless a stale list was written back, agent restarted |
| `Pairing_reload` | **violated** | finding 3 |
| `Supervisor` | holds | two agents only after a race on the PID file, the banner tells the truth, an update leaves no old agent, a command that ensures the agent leaves one |
| `Supervisor_dup` | **violated** | finding 4 |

Findings, each a disagreement between the code and its own comments:

1. `teardownIfCurrent` checks identity under the lock and calls the device-keyed disconnect
   handler after it; a reconnect in between loses its new session.
2. `handlePaneExit` works by peer id, so the watcher of a pane that has exited can end the
   mobile's new attachment to a live pane without a word to the mobile.
3. An agent started while `pmux pair` waits keeps the secrets it cached, so the reload
   it is signalled to do admits the new device by id and rejects it by secret.
4. `EnsureRunning`'s flock is on an inode that the spawned agent replaces; a command that opens
   the path between the agent's rename and `spawn`'s own rewrite of the file locks the new inode,
   reads an empty file and spawns a second agent.

Also met, without a run of their own:

- A connected peer whose data channel never opens keeps the single slot: no timer is started
  before OnOpen (`peer.go:1542`) and ICE stays alive as long as the mobile does. The comment on
  `authChallengeTimeout` (`peer.go:208-210`) gives as its purpose that "an unauthenticated
  connection can't hold the single peer slot". `SlotFreed` therefore speaks of the way to a
  connection and of the time after the challenge, and of nothing in between.
- pion runs state callbacks in goroutines of their own. A "connected" one that runs after the
  "disconnected" one of a later loss stops the grace timer; the loss is then resolved only by
  pion's own failure timeout. `LossResolved` starts where the loss is the only callback waiting.
- `UpdatePairedDeviceName` is a read-modify-write of the device list without a lock. One that
  loaded the list before `pmux unpair` and saves it before the agent reloads puts the device back,
  and the agent's cached secret still verifies: the unpaired mobile connects.
  `UnpairedCannotConnect` and `DeviceHasSecret` except it (`overlap`).
- The comment on `RunUnpair` (`internal/agent/unpair.go:16-17`) says that the agent is signalled
  "before removing the local pairing"; the code signals it after, as it must, for the agent then
  reads the list.
- The comment on `Resume` calls it "a no-op if not currently suspended"; it always signals
  activity, which wakes a dormant client or cuts a backoff short.
- A resize that passes the `closed` check before a detach pins the window after the detach
  released it; `WindowReleased` is checked in worlds without resize requests.
- A late `OnBufferedAmountLow` can let one output through above `maxBufferedAmount`.
- A wake-up that arrives when logind's owner cannot be looked up is dropped (`missed`), and
  `WakesOnline` excepts it.
- On Linux with keep_awake set and its inhibitor refused, the sleep watcher is skipped all the
  same, so the host sleeps while it counts as online until the server gives up on it.

### Bounds, and why they suffice

- `PeerManager`: one device and up to two peers. Single pairing allows one device, and a
  stale peer with its successor is the shortest case of every identity check. `_live` has one
  peer, since its questions are about one peer's timers and goroutines; the theorems cover any
  number. Teardowns that outlast their timeout (`hangs`) are left out where sessions are judged:
  past that timeout the code's own comment accepts a hit on the new session.
- `PeerChannel`: `MaxTitleLen` 5 and limits of 0, 1 and 2 messages keep the order of the code's
  constants and make each boundary reachable. The held-back bytes are ESC `k`, the text and the
  ESC of the terminator, so a text of up to two bytes is stripped and a longer one overflows.
  The worlds have, in every cut: every output of up to four of the bytes ESC, `k` and ST; every
  output of up to eight that begins a title and goes on with ESC and ST; every one of up to
  seven whose title has an ESC that does not close it; and every one of up to eight that begins
  with an empty title and an ESC, so that a second title or an overflow follows. The others have
  plain bytes, up to three messages of the mobile, a stall and a failure.
- `Presence`: one sleep with one fault, or two sleeps; on Linux with and without keep_awake and
  on macOS with it. A second sleep meets whatever the first left; the client itself is
  finite and unbounded.
- `PaneStream`: two attachments (an old and a new stream), two panes or two peers,
  one exit, one disconnect. A third attachment repeats the relation of the second to the first.
- `Pairing`: one pairing over an optional earlier one, one unpairing, one kill, one racing
  command, one name update, two mobiles: the same device again, and another one. Two `pmux pair`
  at once are not explored.
- `Supervisor`: any two commands, one fault, and every PID file that an earlier agent can have
  left (none, its own, a dead agent's, a stranger's). The races are between two commands and the
  agent of either, which finding 4 shows to be enough.

Runs switch deadlock checking off: bounds are used up, agents stop, commands end.

### Fairness

- Peer manager: the Go scheduler runs every goroutine and timer (weak fairness).
  `stopDispatch` gets its mutex although requests keep coming, since `sync.Mutex` hands the
  lock over to a starving waiter (strong fairness). A timer that fires early after a sleep is
  not early for ever (strong fairness of the other outcome). pion's Close returns, and an
  attempt that was given an answer connects or fails by pion's own timeouts. Nothing is assumed of
  mobile, server or signals: the mobile need not answer, open its data channel or authenticate.
  Nor is a lost connection assumed to be given up by pion: the grace timer, the restart and its
  watchdog have to resolve it.
- Peer channel: goroutines run and the auth timer fires. No drain, no answer and no send
  timeout is assumed: a teardown ends without them.
- Presence: on an awake host the client's loop, its attempt and the watcher make progress,
  as every wait in them has a deadline or a channel that is signalled, and the stop of the run loop
  is repeated; a sleeping machine wakes. Nothing is assumed of server or network.
- Pane streams: goroutines run, tmux commands return, a send ends by acknowledgement or by
  its timeout.
- Pairing: a command that is not killed and the agent run on; every wait of `RunPair` has a
  timeout. Stopping and starting the agent succeed.
- Supervisor: commands run on, and so do agents that are starting or were told to stop. Weak
  fairness of a waiting flock is enough as a holder releases it and there are two commands.

## 4. Proofs

Every theorem holds for every value of the constants: any number of devices, peers, panes,
commands, reloads, crashes and sleeps, where a run has two or three. The proofs assume only
what the modules state as ASSUME (counts are natural numbers, sentinels are not members of the
sets they are told apart from), which TLC evaluates on every run. A property is seldom
inductive by itself; each proof module defines the invariant it needs (`IInv`, in
`PeerSession_proofs` `SInv`, in `Presence_proofs` `PInv`), proves that the initial states have
it and that every action keeps it, and derives the properties. TLC was run on the
invariants of the larger modules before they were proved. The proofs share one layout: a *frame*
says what a step must respect for a part of the invariant to survive, one lemma proves that it
then does, and one lemma per action shows that the action respects the frames or repairs the
part it disturbs.

**`PeerManager_proofs`**: `TypeCorrect` (no WaitGroup counter goes negative), `ClosedIsEmpty`,
`WaitsSafely`, `TrackedIsOpen`, `OnlyPaired`, `WatchdogIsCurrent`. Their invariant adds

- `LoopInv`: where the read loop is and what it may rely on. Between the removal of the
  old peer and the insertion of the new one the device has no peer, since only the read loop
  inserts. The peer a notice is about stays one that was created.
- `PeerInv`: a peer that has begun to close, or has a goroutine in a stage after its
  removal, is not in the map (`GoneIsUntracked`, what `TrackedNotClosing` needs); a peer that
  is not created has no goroutine; callbacks hold created peers.
- `ManagerInv`: shutdown raises its flag first (`ShutdownFlagged`, why a reload cannot reopen
  under CloseAll), and between `SetAllowedDeviceID` and `closeAll` alone may a
  peer of the previous pairing be tracked (`PairedUnlessLoaded`).

**`PeerSession_proofs`** extends it with whose handler state it is: `SessionHasOwner`,
`CloseAllLeavesNothing`, `ShutdownIsComplete`.

- `OwnerInv`: a session is of its own device's peer; the dispatch of an evicted peer is stopped
  before its notification and never runs again; and a peer is tracked, has a teardown under way
  or has nothing to tear down (`CaredFor`), the peers that a peer_unavailable notice condemned
  excepted.
- `WaitInv`: a peer of a snapshot keeps its closing goroutines until closeAll has waited for
  them, and a WaitGroup that was waited for stays at zero, as the manager stays closed.

The attempt at `NothingSurvivesCloseAll` corrected it. closeAll's notifications are counted in a
WaitGroup local to that call, so when a reload and the shutdown overlap, the one that finds the
map empty returns while the other still notifies the handler, although the comment on CloseAll
says that it waits for all. The property now excepts the peers such an overlapping closeAll
still waits for, and holds without bounds.

**`SignalingClient_proofs`** proves `OfflineWhileSuspended`, `WakeupNotLost`,
`RejectedTokenDropped` and the action property `RetryWindowIsFresh` from an invariant that
adds: `sc.conn` is set exactly while a connection is served or ending, a token that counts as
fresh is not a rejected one, and after a wake-up the failure window has not begun.

**`Presence_proofs`** shows by `ImplementsClient` that the composition with watcher and machine
implements the client's specification: each of its steps is a step of the client or leaves the
client alone. The four theorems of the client therefore hold across sleeps. The action property
`SleepFindsHostOffline` needs more, `PInv`: the watcher gives up its delay lock, or answers
IOKit, only when `Suspend` has returned (`TellsBeforeRelease`), and a closed client has stopped.

**`PeerChannel_proofs`**: `HandshakeResolvedOnce`, `DrainNotLost`, and the action property
`ConfirmComesFirst`. The invariant says that the verdict is given once, under `p.mu`
(`OneVerdict`); that the gate opens only after the send of auth_confirm has returned
(`GateHolds`, `ConfirmReturns`); and that output has one sender (`OutputAlone`), without which
the three steps of a wait for the drain could lose the signal to another sender.

**`Pairing_proofs`**: `SuccessIsReal`, `FailureIsHarmless`, `NoGhost`, `SecretFirst`,
`UnpairedStaysOut`. The invariant goes along the stages of the two commands: as long as they do
not overlap a command's cached file is the file (`CacheIsFile`), the list stands until its write
(`ListStands`), the secret of the new device is stored before the list names it
(`SecretIsStored`), and what host and server hold at each outcome (`Outcome`).
A name update of the agent that saves what the list already holds changes nothing; one that saves
a list which has changed raises `overlap`. `UnpairedCannotConnect` and the theorem on it except
the histories with an `overlap`, in which a stale list is written back and the property can be false
(section 3, and the hazard at `pairing.go:388`).

**`Supervisor_proofs`**: `FlockSuffices`, `BannerIsTrue`, `UpdateLeavesNew`. As long as nothing
raced, one command is past its check (`OneSpawner`), one agent is in charge (`OneInCharge`) and
the file names it, or the command that spawned it has yet to write it (`FileNamesAgent`).
`LocksHeld`, `PathNames` and `PidsSuffice` tie flocks, inodes and PIDs together; the last also
shows that the model's finite supplies of inodes and PIDs never run out. An update's own
progress is in `UpdateScript`, `UpdateStops` and `NewInCharge`. The attempt corrected `raced`:
an earlier definition sufficed for the run's two commands, but three ensuring commands and a
crash reached two agents without it. It is now defined by what goes wrong with the file, and the
theorem shows that nothing else can.

**`PaneStream_proofs`**: `StreamsAreKnown`, the action property `OldStreamsAreSilent`,
`AttachmentIsFed`, `WindowsAreReleased`, `StallsAreReported`. The invariant has the
place of each thread and what its detach captured (`Shapes`), attachments that do not
exist yet (`Made`), and

- `Streams`: a request stands for at most one stream, alone, from the moment the handler knows it;
  a request goes on only when the old stream has ended; an entry of `streamDone` names a stream
  of its peer that has not ended; and a stream that runs is named there and is what the mobile
  reads.
- `Feeds`: an open bridge owns its pane's pipe unless the request that took the pipe is about
  to mark it displaced.
- `Sizes`: a pinned window is about to be marked or cleared, or is marked and has somebody who
  will release it.
- `Reports`: a superseded stream is awaited by whoever superseded it, and a mobile that is not
  attached to what it reads has a reply or a stream_reset on the way.

`WindowsAreReleased` is about worlds without resize requests, as the run is: with them a resize that
passes its check before a detach violates it (section 3). `StallIsReported` carries its own
condition, no exit and no disconnect.

Only model-checked:

- liveness under fairness: `SlotFreed`, `ReloadEnds`, `ShutdownEnds`, `LossResolved`,
  `TeardownEnds`, `WakesOnline`, `CancelStops`, `DetachEnds`, `AgentRestarted`,
  `EnsureLeavesAgent`; the prover has no rules for it;
- `OutputIsStripped`, the refinement of `TitleStrip`, and the part of `PeerChannel`'s `TypeOK`
  that says `wire` and `read` are sequences of bytes: both are about a recursive function on
  outputs and need induction over them. `Invariance` of the channel proves the rest of `TypeOK` as
  `ChannelTypes`;
- the findings, which are counterexamples.

## 5. Not modelled

- ICE candidate buffering and the silencing race, the TURN fetch: an extra or a missing
  candidate changes which connection pion finds, and pion is outside.
- The 10 s cap on shutdown, which only leaves the process earlier; panics and their recovery.
- Two pairings at once, all cryptography (a MAC verifies or not, a
  token is valid, stale or rejected).
- `CheckIdentity` before `EnsureRunning`, the WSL keep-awake helper, and the detail of download,
  checksum and extraction in an update.
- Identity, JWT, configuration, firewall check, tmux passthrough, reports of the command line:
  sequential code over files read once, listed as `not_modelled` in `PROJECT.json`.

## 6. Plan

Done, in order: `PeerManager`, its proofs, `SignalingClient`, its proofs, `PaneStream`,
`Pairing`, `Supervisor`, `TitleFilter` and `TitleStrip`, `PeerChannel`, `Presence`; then the
proofs of every safety property the runs check but `OutputIsStripped`.

Next:

1. An abstract specification of an attachment (attached, told, detached) that `PaneStream`
   implements, on top of `Streams` and `Reports`.
2. One of the peer manager for a device (absent, tracked, leaving), from `SInv`.
3. The steps of `OutputIsStripped` that need no induction: what one call of `Filter` does to
   the automaton's state and to the bytes it holds back.
