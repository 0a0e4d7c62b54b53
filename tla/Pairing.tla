------------------------------- MODULE Pairing -------------------------------
(***************************************************************************)
(* Pairing a host with a mobile: 'pmux pair' (internal/agent/pair.go,      *)
(* internal/auth/pair_session.go), 'pmux unpair' (internal/agent/unpair.go)*)
(* and the background agent that serves the paired device, over the two    *)
(* stores they share: the secret store (internal/auth/secretstore_file.go  *)
(* or the system keyring) and paired_devices.json (internal/auth/          *)
(* pairing.go).  The three are processes of their own, each with its own   *)
(* FileSecretStore, which reads the file once and writes back all it read. *)
(* The list is read and written back without a lock by each of them.       *)
(*                                                                         *)
(* The signaling server and the mobile are external.  A confirming server  *)
(* holds the mobile's request until the host accepts or rejects it; a      *)
(* legacy server commits the pairing before the host hears of it.          *)
(*                                                                         *)
(* A shared secret is the number of the session that derived it.  The MAC  *)
(* of a pair_complete is reduced to whether it verifies.                   *)
(***************************************************************************)
EXTENDS Naturals

CONSTANTS
    Mobiles,      \* mobile device ids
    NoDevice,
    Servers,      \* kinds of server, a subset of {"confirming", "legacy"}
    Backends,     \* secret stores, a subset of {"file", "keyring"}
    MaxPairs,     \* bound: 'pmux pair' runs
    MaxUnpairs,   \* bound: 'pmux unpair' runs
    MaxCrashes,   \* bound: commands killed half way
    MaxCommands,  \* bound: other pmux commands that find no agent
    MaxRenames    \* bound: mobile_name_updated messages the agent acts on

ASSUME MobileAssumption == NoDevice \notin Mobiles

ASSUME KindAssumption ==
    /\ Servers \subseteq {"confirming", "legacy"}
    /\ Backends \subseteq {"file", "keyring"}

ASSUME CountAssumption ==
    /\ MaxPairs \in Nat
    /\ MaxUnpairs \in Nat
    /\ MaxCrashes \in Nat
    /\ MaxCommands \in Nat
    /\ MaxRenames \in Nat

NoSecret == 0

\* The secret of a pairing made before the run.
Earlier == MaxPairs + 1

Secrets == 0 .. MaxPairs + 1

VARIABLES
    kind,       \* the server's kind
    backend,    \* the secret store
    server,     \* the mobile the server has paired with this host
    held,       \* the mobile whose request a confirming server holds
    mob,        \* mobile -> the secret it keeps for this host
    devices,    \* paired_devices.json: the paired device
    secrets,    \* the secret store: mobile -> secret
    agent,      \* the agent process
    pair,       \* the 'pmux pair' process
    unpair,     \* the 'pmux unpair' process
    before,     \* the device that worked when pair began
    agreed,     \* host and server agreed when pair began, nobody else wrote since
    overlap,    \* has pair run at the same time as unpair, or the agent written
                \* back a list that had changed since it read it
    torn,       \* was a removal of a device given up half way
    gone,       \* devices unpaired and not paired since
    used        \* what the environment has used of its bounds

vars == <<kind, backend, server, held, mob, devices, secrets, agent, pair, unpair,
          before, agreed, overlap, torn, gone, used>>

serverVars == <<server, held, mob>>
storeVars == <<devices, secrets>>
settingVars == <<kind, backend>>
pastVars == <<before, agreed, overlap, torn, gone>>

-----------------------------------------------------------------------------
NoSecrets == [d \in Mobiles |-> NoSecret]

\* pair: the pair_complete on the wire and whether its MAC verifies, the one
\* received, the decision sent, whether the pairing is stored.
PairIdle == [pc |-> "idle", session |-> 0, existing |-> NoDevice, wire |-> NoDevice,
             mac |-> FALSE, received |-> NoDevice, decided |-> "none",
             stored |-> FALSE, list |-> NoDevice, cache |-> NoSecrets]

UnpairIdle == [pc |-> "idle", device |-> NoDevice, list |-> NoDevice, cache |-> NoSecrets]

AgentOff == [pc |-> "off", cache |-> NoSecrets, allowed |-> NoDevice, reload |-> FALSE,
             rename |-> NoDevice]

\* ensureLoaded on a process's first access.
Loaded == IF backend = "file" THEN secrets ELSE NoSecrets

\* Set and Delete: a FileSecretStore flushes its whole map; the keyring has
\* one entry per key.  What is flushed, and what the process then has cached.
Flushed(cache, d, v) ==
    IF backend = "file" THEN [cache EXCEPT ![d] = v] ELSE [secrets EXCEPT ![d] = v]
Cached(cache, d, v) == IF backend = "file" THEN [cache EXCEPT ![d] = v] ELSE cache

\* store.Get in the agent.
AgentSecret(d) == IF backend = "file" THEN agent.cache[d] ELSE secrets[d]

\* SIGUSR2 makes the agent reload.  Before signal.Notify the Go runtime drops
\* it; before the runtime has installed its handlers it ends the process.
SignalReload ==
    agent' \in CASE agent.pc = "off" -> {agent}
                 [] agent.pc = "exec" -> {agent, AgentOff}
                 [] OTHER -> {[agent EXCEPT !.reload = TRUE]}

\* The paired device can connect: host, server and mobile agree on it.
Works(d) == server = d /\ devices = d /\ secrets[d] = mob[d] /\ mob[d] # NoSecret

Init ==
    /\ kind \in Servers
    /\ backend \in Backends
    /\ devices \in Mobiles \cup {NoDevice}
    /\ server = devices
    /\ held = NoDevice
    /\ mob = [d \in Mobiles |-> IF d = devices THEN Earlier ELSE NoSecret]
    /\ secrets = mob
    /\ agent = AgentOff
    /\ pair = PairIdle
    /\ unpair = UnpairIdle
    /\ before = NoDevice
    /\ agreed = FALSE
    /\ overlap = FALSE
    /\ torn = FALSE
    /\ gone = {}
    /\ used = [pairs |-> 0, unpairs |-> 0, crashes |-> 0, commands |-> 0,
               renames |-> 0]

-----------------------------------------------------------------------------
(* RunPair up to the answer of the mobile.  What fails before StopRunning    *)
(* changes nothing.                                                          *)

\* Mutant: the old pairing is removed as soon as the user agrees to replace it.
PairBeginsDrops ==
    /\ pair.pc = "idle"
    /\ used.pairs < MaxPairs
    /\ pair' = [PairIdle EXCEPT !.pc = "stop", !.session = used.pairs + 1,
                                !.existing = devices, !.cache = Loaded]
    /\ devices' = NoDevice
    /\ before' = IF devices # NoDevice /\ Works(devices) THEN devices ELSE NoDevice
    /\ agreed' = (devices \in {NoDevice, server} /\ unpair.pc = "idle")
    /\ overlap' = (overlap \/ unpair.pc # "idle")
    /\ used' = [used EXCEPT !.pairs = @ + 1]
    /\ UNCHANGED <<settingVars, serverVars, secrets, agent, unpair, torn, gone>>

\* The existing pairing is read, its replacement agreed, the session initiated.
PairBegins ==
    /\ pair.pc = "idle"
    /\ used.pairs < MaxPairs
    /\ pair' = [PairIdle EXCEPT !.pc = "stop", !.session = used.pairs + 1,
                                !.existing = devices, !.cache = Loaded]
    /\ before' = IF devices # NoDevice /\ Works(devices) THEN devices ELSE NoDevice
    /\ agreed' = (devices \in {NoDevice, server} /\ unpair.pc = "idle")
    /\ overlap' = (overlap \/ unpair.pc # "idle")
    /\ used' = [used EXCEPT !.pairs = @ + 1]
    /\ UNCHANGED <<settingVars, serverVars, storeVars, agent, unpair, torn, gone>>

StopRunning ==
    /\ pair.pc = "stop"
    /\ agent' = AgentOff
    /\ pair' = [pair EXCEPT !.pc = "dial"]
    /\ UNCHANGED <<settingVars, serverVars, storeVars, unpair, pastVars, used>>

\* ExchangeToken or DialPairSession fails: only the agent is restarted.
DialFails ==
    /\ pair.pc = "dial"
    /\ pair' = [pair EXCEPT !.pc = "ensure"]
    /\ UNCHANGED <<settingVars, serverVars, storeVars, agent, unpair, pastVars, used>>

DialPairSession ==
    /\ pair.pc = "dial"
    /\ pair' = [pair EXCEPT !.pc = "wait"]
    /\ UNCHANGED <<settingVars, serverVars, storeVars, agent, unpair, pastVars, used>>

\* The server relays the mobile's request, once per pairing code.  An outdated
\* app has no valid MAC and derives another secret.
MobileCompletes(d, mac) ==
    /\ pair.pc = "wait"
    /\ pair.wire = NoDevice
    /\ pair' = [pair EXCEPT !.wire = d, !.mac = mac]
    /\ IF kind = "confirming"
       THEN held' = d /\ UNCHANGED <<server, mob>>
       ELSE /\ server' = d
            /\ mob' = [mob EXCEPT ![d] = IF mac THEN pair.session ELSE NoSecret]
            /\ UNCHANGED held
    /\ UNCHANGED <<settingVars, storeVars, agent, unpair, pastVars, used>>

\* The server gives the mobile's request up after 30 seconds.
HoldExpires ==
    /\ held # NoDevice
    /\ held' = NoDevice
    /\ UNCHANGED <<settingVars, server, mob, storeVars, agent, pair, unpair, pastVars, used>>

\* The deferred cleanup starts: DeletePairing for a legacy server, or Close.
Leave == IF kind = "legacy" THEN "legacy" ELSE "close"

\* pair_complete arrives and VerifyPairMAC accepts it or ends the session.
WaitForPairComplete ==
    /\ pair.pc = "wait"
    /\ pair.wire # NoDevice
    /\ pair' = [pair EXCEPT !.received = pair.wire,
                            !.pc = IF ~pair.mac THEN Leave
                                   ELSE IF kind = "confirming" THEN "accept" ELSE "store"]
    /\ UNCHANGED <<settingVars, serverVars, storeVars, agent, unpair, pastVars, used>>

\* The socket breaks or PairTimeout passes; a pair_complete that raced the
\* deadline may still have been received.
WaitFails ==
    /\ pair.pc = "wait"
    /\ \E d \in {NoDevice, pair.wire} : pair' = [pair EXCEPT !.received = d, !.pc = Leave]
    /\ UNCHANGED <<settingVars, serverVars, storeVars, agent, unpair, pastVars, used>>

-----------------------------------------------------------------------------
(* Accept.  The server commits a request it still holds.                    *)

Commit(d) ==
    /\ server' = d
    /\ mob' = [mob EXCEPT ![d] = pair.session]
    /\ held' = NoDevice

\* Mutant: the pairing is stored without waiting for pair_result.
AcceptBlindly ==
    /\ pair.pc = "accept"
    /\ pair' = [pair EXCEPT !.decided = "accept", !.pc = "store"]
    /\ IF held = pair.received THEN Commit(pair.received) ELSE UNCHANGED serverVars
    /\ UNCHANGED <<settingVars, storeVars, agent, unpair, pastVars, used>>

\* pair_accept reaches the server and its pair_result the host.
Accept ==
    /\ pair.pc = "accept"
    /\ IF held = pair.received
       THEN Commit(pair.received) /\ pair' = [pair EXCEPT !.decided = "accept", !.pc = "store"]
       ELSE /\ pair' = [pair EXCEPT !.decided = "accept", !.pc = Leave]
            /\ UNCHANGED serverVars
    /\ UNCHANGED <<settingVars, storeVars, agent, unpair, pastVars, used>>

\* pair_accept is not sent, is lost, or its pair_result is.
AcceptFails ==
    /\ pair.pc = "accept"
    /\ pair' = [pair EXCEPT !.decided = "accept", !.pc = Leave]
    /\ \/ UNCHANGED serverVars
       \/ held = pair.received /\ Commit(pair.received)
    /\ UNCHANGED <<settingVars, storeVars, agent, unpair, pastVars, used>>

-----------------------------------------------------------------------------
(* AddPairedDevice and what follows it.                                     *)

\* Mutant: Set does not flush.
StoreSecretUnflushed ==
    /\ pair.pc = "store"
    /\ pair' = [pair EXCEPT !.cache = Cached(pair.cache, pair.received, pair.session),
                            !.pc = "save"]
    /\ UNCHANGED <<settingVars, serverVars, storeVars, agent, unpair, pastVars, used>>

StoreSecret ==
    /\ pair.pc = "store"
    /\ secrets' = Flushed(pair.cache, pair.received, pair.session)
    /\ pair' = [pair EXCEPT !.cache = Cached(pair.cache, pair.received, pair.session),
                            !.pc = "save"]
    /\ UNCHANGED <<settingVars, serverVars, devices, agent, unpair, pastVars, used>>

\* SavePairedDevices: a temporary file renamed over the list.
SavePairedDevices ==
    /\ pair.pc = "save"
    /\ devices' = pair.received
    /\ pair' = [pair EXCEPT !.stored = TRUE, !.pc = "drop"]
    /\ gone' = gone \ {pair.received}
    /\ UNCHANGED <<settingVars, serverVars, secrets, agent, unpair, before, agreed,
                   overlap, torn, used>>

\* The secret cannot be written: only the process's own map has it.
StoreSecretFails ==
    /\ pair.pc = "store"
    /\ pair' = [pair EXCEPT !.cache = Cached(pair.cache, pair.received, pair.session),
                            !.pc = Leave]
    /\ UNCHANGED <<settingVars, serverVars, storeVars, agent, unpair, pastVars, used>>

\* The list cannot be written.
SaveFails ==
    /\ pair.pc = "save"
    /\ pair' = [pair EXCEPT !.pc = Leave]
    /\ UNCHANGED <<settingVars, serverVars, storeVars, agent, unpair, pastVars, used>>

\* The replaced device's secret is deleted, best effort.
DropOldSecret ==
    /\ pair.pc = "drop"
    /\ IF pair.existing \in {NoDevice, pair.received}
       THEN /\ pair' = [pair EXCEPT !.pc = "signal"]
            /\ UNCHANGED secrets
       ELSE /\ secrets' \in {secrets, Flushed(pair.cache, pair.existing, NoSecret)}
            /\ pair' = [pair EXCEPT !.cache = Cached(pair.cache, pair.existing, NoSecret),
                                    !.pc = "signal"]
    /\ UNCHANGED <<settingVars, serverVars, devices, agent, unpair, pastVars, used>>

PairSignals ==
    /\ pair.pc = "signal"
    /\ SignalReload
    /\ pair' = [pair EXCEPT !.pc = Leave]
    /\ UNCHANGED <<settingVars, serverVars, storeVars, unpair, pastVars, used>>

-----------------------------------------------------------------------------
(* The deferred calls, in the order they run.                               *)

\* Mutant: the old device is kept although a legacy server has dropped it.
LegacyCleanupKeeps ==
    /\ pair.pc = "legacy"
    /\ pair' = [pair EXCEPT !.pc = "close"]
    /\ IF pair.received = NoDevice \/ pair.stored THEN UNCHANGED server
       ELSE server' = NoDevice
    /\ UNCHANGED <<settingVars, held, mob, storeVars, agent, unpair, pastVars, used>>

\* A legacy server's pairing that was not stored is deleted (best effort), and
\* the old device, which the server dropped, is removed here too.
LegacyCleanup ==
    /\ pair.pc = "legacy"
    /\ IF pair.received = NoDevice \/ pair.stored
       THEN pair' = [pair EXCEPT !.pc = "close"] /\ UNCHANGED server
       ELSE /\ pair' = [pair EXCEPT !.pc = IF pair.existing = NoDevice THEN "close"
                                           ELSE "remove"]
            /\ server' \in {server, NoDevice}
    /\ UNCHANGED <<settingVars, held, mob, storeVars, agent, unpair, pastVars, used>>

\* RemovePairedDevice reads the list, deletes the secret ...
RemoveOldSecret ==
    /\ pair.pc = "remove"
    /\ secrets' = Flushed(pair.cache, pair.existing, NoSecret)
    /\ pair' = [pair EXCEPT !.cache = Cached(pair.cache, pair.existing, NoSecret),
                            !.list = IF devices = pair.existing THEN NoDevice ELSE devices,
                            !.pc = "removed"]
    /\ UNCHANGED <<settingVars, serverVars, devices, agent, unpair, pastVars, used>>

\* ... and writes the list it read without the device.
RemoveOldDevice ==
    /\ pair.pc = "removed"
    /\ devices' = pair.list
    /\ pair' = [pair EXCEPT !.pc = "close"]
    /\ UNCHANGED <<settingVars, serverVars, secrets, agent, unpair, pastVars, used>>

\* Either write fails: a warning.
RemoveFails ==
    /\ pair.pc \in {"remove", "removed"}
    /\ pair' = [pair EXCEPT !.pc = "close"]
    /\ torn' = TRUE
    /\ UNCHANGED <<settingVars, serverVars, storeVars, agent, unpair, before, agreed,
                   overlap, gone, used>>

\* PairSession.Close rejects a pair_complete that was not answered; the reject
\* may be lost.
CloseSession ==
    /\ pair.pc = "close"
    /\ pair' = [pair EXCEPT !.pc = "ensure",
                            !.decided = IF @ = "none" /\ kind = "confirming"
                                            /\ pair.received # NoDevice
                                        THEN "reject" ELSE @]
    /\ held' \in {held, IF pair'.decided = "reject" THEN NoDevice ELSE held}
    /\ UNCHANGED <<settingVars, server, mob, storeVars, agent, unpair, pastVars, used>>

\* Mutant: the agent is restarted only after a pairing that was stored.
EnsureRunningIfStored ==
    /\ pair.pc = "ensure"
    /\ agent' = IF agent.pc = "off" /\ pair.stored THEN [AgentOff EXCEPT !.pc = "exec"]
                ELSE agent
    /\ pair' = PairIdle
    /\ UNCHANGED <<settingVars, serverVars, storeVars, unpair, pastVars, used>>

EnsureRunning ==
    /\ pair.pc = "ensure"
    /\ agent' = IF agent.pc = "off" THEN [AgentOff EXCEPT !.pc = "exec"] ELSE agent
    /\ pair' = PairIdle
    /\ UNCHANGED <<settingVars, serverVars, storeVars, unpair, pastVars, used>>

\* The command is killed: no deferred call runs.
PairKilled ==
    /\ pair.pc # "idle"
    /\ used.crashes < MaxCrashes
    /\ torn' = (torn \/ pair.pc = "removed")
    /\ pair' = PairIdle
    /\ used' = [used EXCEPT !.crashes = @ + 1]
    /\ UNCHANGED <<settingVars, serverVars, storeVars, agent, unpair, before, agreed,
                   overlap, gone>>

-----------------------------------------------------------------------------
(* RunUnpair                                                               *)

UnpairBegins ==
    /\ unpair.pc = "idle"
    /\ used.unpairs < MaxUnpairs
    /\ devices # NoDevice
    /\ unpair' = [UnpairIdle EXCEPT !.pc = "notify", !.device = devices, !.cache = Loaded]
    /\ used' = [used EXCEPT !.unpairs = @ + 1]
    /\ agreed' = FALSE
    /\ overlap' = (overlap \/ pair.pc # "idle")
    /\ UNCHANGED <<settingVars, serverVars, storeVars, agent, pair, before, torn, gone>>

\* DeletePairing, best effort.
UnpairNotifiesServer ==
    /\ unpair.pc = "notify"
    /\ server' \in {server, NoDevice}
    /\ unpair' = [unpair EXCEPT !.pc = "delete"]
    /\ UNCHANGED <<settingVars, held, mob, storeVars, agent, pair, pastVars, used>>

\* RemovePairedDevice reads the list, deletes the secret ...
UnpairDeletesSecret ==
    /\ unpair.pc = "delete"
    /\ secrets' = Flushed(unpair.cache, unpair.device, NoSecret)
    /\ unpair' = [unpair EXCEPT
                     !.cache = Cached(unpair.cache, unpair.device, NoSecret),
                     !.list = IF devices = unpair.device THEN NoDevice ELSE devices,
                     !.pc = "save"]
    /\ UNCHANGED <<settingVars, serverVars, devices, agent, pair, pastVars, used>>

\* ... and writes the list it read without the device.
UnpairSavesDevices ==
    /\ unpair.pc = "save"
    /\ devices' = unpair.list
    /\ unpair' = [unpair EXCEPT !.pc = "signal"]
    /\ UNCHANGED <<settingVars, serverVars, secrets, agent, pair, pastVars, used>>

\* Either write fails: the command ends with an error and signals nobody.
UnpairFails ==
    /\ unpair.pc \in {"delete", "save"}
    /\ unpair' = UnpairIdle
    /\ torn' = (torn \/ unpair.pc = "save")
    /\ UNCHANGED <<settingVars, serverVars, storeVars, agent, pair, before, agreed,
                   overlap, gone, used>>

\* Mutant: nobody tells the agent.
UnpairEndsSilently ==
    /\ unpair.pc = "signal"
    /\ unpair' = UnpairIdle
    /\ gone' = gone \cup ({unpair.device} \ {devices})
    /\ UNCHANGED <<settingVars, serverVars, storeVars, agent, pair, before, agreed,
                   overlap, torn, used>>

UnpairSignals ==
    /\ unpair.pc = "signal"
    /\ SignalReload
    /\ unpair' = UnpairIdle
    /\ gone' = gone \cup ({unpair.device} \ {devices})
    /\ UNCHANGED <<settingVars, serverVars, storeVars, pair, before, agreed, overlap,
                   torn, used>>

UnpairKilled ==
    /\ unpair.pc # "idle"
    /\ used.crashes < MaxCrashes
    /\ torn' = (torn \/ unpair.pc = "save")
    /\ unpair' = UnpairIdle
    /\ used' = [used EXCEPT !.crashes = @ + 1]
    /\ UNCHANGED <<settingVars, serverVars, storeVars, agent, pair, before, agreed,
                   overlap, gone>>

-----------------------------------------------------------------------------
(* The agent process                                                       *)

\* Any pmux command starts an agent that is not running.
Command ==
    /\ agent.pc = "off"
    /\ used.commands < MaxCommands
    /\ agent' = [AgentOff EXCEPT !.pc = "exec"]
    /\ used' = [used EXCEPT !.commands = @ + 1]
    /\ UNCHANGED <<settingVars, serverVars, storeVars, pair, unpair, pastVars>>

\* signal.Notify, early in Run.
AgentHandlesSignals ==
    /\ agent.pc = "exec"
    /\ agent' = [agent EXCEPT !.pc = "boot"]
    /\ UNCHANGED <<settingVars, serverVars, storeVars, pair, unpair, pastVars, used>>

\* LoadIdentity makes the agent's secret store read its file.
AgentLoadsSecrets ==
    /\ agent.pc = "boot"
    /\ agent' = [agent EXCEPT !.pc = "load", !.cache = Loaded]
    /\ UNCHANGED <<settingVars, serverVars, storeVars, pair, unpair, pastVars, used>>

AgentLoadsPairing ==
    /\ agent.pc = "load"
    /\ agent' = [agent EXCEPT !.pc = "up", !.allowed = devices]
    /\ UNCHANGED <<settingVars, serverVars, storeVars, pair, unpair, pastVars, used>>

\* The SIGUSR2 handler; closing the peers is PeerManager's reload.
AgentReloads ==
    /\ agent.pc = "up"
    /\ agent.reload
    /\ agent' = [agent EXCEPT !.reload = FALSE, !.allowed = devices]
    /\ UNCHANGED <<settingVars, serverVars, storeVars, pair, unpair, pastVars, used>>

\* mobile_name_updated for the allowed device: UpdatePairedDeviceName loads the list
\* on the signaling read loop, while the signal handler runs on its own goroutine ...
AgentReadsName ==
    /\ agent.pc = "up"
    /\ agent.rename = NoDevice
    /\ agent.allowed # NoDevice
    /\ devices = agent.allowed
    /\ used.renames < MaxRenames
    /\ agent' = [agent EXCEPT !.rename = devices]
    /\ used' = [used EXCEPT !.renames = @ + 1]
    /\ UNCHANGED <<settingVars, serverVars, storeVars, pair, unpair, pastVars>>

\* ... and writes back the device it loaded, whatever the list holds by then.  The
\* write may fail.
AgentSavesName ==
    /\ agent.rename # NoDevice
    /\ agent' = [agent EXCEPT !.rename = NoDevice]
    /\ \/ UNCHANGED <<devices, agreed, overlap>>
       \/ /\ devices' = agent.rename
          /\ agreed' = (agreed /\ devices = agent.rename)
          /\ overlap' = (overlap \/ devices # agent.rename)
    /\ UNCHANGED <<settingVars, serverVars, secrets, pair, unpair, before, torn, gone, used>>

-----------------------------------------------------------------------------
PairStep ==
    \/ StopRunning
    \/ DialFails
    \/ DialPairSession
    \/ WaitForPairComplete
    \/ WaitFails
    \/ Accept
    \/ AcceptFails
    \/ StoreSecret
    \/ SavePairedDevices
    \/ StoreSecretFails
    \/ SaveFails
    \/ DropOldSecret
    \/ PairSignals
    \/ LegacyCleanup
    \/ RemoveOldSecret
    \/ RemoveOldDevice
    \/ RemoveFails
    \/ CloseSession
    \/ EnsureRunning

UnpairStep ==
    \/ UnpairNotifiesServer
    \/ UnpairDeletesSecret
    \/ UnpairSavesDevices
    \/ UnpairFails
    \/ UnpairSignals

AgentStep ==
    \/ AgentHandlesSignals
    \/ AgentLoadsSecrets
    \/ AgentLoadsPairing
    \/ AgentReloads
    \/ AgentSavesName

Environment ==
    \/ PairBegins
    \/ UnpairBegins
    \/ PairKilled
    \/ UnpairKilled
    \/ Command
    \/ AgentReadsName
    \/ HoldExpires
    \/ \E d \in Mobiles, mac \in BOOLEAN : MobileCompletes(d, mac)

Next == PairStep \/ UnpairStep \/ AgentStep \/ Environment

Spec == Init /\ [][Next]_vars

\* A command that is not killed and the agent run on, a name update that began
\* included; every wait of RunPair has a timeout.  Nothing is assumed of the user, the
\* mobile or the server.
Fairness == WF_vars(PairStep) /\ WF_vars(UnpairStep) /\ WF_vars(AgentStep)

FairSpec == Spec /\ Fairness

-----------------------------------------------------------------------------
(* Properties                                                              *)

Stores == [Mobiles -> Secrets]

AgentStates ==
    [pc : {"off", "exec", "boot", "load", "up"}, cache : Stores,
     allowed : Mobiles \cup {NoDevice}, reload : BOOLEAN, rename : Mobiles \cup {NoDevice}]

PairStates ==
    [pc : {"idle", "stop", "dial", "wait", "accept", "store", "save", "drop", "signal",
           "legacy", "remove", "removed", "close", "ensure"},
     session : 0 .. MaxPairs, existing : Mobiles \cup {NoDevice},
     wire : Mobiles \cup {NoDevice}, mac : BOOLEAN, received : Mobiles \cup {NoDevice},
     decided : {"none", "accept", "reject"}, stored : BOOLEAN,
     list : Mobiles \cup {NoDevice}, cache : Stores]

UnpairStates ==
    [pc : {"idle", "notify", "delete", "save", "signal"},
     device : Mobiles \cup {NoDevice}, list : Mobiles \cup {NoDevice}, cache : Stores]

Counts == [pairs : 0 .. MaxPairs, unpairs : Nat, crashes : Nat, commands : Nat,
           renames : Nat]

\* The shape of every variable.
TypeOK ==
    /\ kind \in Servers
    /\ backend \in Backends
    /\ server \in Mobiles \cup {NoDevice}
    /\ held \in Mobiles \cup {NoDevice}
    /\ mob \in Stores
    /\ devices \in Mobiles \cup {NoDevice}
    /\ secrets \in Stores
    /\ agent \in AgentStates
    /\ pair \in PairStates
    /\ unpair \in UnpairStates
    /\ before \in Mobiles \cup {NoDevice}
    /\ agreed \in BOOLEAN
    /\ overlap \in BOOLEAN
    /\ torn \in BOOLEAN
    /\ gone \in SUBSET Mobiles
    /\ used \in Counts

\* RunPair reports success only when host, server and mobile agree on the device
\* and its secret: nothing is persisted for a mobile that did not prove it read the
\* code, or that the server did not commit.
PairedMeansWorks ==
    (pair.pc = "signal" /\ agreed) => Works(pair.received)

\* With a confirming server a re-pair that fails before it was accepted leaves the
\* old device working.
FailedRepairKeepsOld ==
    (pair.pc = "ensure" /\ agreed /\ kind = "confirming" /\ before # NoDevice
        /\ ~pair.stored /\ pair.decided # "accept") => Works(before)

\* When RunPair returns, a device the host keeps is the one the server has.  RunPair
\* documents one exception, an accepted pairing whose result or store failed; it cannot
\* help two others, a removal the disk refused and a legacy server's pair_complete
\* that never arrived.
NoGhostPairing ==
    (/\ pair.pc = "ensure"
     /\ agreed
     /\ devices # NoDevice
     /\ ~torn
     /\ pair.decided = "accept" => pair.stored
     /\ kind = "legacy" => pair.received = pair.wire)
        => devices = server

\* A device in the list has its secret in the store, also after a crash at any point
\* of a pairing.  Three things leave one without: a removal that failed or was killed
\* between its two writes, an unpairing that ran beside a pairing, and an agent that
\* wrote back, for a name update, a list from before the unpairing.
DeviceHasSecret ==
    (devices # NoDevice /\ ~overlap /\ ~torn /\ pair.pc # "removed" /\ unpair.pc # "save")
        => secrets[devices] # NoSecret

\* The agent lets the device in: it is the allowed one and the secrets match.
CanConnect(d) ==
    agent.pc = "up" /\ agent.allowed = d /\ AgentSecret(d) = mob[d] /\ mob[d] # NoSecret

\* An unpaired mobile cannot connect once the agent has handled the signal, although
\* a FileSecretStore of a running agent keeps its secret for ever.  That needs the list
\* the agent reloads to be the one unpair wrote: a pairing that ran beside it, or a name
\* update that loaded the list before and saves it after, puts the device back.
UnpairedCannotConnect ==
    ~overlap => \A d \in gone : ~agent.reload => ~CanConnect(d)

\* An agent that a racing command started during the pairing, and that has reloaded it
\* on RunPair's signal, lets the new device in.
ReloadedPairingWorks ==
    (pair.pc = "ensure" /\ pair.stored /\ unpair.pc = "idle" /\ agent.pc = "up" /\ ~agent.reload)
        => CanConnect(pair.received)

\* RunPair stops the agent, and however it returns, refused, timed out or with an agent
\* its own signal has just killed, it leaves one running.  An agent killed later, by the
\* signal of a command that follows, is that command's.
AgentRestarted ==
    (pair.pc = "dial") ~> ((pair.pc = "idle" /\ agent.pc # "off") \/ used.crashes > 0)

=============================================================================
