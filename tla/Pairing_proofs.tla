--------------------------- MODULE Pairing_proofs ---------------------------
(***************************************************************************)
(* Safety of pairing and unpairing, for any number of mobiles, commands and *)
(* crashes, over both kinds of server and of secret store.                  *)
(***************************************************************************)
EXTENDS Pairing, TLAPS

\* As long as no overlap is recorded, one of the two commands is not running.
OneAtATime == ~overlap => pair.pc = "idle" \/ unpair.pc = "idle"

\* agreed is given up as soon as an unpairing begins (or a stale list is written back).
AgreedAlone == agreed => unpair.pc = "idle"

\* Nobody but this pairing has written to the stores since it began.
PairAlone == pair.pc # "idle" /\ (agreed \/ ~overlap)

\* The stages of RunPair before it has stored anything.
Unstored == {"stop", "dial", "wait", "accept", "store"}

\* Until the new list is saved the old one stands, which RunPair read when it began;
\* then the list holds the new device.
ListStands ==
    PairAlone =>
        /\ (~pair.stored /\ pair.pc \in Unstored \cup {"save", "legacy", "remove", "removed"})
              => devices = pair.existing
        /\ pair.stored => devices = pair.received /\ pair.received \in Mobiles

\* What a flush of this process writes back is what the file holds, ...
CacheIsFile ==
    (PairAlone /\ backend = "file" /\ pair.pc \in Unstored) => pair.cache = secrets

\* ... and after the new secret is set it holds that one, also in the process's own map.
SecretIsStored ==
    (PairAlone /\ pair.pc \in {"save", "drop", "signal"}) =>
        /\ secrets[pair.received] = pair.session
        /\ backend = "file" => pair.cache[pair.received] = pair.session

\* The progress of a pairing: what each stage has behind it.
PairProgress ==
    /\ pair.pc # "idle" => pair.session # 0
    /\ pair.pc \in {"accept", "store", "save", "drop", "signal"} => pair.received \in Mobiles
    /\ pair.pc = "accept" => kind = "confirming"
    /\ pair.pc \in {"legacy", "remove", "removed"} => kind = "legacy"
    /\ pair.pc \in {"remove", "removed"} =>
          ~pair.stored /\ pair.existing \in Mobiles /\ pair.received # NoDevice
    /\ pair.pc \in {"drop", "signal"} => pair.stored
    /\ pair.pc \in Unstored \cup {"save"} => ~pair.stored
    /\ pair.pc \in {"stop", "dial"} => pair.wire = NoDevice
    /\ pair.pc \in {"stop", "dial", "wait"} => pair.received = NoDevice
    /\ pair.received # NoDevice => pair.received = pair.wire
    /\ kind = "confirming" /\ pair.pc \in {"store", "save", "drop", "signal"} =>
          pair.decided = "accept"
    /\ pair.pc \in {"stop", "dial", "wait", "accept"} => pair.decided = "none"
    /\ kind = "legacy" => pair.decided = "none"
    /\ kind = "confirming" /\ pair.stored => pair.decided = "accept"

\* An unpairing that runs has a device to remove.
UnpairNames == unpair.pc # "idle" => unpair.device \in Mobiles

\* The list a removal is about to write is empty: the device it removes was the only one.
RemovalEmpties ==
    /\ PairAlone /\ pair.pc = "removed" => pair.list = NoDevice
    /\ ~overlap /\ unpair.pc \in {"notify", "delete", "save"} => devices = unpair.device
    /\ ~overlap /\ unpair.pc = "save" => unpair.list = NoDevice

\* A pairing that was not stored leaves no device behind at a legacy server that had
\* heard of it, unless the disk refused; otherwise the old device stays.
ListAtEnd ==
    (agreed /\ pair.pc # "idle") =>
        /\ (~pair.stored /\ pair.pc \in {"close", "ensure"} /\ kind = "legacy" /\ ~torn
              /\ pair.received # NoDevice) => devices = NoDevice
        /\ (~pair.stored /\ pair.pc \in {"close", "ensure"} /\
              (kind = "confirming" \/ pair.received = NoDevice))
              => devices = pair.existing

\* What the server and the mobile have, at each stage of a pairing that began in agreement.
ServerAgrees ==
    agreed =>
        /\ pair.pc \in {"store", "save", "drop", "signal"} \/ (pair.stored /\ pair.pc # "idle") =>
              server = pair.received /\ mob[pair.received] = pair.session
        /\ (pair.pc = "wait" /\ kind = "legacy" /\ pair.wire # NoDevice) =>
              server = pair.wire /\ (pair.mac => mob[pair.wire] = pair.session)
        /\ (pair.pc # "idle" /\ (IF kind = "legacy" THEN pair.wire = NoDevice
                                 ELSE pair.decided # "accept"))
              => pair.existing \in {NoDevice, server}

\* Until a confirming server is told to accept, the old pairing is untouched.
OldStillWorks ==
    (agreed /\ pair.pc # "idle" /\ kind = "confirming" /\ pair.decided # "accept"
        /\ before # NoDevice) => Works(before)

\* A device that was unpaired is not in the list, nor the one the agent admits.
GoneIsOut ==
    ~overlap =>
        /\ devices \notin gone
        /\ agent.pc = "up" /\ ~agent.reload => agent.allowed \notin gone

Stages == ListStands /\ CacheIsFile /\ SecretIsStored /\ PairProgress /\ UnpairNames
Outcome == RemovalEmpties /\ ListAtEnd /\ ServerAgrees /\ OldStillWorks /\ GoneIsOut

IInv == TypeOK /\ OneAtATime /\ AgreedAlone /\ Stages /\ Outcome /\ DeviceHasSecret

-----------------------------------------------------------------------------
(* Types                                                                     *)

\* What a process loads is a map from mobiles to secrets.
LEMMA LoadType ==
    ASSUME TypeOK
    PROVE  Loaded \in Stores
<1>1. NoSecrets \in Stores
  BY CountAssumption DEF NoSecrets, NoSecret, Stores, Secrets
<1> QED
  BY <1>1 DEF TypeOK, Loaded, Stores

\* What a process flushes and caches is one too.
LEMMA FlushTypes ==
    ASSUME TypeOK, NEW c \in Stores, NEW d, NEW v \in Secrets
    PROVE  Flushed(c, d, v) \in Stores /\ Cached(c, d, v) \in Stores
  BY DEF TypeOK, Flushed, Cached, Stores

\* The processes that are not running.
LEMMA IdleTypes ==
    PairIdle \in PairStates /\ UnpairIdle \in UnpairStates /\ AgentOff \in AgentStates
<1>1. NoSecrets \in Stores
  BY CountAssumption DEF NoSecrets, NoSecret, Stores, Secrets
<1> QED
  BY <1>1, CountAssumption DEF PairIdle, UnpairIdle, AgentOff, PairStates, UnpairStates, AgentStates

\* The steps of RunPair keep the type of every variable.
LEMMA PairStepType == ASSUME TypeOK, UnpairNames, PairStep PROVE TypeOK'
<1> USE KindAssumption, CountAssumption DEF TypeOK, settingVars, serverVars, storeVars, pastVars
<1>1. CASE StopRunning
  <2>1. pair' \in PairStates
    BY <1>1 DEF StopRunning, PairStates
  <2>2. agent' \in AgentStates
    BY <1>1, IdleTypes DEF StopRunning, AgentStates
  <2> QED
    BY <1>1, <2>1, <2>2 DEF StopRunning
<1>2. CASE DialFails
  <2>1. pair' \in PairStates
    BY <1>2 DEF DialFails, PairStates
  <2> QED
    BY <1>2, <2>1 DEF DialFails
<1>3. CASE DialPairSession
  <2>1. pair' \in PairStates
    BY <1>3 DEF DialPairSession, PairStates
  <2> QED
    BY <1>3, <2>1 DEF DialPairSession
<1>4. CASE WaitForPairComplete
  <2>1. pair' \in PairStates
    BY <1>4 DEF WaitForPairComplete, Leave, PairStates
  <2> QED
    BY <1>4, <2>1 DEF WaitForPairComplete
<1>5. CASE WaitFails
  <2>1. PICK d \in {NoDevice, pair.wire} : pair' = [pair EXCEPT !.received = d, !.pc = Leave]
    BY <1>5 DEF WaitFails
  <2>2. pair' \in PairStates
    BY <2>1 DEF Leave, PairStates
  <2> QED
    BY <1>5, <2>2 DEF WaitFails
<1>6. CASE Accept
  <2>1. PICK s \in {"store", "legacy", "close"} :
           pair' = [pair EXCEPT !.decided = "accept", !.pc = s]
    BY <1>6 DEF Accept, Leave
  <2>2. pair' \in PairStates
    BY <2>1 DEF PairStates
  <2>3. mob' \in Stores
    BY <1>6 DEF Accept, Commit, PairStates, Stores, Secrets
  <2> QED
    BY <1>6, <2>2, <2>3 DEF Accept, Commit, PairStates
<1>7. CASE AcceptFails
  <2>1. pair' \in PairStates
    BY <1>7 DEF AcceptFails, Leave, PairStates
  <2>2. mob' \in Stores
    BY <1>7 DEF AcceptFails, Commit, PairStates, Stores, Secrets, NoSecret
  <2> QED
    BY <1>7, <2>1, <2>2 DEF AcceptFails, Commit, PairStates
<1>8. CASE StoreSecret
  <2> DEFINE c == Cached(pair.cache, pair.received, pair.session)
             f == Flushed(pair.cache, pair.received, pair.session)
  <2>1. c \in Stores /\ f \in Stores
    BY FlushTypes DEF PairStates, Secrets, NoSecret
  <2>2. pair' = [pair EXCEPT !.cache = c, !.pc = "save"]
    BY <1>8 DEF StoreSecret
  <2>3. secrets' = f
    BY <1>8 DEF StoreSecret
  <2> HIDE DEF c, f
  <2>4. pair' \in PairStates
    BY <2>1, <2>2 DEF PairStates
  <2> QED
    BY <1>8, <2>1, <2>3, <2>4 DEF StoreSecret
<1>9. CASE SavePairedDevices
  <2>1. pair' \in PairStates
    BY <1>9 DEF SavePairedDevices, PairStates
  <2> QED
    BY <1>9, <2>1 DEF SavePairedDevices, PairStates
<1>10. CASE StoreSecretFails
  <2> DEFINE c == Cached(pair.cache, pair.received, pair.session)
             f == Flushed(pair.cache, pair.received, pair.session)
  <2>1. c \in Stores /\ f \in Stores
    BY FlushTypes DEF PairStates, Secrets, NoSecret
  <2>2. pair' = [pair EXCEPT !.cache = c, !.pc = Leave]
    BY <1>10 DEF StoreSecretFails
  <2> HIDE DEF c, f
  <2>4. pair' \in PairStates
    BY <2>1, <2>2 DEF PairStates, Leave
  <2> QED
    BY <1>10, <2>1, <2>4 DEF StoreSecretFails
<1>11. CASE SaveFails
  <2>1. pair' \in PairStates
    BY <1>11 DEF SaveFails, Leave, PairStates
  <2> QED
    BY <1>11, <2>1 DEF SaveFails
<1>12. CASE DropOldSecret
  <2> DEFINE c == Cached(pair.cache, pair.existing, NoSecret)
             f == Flushed(pair.cache, pair.existing, NoSecret)
  <2>1. c \in Stores /\ f \in Stores
    BY FlushTypes DEF PairStates, Secrets, NoSecret
  <2>2. \/ pair' = [pair EXCEPT !.pc = "signal"]
        \/ pair' = [pair EXCEPT !.cache = c, !.pc = "signal"]
    BY <1>12 DEF DropOldSecret
  <2>3. secrets' \in {secrets, f}
    BY <1>12 DEF DropOldSecret
  <2> HIDE DEF c, f
  <2>4. pair' \in PairStates
    <3>1. CASE pair' = [pair EXCEPT !.pc = "signal"]
      BY <3>1 DEF PairStates
    <3>2. CASE pair' = [pair EXCEPT !.cache = c, !.pc = "signal"]
      BY <2>1, <3>2 DEF PairStates
    <3> QED
      BY <2>2, <3>1, <3>2
  <2> QED
    BY <1>12, <2>1, <2>3, <2>4 DEF DropOldSecret
<1>13. CASE PairSignals
  <2>1. pair' \in PairStates
    BY <1>13 DEF PairSignals, Leave, PairStates
  <2>2. agent' \in AgentStates
    BY <1>13, IdleTypes DEF PairSignals, SignalReload, AgentStates
  <2> QED
    BY <1>13, <2>1, <2>2 DEF PairSignals
<1>14. CASE LegacyCleanup
  <2>1. pair' \in PairStates
    BY <1>14 DEF LegacyCleanup, PairStates
  <2> QED
    BY <1>14, <2>1 DEF LegacyCleanup
<1>15. CASE RemoveOldSecret
  <2> DEFINE c == Cached(pair.cache, pair.existing, NoSecret)
             f == Flushed(pair.cache, pair.existing, NoSecret)
  <2>1. c \in Stores /\ f \in Stores
    BY FlushTypes DEF PairStates, Secrets, NoSecret
  <2>2. pair' = [pair EXCEPT !.cache = c,
                             !.list = IF devices = pair.existing THEN NoDevice ELSE devices, !.pc = "removed"]
    BY <1>15 DEF RemoveOldSecret
  <2>3. secrets' = f
    BY <1>15 DEF RemoveOldSecret
  <2> HIDE DEF c, f
  <2>4. pair' \in PairStates
    BY <2>1, <2>2 DEF PairStates
  <2> QED
    BY <1>15, <2>1, <2>3, <2>4 DEF RemoveOldSecret
<1>16. CASE RemoveOldDevice
  <2>1. pair' \in PairStates
    BY <1>16 DEF RemoveOldDevice, PairStates
  <2> QED
    BY <1>16, <2>1 DEF RemoveOldDevice, PairStates
<1>17. CASE RemoveFails
  <2>1. pair' \in PairStates
    BY <1>17 DEF RemoveFails, PairStates
  <2> QED
    BY <1>17, <2>1 DEF RemoveFails
<1>18. CASE CloseSession
  <2>1. pair' \in PairStates
    BY <1>18 DEF CloseSession, PairStates
  <2> QED
    BY <1>18, <2>1 DEF CloseSession
<1>19. CASE EnsureRunning
  <2>1. pair' \in PairStates
    BY <1>19, IdleTypes DEF EnsureRunning, PairStates
  <2>2. agent' \in AgentStates
    BY <1>19, IdleTypes DEF EnsureRunning, AgentStates
  <2> QED
    BY <1>19, <2>1, <2>2 DEF EnsureRunning
<1> QED
  BY <1>1, <1>2, <1>3, <1>4, <1>5, <1>6, <1>7, <1>8, <1>9, <1>10, <1>11, <1>12, <1>13,
     <1>14, <1>15, <1>16, <1>17, <1>18, <1>19 DEF PairStep

\* The steps of RunUnpair keep the type of every variable.
LEMMA UnpairStepType == ASSUME TypeOK, UnpairNames, UnpairStep PROVE TypeOK'
<1> USE KindAssumption, CountAssumption DEF TypeOK, settingVars, serverVars, storeVars, pastVars
<1>1. CASE UnpairNotifiesServer
  <2>1. unpair' \in UnpairStates
    BY <1>1 DEF UnpairNotifiesServer, UnpairStates
  <2> QED
    BY <1>1, <2>1 DEF UnpairNotifiesServer
<1>2. CASE UnpairDeletesSecret
  <2> DEFINE c == Cached(unpair.cache, unpair.device, NoSecret)
             f == Flushed(unpair.cache, unpair.device, NoSecret)
  <2>1. c \in Stores /\ f \in Stores
    BY FlushTypes DEF UnpairStates, Secrets, NoSecret
  <2>2. unpair' = [unpair EXCEPT !.cache = c,
                                 !.list = IF devices = unpair.device THEN NoDevice ELSE devices, !.pc = "save"]
    BY <1>2 DEF UnpairDeletesSecret
  <2>3. secrets' = f
    BY <1>2 DEF UnpairDeletesSecret
  <2> HIDE DEF c, f
  <2>4. unpair' \in UnpairStates
    BY <2>1, <2>2 DEF UnpairStates
  <2> QED
    BY <1>2, <2>1, <2>3, <2>4 DEF UnpairDeletesSecret
<1>3. CASE UnpairSavesDevices
  <2>1. unpair' \in UnpairStates
    BY <1>3 DEF UnpairSavesDevices, UnpairStates
  <2> QED
    BY <1>3, <2>1 DEF UnpairSavesDevices, UnpairStates
<1>4. CASE UnpairFails
  <2>1. unpair' \in UnpairStates
    BY <1>4, IdleTypes DEF UnpairFails, UnpairStates
  <2> QED
    BY <1>4, <2>1 DEF UnpairFails
<1>5. CASE UnpairSignals
  <2>1. unpair' \in UnpairStates
    BY <1>5, IdleTypes DEF UnpairSignals, UnpairStates
  <2>2. agent' \in AgentStates
    BY <1>5, IdleTypes DEF UnpairSignals, SignalReload, AgentStates
  <2> QED
    BY <1>5, <2>1, <2>2 DEF UnpairSignals, UnpairNames
<1> QED
  BY <1>1, <1>2, <1>3, <1>4, <1>5 DEF UnpairStep

\* The steps of the agent keep the type of every variable.
LEMMA AgentStepType == ASSUME TypeOK, UnpairNames, AgentStep PROVE TypeOK'
<1> USE KindAssumption, CountAssumption DEF TypeOK, settingVars, serverVars, storeVars, pastVars
<1>1. CASE AgentHandlesSignals
  <2>1. agent' \in AgentStates
    BY <1>1 DEF AgentHandlesSignals, AgentStates
  <2> QED
    BY <1>1, <2>1 DEF AgentHandlesSignals
<1>2. CASE AgentLoadsSecrets
  <2>1. agent' \in AgentStates
    BY <1>2, LoadType DEF AgentLoadsSecrets, AgentStates
  <2> QED
    BY <1>2, <2>1 DEF AgentLoadsSecrets
<1>3. CASE AgentLoadsPairing
  <2>1. agent' \in AgentStates
    BY <1>3 DEF AgentLoadsPairing, AgentStates
  <2> QED
    BY <1>3, <2>1 DEF AgentLoadsPairing
<1>4. CASE AgentReloads
  <2>1. agent' \in AgentStates
    BY <1>4 DEF AgentReloads, AgentStates
  <2> QED
    BY <1>4, <2>1 DEF AgentReloads
<1>5. CASE AgentSavesName
  <2>1. agent' \in AgentStates
    BY <1>5 DEF AgentSavesName, AgentStates
  <2>2. devices' \in Mobiles \cup {NoDevice}
    BY <1>5 DEF AgentSavesName, AgentStates
  <2> QED
    BY <1>5, <2>1, <2>2 DEF AgentSavesName
<1> QED
  BY <1>1, <1>2, <1>3, <1>4, <1>5 DEF AgentStep

\* The user, the mobile, the server and a kill keep the type of every variable.
LEMMA EnvironmentType == ASSUME TypeOK, UnpairNames, Environment PROVE TypeOK'
<1> USE KindAssumption, CountAssumption DEF TypeOK, settingVars, serverVars, storeVars, pastVars
<1>1. CASE PairBegins
  <2>1. used.pairs + 1 \in 0 .. MaxPairs
    BY <1>1 DEF PairBegins, Counts
  <2>2. pair' \in PairStates
    BY <1>1, <2>1, IdleTypes, LoadType DEF PairBegins, PairStates
  <2>3. used' \in Counts
    BY <1>1, <2>1 DEF PairBegins, Counts
  <2> QED
    BY <1>1, <2>2, <2>3 DEF PairBegins
<1>2. CASE UnpairBegins
  <2>1. unpair' \in UnpairStates
    BY <1>2, IdleTypes, LoadType DEF UnpairBegins, UnpairStates
  <2>2. used' \in Counts
    BY <1>2 DEF UnpairBegins, Counts
  <2> QED
    BY <1>2, <2>1, <2>2 DEF UnpairBegins
<1>3. CASE PairKilled
  <2>1. pair' \in PairStates
    BY <1>3, IdleTypes DEF PairKilled, PairStates
  <2>2. used' \in Counts
    BY <1>3 DEF PairKilled, Counts
  <2> QED
    BY <1>3, <2>1, <2>2 DEF PairKilled
<1>4. CASE UnpairKilled
  <2>1. unpair' \in UnpairStates
    BY <1>4, IdleTypes DEF UnpairKilled, UnpairStates
  <2>2. used' \in Counts
    BY <1>4 DEF UnpairKilled, Counts
  <2> QED
    BY <1>4, <2>1, <2>2 DEF UnpairKilled
<1>5. CASE Command
  <2>1. agent' \in AgentStates
    BY <1>5, IdleTypes DEF Command, AgentStates
  <2>2. used' \in Counts
    BY <1>5 DEF Command, Counts
  <2> QED
    BY <1>5, <2>1, <2>2 DEF Command
<1>6. CASE HoldExpires
  <2> QED
    BY <1>6 DEF HoldExpires
<1>7. ASSUME NEW d \in Mobiles, NEW mac \in BOOLEAN, MobileCompletes(d, mac)
      PROVE  TypeOK'
  <2>1. pair' \in PairStates
    BY <1>7 DEF MobileCompletes, PairStates
  <2>2. mob' \in Stores
    BY <1>7 DEF MobileCompletes, PairStates, Stores, Secrets, NoSecret
  <2> QED
    BY <1>7, <2>1, <2>2 DEF MobileCompletes
<1>8. CASE AgentReadsName
  <2>1. agent' \in AgentStates
    BY <1>8 DEF AgentReadsName, AgentStates
  <2>2. used' \in Counts
    BY <1>8 DEF AgentReadsName, Counts
  <2> QED
    BY <1>8, <2>1, <2>2 DEF AgentReadsName
<1> QED
  BY <1>1, <1>2, <1>3, <1>4, <1>5, <1>6, <1>7, <1>8 DEF Environment

-----------------------------------------------------------------------------
(* Each part of the invariant, action by action                              *)

\* A name update that is saved changes nothing but the name, or it overwrites a list that
\* changed since it was loaded, which overlap and agreed record.
LEMMA SavesNameEffect ==
    ASSUME agreed \in BOOLEAN, overlap \in BOOLEAN, agent \in AgentStates, AgentSavesName
    PROVE  /\ UNCHANGED <<kind, backend, server, held, mob, secrets, pair, unpair, before,
                          torn, gone, used>>
           /\ agent'.pc = agent.pc /\ agent'.allowed = agent.allowed
           /\ agent'.reload = agent.reload
           /\ UNCHANGED <<devices, agreed, overlap>> \/ (overlap' /\ ~agreed')
<1>1. /\ UNCHANGED <<kind, backend, server, held, mob, secrets, pair, unpair, before,
                     torn, gone, used>>
      /\ agent' = [agent EXCEPT !.rename = NoDevice]
  BY DEF AgentSavesName, settingVars, serverVars
<1>2. UNCHANGED <<devices, agreed, overlap>> \/ (overlap' /\ ~agreed')
  <2>1. CASE devices = agent.rename
    BY <2>1 DEF AgentSavesName
  <2>2. CASE devices # agent.rename
    BY <2>2, Zenon DEF AgentSavesName
  <2> QED
    BY <2>1, <2>2
<1> QED
  BY <1>1, <1>2 DEF AgentStates

\* UnpairNames: RunUnpair ends at once when nothing is paired.
LEMMA UnpairNamesKept == ASSUME IInv, TypeOK', Next PROVE UnpairNames'
<1> USE MobileAssumption, KindAssumption, CountAssumption DEF IInv, Stages, Outcome,
        UnpairNames, TypeOK, UnpairStates, settingVars, serverVars, storeVars,
        pastVars
<1>1. CASE UnpairNotifiesServer  BY <1>1 DEF UnpairNotifiesServer
<1>2. CASE UnpairDeletesSecret  BY <1>2 DEF UnpairDeletesSecret, Flushed, Cached
<1>3. CASE UnpairSavesDevices  BY <1>3 DEF UnpairSavesDevices
<1>4. CASE UnpairFails  BY <1>4 DEF UnpairFails, UnpairIdle, NoSecrets
<1>5. CASE UnpairSignals
  BY <1>5 DEF UnpairSignals, UnpairIdle, SignalReload, AgentOff, NoSecrets
<1>6. CASE UnpairBegins  BY <1>6 DEF UnpairBegins, UnpairIdle, Loaded, NoSecrets
<1>7. CASE UnpairKilled  BY <1>7 DEF UnpairKilled, UnpairIdle, NoSecrets
<1>8. CASE StopRunning \/ DialFails \/ DialPairSession \/ WaitForPairComplete \/
           WaitFails \/ Accept \/ AcceptFails \/ StoreSecret \/ SavePairedDevices \/
           StoreSecretFails \/ SaveFails \/ DropOldSecret \/ PairSignals \/
           LegacyCleanup \/ RemoveOldSecret \/ RemoveOldDevice \/ RemoveFails \/
           CloseSession \/ EnsureRunning \/ AgentHandlesSignals \/ AgentLoadsSecrets
           \/ AgentLoadsPairing \/ AgentReloads \/ PairBegins \/ PairKilled \/ Command
           \/ AgentReadsName \/ HoldExpires \/ \E d \in Mobiles, mac \in BOOLEAN : MobileCompletes(d,
           mac)
  <2>1. UNCHANGED <<unpair>>
    BY <1>8 DEF StopRunning, DialFails, DialPairSession, WaitForPairComplete,
           WaitFails, Accept, AcceptFails, StoreSecret, SavePairedDevices,
           StoreSecretFails, SaveFails, DropOldSecret, PairSignals, LegacyCleanup,
           RemoveOldSecret, RemoveOldDevice, RemoveFails, CloseSession, EnsureRunning,
           AgentHandlesSignals, AgentLoadsSecrets, AgentLoadsPairing, AgentReloads,
           PairBegins, PairKilled, Command, AgentReadsName, HoldExpires, MobileCompletes
  <2> QED
    BY <2>1
<1>9. CASE AgentSavesName  BY <1>9, SavesNameEffect
<1> QED
  BY <1>1, <1>2, <1>3, <1>4, <1>5, <1>6, <1>7, <1>8, <1>9 DEF Next, PairStep, UnpairStep,
     AgentStep, Environment

\* OneAtATime: a command that begins while the other runs sets overlap.
LEMMA OneAtATimeKept == ASSUME IInv, TypeOK', Next PROVE OneAtATime'
<1> USE MobileAssumption, KindAssumption, CountAssumption DEF IInv, Stages, Outcome,
        OneAtATime, TypeOK, PairStates, UnpairStates, settingVars, serverVars,
        storeVars, pastVars
<1>1. CASE StopRunning  BY <1>1 DEF StopRunning, AgentOff, NoSecrets
<1>2. CASE DialFails  BY <1>2 DEF DialFails
<1>3. CASE DialPairSession  BY <1>3 DEF DialPairSession
<1>4. CASE WaitForPairComplete  BY <1>4 DEF WaitForPairComplete, Leave
<1>5. CASE WaitFails  BY <1>5 DEF WaitFails, Leave
<1>6. CASE Accept
  <2>1. CASE held = pair.received
    <3>1. /\ pair.pc = "accept"
          /\ pair' = [pair EXCEPT !.decided = "accept", !.pc = "store"]
          /\ server' = pair.received
          /\ mob' = [mob EXCEPT ![pair.received] = pair.session]
      BY <1>6, <2>1 DEF Accept, Commit
    <3>2. UNCHANGED <<unpair, overlap>>
      BY <1>6 DEF Accept
    <3> QED
      BY <3>1, <3>2
  <2>2. CASE held # pair.received
    <3>1. /\ pair.pc = "accept"
          /\ pair' = [pair EXCEPT !.decided = "accept", !.pc = Leave]
      BY <1>6, <2>2 DEF Accept
    <3>2. UNCHANGED <<unpair, overlap>>
      BY <1>6, <2>2 DEF Accept
    <3> QED
      BY <3>1, <3>2 DEF Leave
  <2> QED
    BY <2>1, <2>2
<1>7. CASE AcceptFails  BY <1>7 DEF AcceptFails, Commit, Leave
<1>8. CASE StoreSecret  BY <1>8 DEF StoreSecret, Flushed, Cached
<1>9. CASE SavePairedDevices  BY <1>9 DEF SavePairedDevices
<1>10. CASE StoreSecretFails  BY <1>10 DEF StoreSecretFails, Cached, Leave
<1>11. CASE SaveFails  BY <1>11 DEF SaveFails, Leave
<1>12. CASE DropOldSecret
  <2>1. CASE pair.existing \in {NoDevice, pair.received}
    BY <1>12, <2>1 DEF DropOldSecret
  <2>2. CASE pair.existing \notin {NoDevice, pair.received}
    <3> DEFINE c == Cached(pair.cache, pair.existing, NoSecret)
    <3> HIDE DEF c
    <3>1. /\ pair.pc = "drop"
          /\ pair' = [pair EXCEPT !.cache = c, !.pc = "signal"]
          /\ UNCHANGED <<unpair, overlap>>
      BY <1>12, <2>2 DEF DropOldSecret, c
    <3> QED
      BY <2>2, <3>1
  <2> QED
    BY <2>1, <2>2
<1>13. CASE PairSignals  BY <1>13 DEF PairSignals, SignalReload, AgentOff, Leave
<1>14. CASE LegacyCleanup  BY <1>14 DEF LegacyCleanup
<1>15. CASE RemoveOldSecret  BY <1>15 DEF RemoveOldSecret, Flushed, Cached
<1>16. CASE RemoveOldDevice  BY <1>16 DEF RemoveOldDevice
<1>17. CASE RemoveFails  BY <1>17 DEF RemoveFails
<1>18. CASE CloseSession  BY <1>18 DEF CloseSession
<1>19. CASE EnsureRunning  BY <1>19 DEF EnsureRunning, PairIdle, AgentOff, NoSecrets
<1>20. CASE UnpairNotifiesServer  BY <1>20 DEF UnpairNotifiesServer
<1>21. CASE UnpairDeletesSecret  BY <1>21 DEF UnpairDeletesSecret, Flushed, Cached
<1>22. CASE UnpairSavesDevices  BY <1>22 DEF UnpairSavesDevices
<1>23. CASE UnpairFails  BY <1>23 DEF UnpairFails, UnpairIdle, NoSecrets
<1>24. CASE UnpairSignals
  BY <1>24 DEF UnpairSignals, UnpairIdle, SignalReload, AgentOff, NoSecrets
<1>25. CASE PairBegins
  <2>1. overlap \/ unpair.pc # "idle" => overlap'
    BY <1>25, Zenon DEF PairBegins
  <2> QED
    BY <1>25, <2>1 DEF PairBegins, PairIdle
<1>26. CASE UnpairBegins
  <2>1. overlap \/ pair.pc # "idle" => overlap'
    BY <1>26, Zenon DEF UnpairBegins
  <2> QED
    BY <1>26, <2>1 DEF UnpairBegins, UnpairIdle
<1>27. CASE PairKilled  BY <1>27 DEF PairKilled, PairIdle, NoSecrets
<1>28. CASE UnpairKilled  BY <1>28 DEF UnpairKilled, UnpairIdle, NoSecrets
<1>29. ASSUME NEW d \in Mobiles, NEW mac \in BOOLEAN, MobileCompletes(d, mac)
      PROVE  OneAtATime'
  BY <1>29 DEF MobileCompletes
<1>30. CASE AgentHandlesSignals \/ AgentLoadsSecrets \/ AgentLoadsPairing \/
           AgentReloads \/ Command \/ AgentReadsName \/ HoldExpires
  <2>1. UNCHANGED <<pair, unpair, overlap>>
    BY <1>30 DEF AgentHandlesSignals, AgentLoadsSecrets, AgentLoadsPairing,
           AgentReloads, Command, AgentReadsName, HoldExpires
  <2> QED
    BY <2>1
<1>31. CASE AgentSavesName  BY <1>31, SavesNameEffect
<1> QED
  BY <1>1, <1>2, <1>3, <1>4, <1>5, <1>6, <1>7, <1>8, <1>9, <1>10, <1>11, <1>12, <1>13,
     <1>14, <1>15, <1>16, <1>17, <1>18, <1>19, <1>20, <1>21, <1>22, <1>23, <1>24,
     <1>25, <1>26, <1>27, <1>28, <1>29, <1>30, <1>31 DEF Next, PairStep, UnpairStep,
     AgentStep, Environment

\* AgreedAlone: an unpairing that begins takes agreed back.
LEMMA AgreedAloneKept == ASSUME IInv, TypeOK', Next PROVE AgreedAlone'
<1> USE MobileAssumption, KindAssumption, CountAssumption DEF IInv, Stages, Outcome,
        AgreedAlone, TypeOK, UnpairStates, settingVars, serverVars, storeVars,
        pastVars
<1>1. CASE UnpairNotifiesServer  BY <1>1 DEF UnpairNotifiesServer
<1>2. CASE UnpairDeletesSecret  BY <1>2 DEF UnpairDeletesSecret, Flushed, Cached
<1>3. CASE UnpairSavesDevices  BY <1>3 DEF UnpairSavesDevices
<1>4. CASE UnpairFails  BY <1>4 DEF UnpairFails, UnpairIdle, NoSecrets
<1>5. CASE UnpairSignals
  BY <1>5 DEF UnpairSignals, UnpairIdle, SignalReload, AgentOff, NoSecrets
<1>6. CASE PairBegins  BY <1>6 DEF PairBegins, PairIdle, Loaded, NoSecrets
<1>7. CASE UnpairBegins  BY <1>7 DEF UnpairBegins, UnpairIdle, Loaded, NoSecrets
<1>8. CASE UnpairKilled  BY <1>8 DEF UnpairKilled, UnpairIdle, NoSecrets
<1>9. CASE StopRunning \/ DialFails \/ DialPairSession \/ WaitForPairComplete \/
           WaitFails \/ Accept \/ AcceptFails \/ StoreSecret \/ SavePairedDevices \/
           StoreSecretFails \/ SaveFails \/ DropOldSecret \/ PairSignals \/
           LegacyCleanup \/ RemoveOldSecret \/ RemoveOldDevice \/ RemoveFails \/
           CloseSession \/ EnsureRunning \/ AgentHandlesSignals \/ AgentLoadsSecrets
           \/ AgentLoadsPairing \/ AgentReloads \/ PairKilled \/ Command \/
           AgentReadsName \/ HoldExpires \/ \E d \in Mobiles, mac \in BOOLEAN : MobileCompletes(d, mac)
  <2>1. UNCHANGED <<unpair, agreed>>
    BY <1>9 DEF StopRunning, DialFails, DialPairSession, WaitForPairComplete,
           WaitFails, Accept, AcceptFails, StoreSecret, SavePairedDevices,
           StoreSecretFails, SaveFails, DropOldSecret, PairSignals, LegacyCleanup,
           RemoveOldSecret, RemoveOldDevice, RemoveFails, CloseSession, EnsureRunning,
           AgentHandlesSignals, AgentLoadsSecrets, AgentLoadsPairing, AgentReloads,
           PairKilled, Command, AgentReadsName, HoldExpires, MobileCompletes
  <2> QED
    BY <2>1
<1>10. CASE AgentSavesName  BY <1>10, SavesNameEffect
<1> QED
  BY <1>1, <1>2, <1>3, <1>4, <1>5, <1>6, <1>7, <1>8, <1>9, <1>10 DEF Next, PairStep,
     UnpairStep, AgentStep, Environment

\* PairProgress: the order of the steps of RunPair.
LEMMA PairProgressKept == ASSUME IInv, TypeOK', Next PROVE PairProgress'
<1> USE MobileAssumption, KindAssumption, CountAssumption DEF IInv, Stages, Outcome,
        PairProgress, Unstored, TypeOK, PairStates, settingVars, serverVars,
        storeVars, pastVars
<1>1. CASE StopRunning  BY <1>1 DEF StopRunning, AgentOff, NoSecrets
<1>2. CASE DialFails  BY <1>2 DEF DialFails
<1>3. CASE DialPairSession  BY <1>3 DEF DialPairSession
<1>4. CASE WaitForPairComplete  BY <1>4 DEF WaitForPairComplete, Leave
<1>5. CASE WaitFails  BY <1>5 DEF WaitFails, Leave
<1>6. CASE Accept
  <2>1. CASE held = pair.received
    <3>1. /\ pair.pc = "accept"
          /\ pair' = [pair EXCEPT !.decided = "accept", !.pc = "store"]
          /\ server' = pair.received
          /\ mob' = [mob EXCEPT ![pair.received] = pair.session]
      BY <1>6, <2>1 DEF Accept, Commit
    <3>2. UNCHANGED <<kind>>
      BY <1>6 DEF Accept
    <3> QED
      BY <3>1, <3>2
  <2>2. CASE held # pair.received
    <3>1. /\ pair.pc = "accept"
          /\ pair' = [pair EXCEPT !.decided = "accept", !.pc = Leave]
      BY <1>6, <2>2 DEF Accept
    <3>2. UNCHANGED <<kind>>
      BY <1>6, <2>2 DEF Accept
    <3> QED
      BY <3>1, <3>2 DEF Leave
  <2> QED
    BY <2>1, <2>2
<1>7. CASE AcceptFails  BY <1>7 DEF AcceptFails, Commit, Leave
<1>8. CASE StoreSecret  BY <1>8 DEF StoreSecret, Flushed, Cached
<1>9. CASE SavePairedDevices  BY <1>9 DEF SavePairedDevices
<1>10. CASE StoreSecretFails  BY <1>10 DEF StoreSecretFails, Cached, Leave
<1>11. CASE SaveFails  BY <1>11 DEF SaveFails, Leave
<1>12. CASE DropOldSecret
  <2>1. CASE pair.existing \in {NoDevice, pair.received}
    BY <1>12, <2>1 DEF DropOldSecret
  <2>2. CASE pair.existing \notin {NoDevice, pair.received}
    <3> DEFINE c == Cached(pair.cache, pair.existing, NoSecret)
    <3> HIDE DEF c
    <3>1. /\ pair.pc = "drop"
          /\ pair' = [pair EXCEPT !.cache = c, !.pc = "signal"]
          /\ UNCHANGED <<kind>>
      BY <1>12, <2>2 DEF DropOldSecret, c
    <3> QED
      BY <2>2, <3>1
  <2> QED
    BY <2>1, <2>2
<1>13. CASE PairSignals  BY <1>13 DEF PairSignals, SignalReload, AgentOff, Leave
<1>14. CASE LegacyCleanup  BY <1>14 DEF LegacyCleanup
<1>15. CASE RemoveOldSecret  BY <1>15 DEF RemoveOldSecret, Flushed, Cached
<1>16. CASE RemoveOldDevice  BY <1>16 DEF RemoveOldDevice
<1>17. CASE RemoveFails  BY <1>17 DEF RemoveFails
<1>18. CASE CloseSession  BY <1>18 DEF CloseSession
<1>19. CASE EnsureRunning  BY <1>19 DEF EnsureRunning, PairIdle, AgentOff, NoSecrets
<1>20. CASE PairBegins
  <2>1. used.pairs + 1 # 0
    BY DEF Counts
  <2> QED
    BY <1>20, <2>1 DEF PairBegins, PairIdle
<1>21. CASE PairKilled  BY <1>21 DEF PairKilled, PairIdle, NoSecrets
<1>22. ASSUME NEW d \in Mobiles, NEW mac \in BOOLEAN, MobileCompletes(d, mac)
      PROVE  PairProgress'
  BY <1>22 DEF MobileCompletes
<1>23. CASE UnpairNotifiesServer \/ UnpairDeletesSecret \/ UnpairSavesDevices \/
           UnpairFails \/ UnpairSignals \/ AgentHandlesSignals \/ AgentLoadsSecrets \/
           AgentLoadsPairing \/ AgentReloads \/ UnpairBegins \/ UnpairKilled \/
           Command \/ AgentReadsName \/ HoldExpires
  <2>1. UNCHANGED <<kind, pair>>
    BY <1>23 DEF UnpairNotifiesServer, UnpairDeletesSecret, UnpairSavesDevices,
           UnpairFails, UnpairSignals, AgentHandlesSignals, AgentLoadsSecrets,
           AgentLoadsPairing, AgentReloads, UnpairBegins, UnpairKilled, Command,
           AgentReadsName, HoldExpires
  <2> QED
    BY <2>1
<1>24. CASE AgentSavesName  BY <1>24, SavesNameEffect
<1> QED
  BY <1>1, <1>2, <1>3, <1>4, <1>5, <1>6, <1>7, <1>8, <1>9, <1>10, <1>11, <1>12, <1>13,
     <1>14, <1>15, <1>16, <1>17, <1>18, <1>19, <1>20, <1>21, <1>22, <1>23, <1>24 DEF Next,
     PairStep, UnpairStep, AgentStep, Environment

\* ListStands: only SavePairedDevices and the removal write the list.
LEMMA ListStandsKept == ASSUME IInv, TypeOK', Next PROVE ListStands'
<1> USE MobileAssumption, KindAssumption, CountAssumption DEF IInv, Stages, Outcome,
        ListStands, PairAlone, Unstored, OneAtATime, AgreedAlone, PairProgress,
        TypeOK, PairStates, settingVars, serverVars, storeVars, pastVars
<1>1. CASE StopRunning  BY <1>1 DEF StopRunning, AgentOff, NoSecrets
<1>2. CASE DialFails  BY <1>2 DEF DialFails
<1>3. CASE DialPairSession  BY <1>3 DEF DialPairSession
<1>4. CASE WaitForPairComplete  BY <1>4 DEF WaitForPairComplete, Leave
<1>5. CASE WaitFails  BY <1>5 DEF WaitFails, Leave
<1>6. CASE Accept
  <2>1. CASE held = pair.received
    <3>1. /\ pair.pc = "accept"
          /\ pair' = [pair EXCEPT !.decided = "accept", !.pc = "store"]
          /\ server' = pair.received
          /\ mob' = [mob EXCEPT ![pair.received] = pair.session]
      BY <1>6, <2>1 DEF Accept, Commit
    <3>2. UNCHANGED <<devices, agreed, overlap>>
      BY <1>6 DEF Accept
    <3> QED
      BY <3>1, <3>2
  <2>2. CASE held # pair.received
    <3>1. /\ pair.pc = "accept"
          /\ pair' = [pair EXCEPT !.decided = "accept", !.pc = Leave]
      BY <1>6, <2>2 DEF Accept
    <3>2. UNCHANGED <<devices, agreed, overlap>>
      BY <1>6, <2>2 DEF Accept
    <3> QED
      BY <3>1, <3>2 DEF Leave
  <2> QED
    BY <2>1, <2>2
<1>7. CASE AcceptFails  BY <1>7 DEF AcceptFails, Commit, Leave
<1>8. CASE StoreSecret  BY <1>8 DEF StoreSecret, Flushed, Cached
<1>9. CASE SavePairedDevices  BY <1>9 DEF SavePairedDevices
<1>10. CASE StoreSecretFails  BY <1>10 DEF StoreSecretFails, Cached, Leave
<1>11. CASE SaveFails  BY <1>11 DEF SaveFails, Leave
<1>12. CASE DropOldSecret
  <2>1. CASE pair.existing \in {NoDevice, pair.received}
    BY <1>12, <2>1 DEF DropOldSecret
  <2>2. CASE pair.existing \notin {NoDevice, pair.received}
    <3> DEFINE c == Cached(pair.cache, pair.existing, NoSecret)
    <3> HIDE DEF c
    <3>1. /\ pair.pc = "drop"
          /\ pair' = [pair EXCEPT !.cache = c, !.pc = "signal"]
          /\ UNCHANGED <<devices, agreed, overlap>>
      BY <1>12, <2>2 DEF DropOldSecret, c
    <3> QED
      BY <2>2, <3>1
  <2> QED
    BY <2>1, <2>2
<1>13. CASE PairSignals  BY <1>13 DEF PairSignals, SignalReload, AgentOff, Leave
<1>14. CASE LegacyCleanup  BY <1>14 DEF LegacyCleanup
<1>15. CASE RemoveOldSecret  BY <1>15 DEF RemoveOldSecret, Flushed, Cached
<1>16. CASE RemoveOldDevice  BY <1>16 DEF RemoveOldDevice
<1>17. CASE RemoveFails  BY <1>17 DEF RemoveFails
<1>18. CASE CloseSession  BY <1>18 DEF CloseSession
<1>19. CASE EnsureRunning  BY <1>19 DEF EnsureRunning, PairIdle, AgentOff, NoSecrets
<1>20. CASE UnpairSavesDevices  BY <1>20 DEF UnpairSavesDevices
<1>21. CASE PairBegins  BY <1>21 DEF PairBegins, PairIdle, Loaded, NoSecrets
<1>22. CASE UnpairBegins  BY <1>22 DEF UnpairBegins, UnpairIdle, Loaded, NoSecrets
<1>23. CASE PairKilled  BY <1>23 DEF PairKilled, PairIdle, NoSecrets
<1>24. ASSUME NEW d \in Mobiles, NEW mac \in BOOLEAN, MobileCompletes(d, mac)
      PROVE  ListStands'
  BY <1>24 DEF MobileCompletes
<1>25. CASE UnpairNotifiesServer \/ UnpairDeletesSecret \/ UnpairFails \/
           UnpairSignals \/ AgentHandlesSignals \/ AgentLoadsSecrets \/
           AgentLoadsPairing \/ AgentReloads \/ UnpairKilled \/ Command \/ AgentReadsName \/ HoldExpires
  <2>1. UNCHANGED <<devices, pair, agreed, overlap>>
    BY <1>25 DEF UnpairNotifiesServer, UnpairDeletesSecret, UnpairFails,
           UnpairSignals, AgentHandlesSignals, AgentLoadsSecrets, AgentLoadsPairing,
           AgentReloads, UnpairKilled, Command, AgentReadsName, HoldExpires
  <2> QED
    BY <2>1
<1>26. CASE AgentSavesName  BY <1>26, SavesNameEffect
<1> QED
  BY <1>1, <1>2, <1>3, <1>4, <1>5, <1>6, <1>7, <1>8, <1>9, <1>10, <1>11, <1>12, <1>13,
     <1>14, <1>15, <1>16, <1>17, <1>18, <1>19, <1>20, <1>21, <1>22, <1>23, <1>24,
     <1>25, <1>26 DEF Next, PairStep, UnpairStep, AgentStep, Environment

\* CacheIsFile: before StoreSecret this process only reads the file, and nobody else writes.
LEMMA CacheIsFileKept == ASSUME IInv, TypeOK', Next PROVE CacheIsFile'
<1> USE MobileAssumption, KindAssumption, CountAssumption DEF IInv, Stages, Outcome,
        CacheIsFile, PairAlone, Unstored, OneAtATime, AgreedAlone, TypeOK, PairStates,
        Stores, Secrets, NoSecret, settingVars, serverVars, storeVars, pastVars
<1>1. CASE StopRunning  BY <1>1 DEF StopRunning, AgentOff, NoSecrets
<1>2. CASE DialFails  BY <1>2 DEF DialFails
<1>3. CASE DialPairSession  BY <1>3 DEF DialPairSession
<1>4. CASE WaitForPairComplete  BY <1>4 DEF WaitForPairComplete, Leave
<1>5. CASE WaitFails  BY <1>5 DEF WaitFails, Leave
<1>6. CASE Accept
  <2>1. CASE held = pair.received
    <3>1. /\ pair.pc = "accept"
          /\ pair' = [pair EXCEPT !.decided = "accept", !.pc = "store"]
          /\ server' = pair.received
          /\ mob' = [mob EXCEPT ![pair.received] = pair.session]
      BY <1>6, <2>1 DEF Accept, Commit
    <3>2. UNCHANGED <<backend, secrets, agreed, overlap>>
      BY <1>6 DEF Accept
    <3> QED
      BY <3>1, <3>2
  <2>2. CASE held # pair.received
    <3>1. /\ pair.pc = "accept"
          /\ pair' = [pair EXCEPT !.decided = "accept", !.pc = Leave]
      BY <1>6, <2>2 DEF Accept
    <3>2. UNCHANGED <<backend, secrets, agreed, overlap>>
      BY <1>6, <2>2 DEF Accept
    <3> QED
      BY <3>1, <3>2 DEF Leave
  <2> QED
    BY <2>1, <2>2
<1>7. CASE AcceptFails  BY <1>7 DEF AcceptFails, Commit, Leave
<1>8. CASE StoreSecret  BY <1>8 DEF StoreSecret, Flushed, Cached
<1>9. CASE SavePairedDevices  BY <1>9 DEF SavePairedDevices
<1>10. CASE StoreSecretFails  BY <1>10 DEF StoreSecretFails, Cached, Leave
<1>11. CASE SaveFails  BY <1>11 DEF SaveFails, Leave
<1>12. CASE DropOldSecret
  <2>1. CASE pair.existing \in {NoDevice, pair.received}
    BY <1>12, <2>1 DEF DropOldSecret
  <2>2. CASE pair.existing \notin {NoDevice, pair.received}
    <3> DEFINE c == Cached(pair.cache, pair.existing, NoSecret)
    <3> HIDE DEF c
    <3>1. /\ pair.pc = "drop"
          /\ pair' = [pair EXCEPT !.cache = c, !.pc = "signal"]
          /\ UNCHANGED <<backend, agreed, overlap>>
      BY <1>12, <2>2 DEF DropOldSecret, c
    <3> QED
      BY <2>2, <3>1
  <2> QED
    BY <2>1, <2>2
<1>13. CASE PairSignals  BY <1>13 DEF PairSignals, SignalReload, AgentOff, Leave
<1>14. CASE LegacyCleanup  BY <1>14 DEF LegacyCleanup
<1>15. CASE RemoveOldSecret  BY <1>15 DEF RemoveOldSecret, Flushed, Cached
<1>16. CASE RemoveOldDevice  BY <1>16 DEF RemoveOldDevice
<1>17. CASE RemoveFails  BY <1>17 DEF RemoveFails
<1>18. CASE CloseSession  BY <1>18 DEF CloseSession
<1>19. CASE EnsureRunning  BY <1>19 DEF EnsureRunning, PairIdle, AgentOff, NoSecrets
<1>20. CASE UnpairDeletesSecret  BY <1>20 DEF UnpairDeletesSecret, Flushed, Cached
<1>21. CASE PairBegins  BY <1>21 DEF PairBegins, PairIdle, Loaded, NoSecrets
<1>22. CASE UnpairBegins  BY <1>22 DEF UnpairBegins, UnpairIdle, Loaded, NoSecrets
<1>23. CASE PairKilled  BY <1>23 DEF PairKilled, PairIdle, NoSecrets
<1>24. ASSUME NEW d \in Mobiles, NEW mac \in BOOLEAN, MobileCompletes(d, mac)
      PROVE  CacheIsFile'
  BY <1>24 DEF MobileCompletes
<1>25. CASE UnpairNotifiesServer \/ UnpairSavesDevices \/ UnpairFails \/ UnpairSignals
           \/ AgentHandlesSignals \/ AgentLoadsSecrets \/ AgentLoadsPairing \/
           AgentReloads \/ UnpairKilled \/ Command \/ AgentReadsName \/ HoldExpires
  <2>1. UNCHANGED <<backend, secrets, pair, agreed, overlap>>
    BY <1>25 DEF UnpairNotifiesServer, UnpairSavesDevices, UnpairFails, UnpairSignals,
           AgentHandlesSignals, AgentLoadsSecrets, AgentLoadsPairing, AgentReloads,
           UnpairKilled, Command, AgentReadsName, HoldExpires
  <2> QED
    BY <2>1
<1>26. CASE AgentSavesName  BY <1>26, SavesNameEffect
<1> QED
  BY <1>1, <1>2, <1>3, <1>4, <1>5, <1>6, <1>7, <1>8, <1>9, <1>10, <1>11, <1>12, <1>13,
     <1>14, <1>15, <1>16, <1>17, <1>18, <1>19, <1>20, <1>21, <1>22, <1>23, <1>24,
     <1>25, <1>26 DEF Next, PairStep, UnpairStep, AgentStep, Environment

\* SecretIsStored: StoreSecret sets it, and DropOldSecret deletes another key.
LEMMA SecretIsStoredKept == ASSUME IInv, TypeOK', Next PROVE SecretIsStored'
<1> USE MobileAssumption, KindAssumption, CountAssumption DEF IInv, Stages, Outcome,
        SecretIsStored, PairAlone, Unstored, OneAtATime, AgreedAlone, PairProgress,
        CacheIsFile, TypeOK, PairStates, Stores, Secrets, NoSecret, settingVars,
        serverVars, storeVars, pastVars
<1>1. CASE StopRunning  BY <1>1 DEF StopRunning, AgentOff, NoSecrets
<1>2. CASE DialFails  BY <1>2 DEF DialFails
<1>3. CASE DialPairSession  BY <1>3 DEF DialPairSession
<1>4. CASE WaitForPairComplete  BY <1>4 DEF WaitForPairComplete, Leave
<1>5. CASE WaitFails  BY <1>5 DEF WaitFails, Leave
<1>6. CASE Accept
  <2>1. CASE held = pair.received
    <3>1. /\ pair.pc = "accept"
          /\ pair' = [pair EXCEPT !.decided = "accept", !.pc = "store"]
          /\ server' = pair.received
          /\ mob' = [mob EXCEPT ![pair.received] = pair.session]
      BY <1>6, <2>1 DEF Accept, Commit
    <3>2. UNCHANGED <<backend, secrets, agreed, overlap>>
      BY <1>6 DEF Accept
    <3> QED
      BY <3>1, <3>2
  <2>2. CASE held # pair.received
    <3>1. /\ pair.pc = "accept"
          /\ pair' = [pair EXCEPT !.decided = "accept", !.pc = Leave]
      BY <1>6, <2>2 DEF Accept
    <3>2. UNCHANGED <<backend, secrets, agreed, overlap>>
      BY <1>6, <2>2 DEF Accept
    <3> QED
      BY <3>1, <3>2 DEF Leave
  <2> QED
    BY <2>1, <2>2
<1>7. CASE AcceptFails  BY <1>7 DEF AcceptFails, Commit, Leave
<1>8. CASE StoreSecret  BY <1>8 DEF StoreSecret, Flushed, Cached
<1>9. CASE SavePairedDevices  BY <1>9 DEF SavePairedDevices
<1>10. CASE StoreSecretFails  BY <1>10 DEF StoreSecretFails, Cached, Leave
<1>11. CASE SaveFails  BY <1>11 DEF SaveFails, Leave
<1>12. CASE DropOldSecret
  <2>1. CASE pair.existing \in {NoDevice, pair.received}
    BY <1>12, <2>1 DEF DropOldSecret
  <2>2. CASE pair.existing \notin {NoDevice, pair.received}
    <3> DEFINE c == Cached(pair.cache, pair.existing, NoSecret)
    <3>1. /\ pair.pc = "drop"
          /\ pair' = [pair EXCEPT !.cache = c, !.pc = "signal"]
          /\ secrets' \in {secrets, Flushed(pair.cache, pair.existing, NoSecret)}
          /\ UNCHANGED <<backend, agreed, overlap>>
      BY <1>12, <2>2 DEF DropOldSecret
    <3> QED
      BY <2>2, <3>1 DEF Flushed, Cached
  <2> QED
    BY <2>1, <2>2
<1>13. CASE PairSignals  BY <1>13 DEF PairSignals, SignalReload, AgentOff, Leave
<1>14. CASE LegacyCleanup  BY <1>14 DEF LegacyCleanup
<1>15. CASE RemoveOldSecret  BY <1>15 DEF RemoveOldSecret, Flushed, Cached
<1>16. CASE RemoveOldDevice  BY <1>16 DEF RemoveOldDevice
<1>17. CASE RemoveFails  BY <1>17 DEF RemoveFails
<1>18. CASE CloseSession  BY <1>18 DEF CloseSession
<1>19. CASE EnsureRunning  BY <1>19 DEF EnsureRunning, PairIdle, AgentOff, NoSecrets
<1>20. CASE UnpairDeletesSecret  BY <1>20 DEF UnpairDeletesSecret, Flushed, Cached
<1>21. CASE PairBegins  BY <1>21 DEF PairBegins, PairIdle, Loaded, NoSecrets
<1>22. CASE UnpairBegins  BY <1>22 DEF UnpairBegins, UnpairIdle, Loaded, NoSecrets
<1>23. CASE PairKilled  BY <1>23 DEF PairKilled, PairIdle, NoSecrets
<1>24. ASSUME NEW d \in Mobiles, NEW mac \in BOOLEAN, MobileCompletes(d, mac)
      PROVE  SecretIsStored'
  BY <1>24 DEF MobileCompletes
<1>25. CASE UnpairNotifiesServer \/ UnpairSavesDevices \/ UnpairFails \/ UnpairSignals
           \/ AgentHandlesSignals \/ AgentLoadsSecrets \/ AgentLoadsPairing \/
           AgentReloads \/ UnpairKilled \/ Command \/ AgentReadsName \/ HoldExpires
  <2>1. UNCHANGED <<backend, secrets, pair, agreed, overlap>>
    BY <1>25 DEF UnpairNotifiesServer, UnpairSavesDevices, UnpairFails, UnpairSignals,
           AgentHandlesSignals, AgentLoadsSecrets, AgentLoadsPairing, AgentReloads,
           UnpairKilled, Command, AgentReadsName, HoldExpires
  <2> QED
    BY <2>1
<1>26. CASE AgentSavesName  BY <1>26, SavesNameEffect
<1> QED
  BY <1>1, <1>2, <1>3, <1>4, <1>5, <1>6, <1>7, <1>8, <1>9, <1>10, <1>11, <1>12, <1>13,
     <1>14, <1>15, <1>16, <1>17, <1>18, <1>19, <1>20, <1>21, <1>22, <1>23, <1>24,
     <1>25, <1>26 DEF Next, PairStep, UnpairStep, AgentStep, Environment

\* RemovalEmpties: the device a removal was asked for is still the one in the list.
LEMMA RemovalEmptiesKept == ASSUME IInv, TypeOK', Next PROVE RemovalEmpties'
<1> USE MobileAssumption, KindAssumption, CountAssumption DEF IInv, Stages, Outcome,
        RemovalEmpties, PairAlone, ListStands, Unstored, OneAtATime, AgreedAlone,
        PairProgress, TypeOK, PairStates, UnpairStates, settingVars, serverVars,
        storeVars, pastVars
<1>1. CASE StopRunning  BY <1>1 DEF StopRunning, AgentOff, NoSecrets
<1>2. CASE DialFails  BY <1>2 DEF DialFails
<1>3. CASE DialPairSession  BY <1>3 DEF DialPairSession
<1>4. CASE WaitForPairComplete  BY <1>4 DEF WaitForPairComplete, Leave
<1>5. CASE WaitFails  BY <1>5 DEF WaitFails, Leave
<1>6. CASE Accept
  <2>1. CASE held = pair.received
    <3>1. /\ pair.pc = "accept"
          /\ pair' = [pair EXCEPT !.decided = "accept", !.pc = "store"]
          /\ server' = pair.received
          /\ mob' = [mob EXCEPT ![pair.received] = pair.session]
      BY <1>6, <2>1 DEF Accept, Commit
    <3>2. UNCHANGED <<devices, unpair, agreed, overlap>>
      BY <1>6 DEF Accept
    <3> QED
      BY <3>1, <3>2
  <2>2. CASE held # pair.received
    <3>1. /\ pair.pc = "accept"
          /\ pair' = [pair EXCEPT !.decided = "accept", !.pc = Leave]
      BY <1>6, <2>2 DEF Accept
    <3>2. UNCHANGED <<devices, unpair, agreed, overlap>>
      BY <1>6, <2>2 DEF Accept
    <3> QED
      BY <3>1, <3>2 DEF Leave
  <2> QED
    BY <2>1, <2>2
<1>7. CASE AcceptFails  BY <1>7 DEF AcceptFails, Commit, Leave
<1>8. CASE StoreSecret  BY <1>8 DEF StoreSecret, Flushed, Cached
<1>9. CASE SavePairedDevices  BY <1>9 DEF SavePairedDevices
<1>10. CASE StoreSecretFails  BY <1>10 DEF StoreSecretFails, Cached, Leave
<1>11. CASE SaveFails  BY <1>11 DEF SaveFails, Leave
<1>12. CASE DropOldSecret
  <2>1. CASE pair.existing \in {NoDevice, pair.received}
    BY <1>12, <2>1 DEF DropOldSecret
  <2>2. CASE pair.existing \notin {NoDevice, pair.received}
    <3> DEFINE c == Cached(pair.cache, pair.existing, NoSecret)
    <3> HIDE DEF c
    <3>1. /\ pair.pc = "drop"
          /\ pair' = [pair EXCEPT !.cache = c, !.pc = "signal"]
          /\ UNCHANGED <<devices, unpair, agreed, overlap>>
      BY <1>12, <2>2 DEF DropOldSecret, c
    <3> QED
      BY <2>2, <3>1
  <2> QED
    BY <2>1, <2>2
<1>13. CASE PairSignals  BY <1>13 DEF PairSignals, SignalReload, AgentOff, Leave
<1>14. CASE LegacyCleanup  BY <1>14 DEF LegacyCleanup
<1>15. CASE RemoveOldSecret  BY <1>15 DEF RemoveOldSecret, Flushed, Cached
<1>16. CASE RemoveOldDevice  BY <1>16 DEF RemoveOldDevice
<1>17. CASE RemoveFails  BY <1>17 DEF RemoveFails
<1>18. CASE CloseSession  BY <1>18 DEF CloseSession
<1>19. CASE EnsureRunning  BY <1>19 DEF EnsureRunning, PairIdle, AgentOff, NoSecrets
<1>20. CASE UnpairNotifiesServer  BY <1>20 DEF UnpairNotifiesServer
<1>21. CASE UnpairDeletesSecret  BY <1>21 DEF UnpairDeletesSecret, Flushed, Cached
<1>22. CASE UnpairSavesDevices  BY <1>22 DEF UnpairSavesDevices
<1>23. CASE UnpairFails  BY <1>23 DEF UnpairFails, UnpairIdle, NoSecrets
<1>24. CASE UnpairSignals
  BY <1>24 DEF UnpairSignals, UnpairIdle, SignalReload, AgentOff, NoSecrets
<1>25. CASE PairBegins  BY <1>25 DEF PairBegins, PairIdle, Loaded, NoSecrets
<1>26. CASE UnpairBegins  BY <1>26 DEF UnpairBegins, UnpairIdle, Loaded, NoSecrets
<1>27. CASE PairKilled  BY <1>27 DEF PairKilled, PairIdle, NoSecrets
<1>28. CASE UnpairKilled  BY <1>28 DEF UnpairKilled, UnpairIdle, NoSecrets
<1>29. ASSUME NEW d \in Mobiles, NEW mac \in BOOLEAN, MobileCompletes(d, mac)
      PROVE  RemovalEmpties'
  BY <1>29 DEF MobileCompletes
<1>30. CASE AgentHandlesSignals \/ AgentLoadsSecrets \/ AgentLoadsPairing \/
           AgentReloads \/ Command \/ AgentReadsName \/ HoldExpires
  <2>1. UNCHANGED <<devices, pair, unpair, agreed, overlap>>
    BY <1>30 DEF AgentHandlesSignals, AgentLoadsSecrets, AgentLoadsPairing,
           AgentReloads, Command, AgentReadsName, HoldExpires
  <2> QED
    BY <2>1
<1>31. CASE AgentSavesName  BY <1>31, SavesNameEffect
<1> QED
  BY <1>1, <1>2, <1>3, <1>4, <1>5, <1>6, <1>7, <1>8, <1>9, <1>10, <1>11, <1>12, <1>13,
     <1>14, <1>15, <1>16, <1>17, <1>18, <1>19, <1>20, <1>21, <1>22, <1>23, <1>24,
     <1>25, <1>26, <1>27, <1>28, <1>29, <1>30, <1>31 DEF Next, PairStep, UnpairStep,
     AgentStep, Environment

\* ListAtEnd: what the deferred calls leave of the list.
LEMMA ListAtEndKept == ASSUME IInv, TypeOK', Next PROVE ListAtEnd'
<1> USE MobileAssumption, KindAssumption, CountAssumption DEF IInv, Stages, Outcome,
        ListAtEnd, AgreedAlone, PairProgress, ListStands, PairAlone, Unstored,
        RemovalEmpties, TypeOK, PairStates, settingVars, serverVars, storeVars,
        pastVars
<1>1. CASE StopRunning  BY <1>1 DEF StopRunning, AgentOff, NoSecrets
<1>2. CASE DialFails  BY <1>2 DEF DialFails
<1>3. CASE DialPairSession  BY <1>3 DEF DialPairSession
<1>4. CASE WaitForPairComplete  BY <1>4 DEF WaitForPairComplete, Leave
<1>5. CASE WaitFails  BY <1>5 DEF WaitFails, Leave
<1>6. CASE Accept
  <2>1. CASE held = pair.received
    <3>1. /\ pair.pc = "accept"
          /\ pair' = [pair EXCEPT !.decided = "accept", !.pc = "store"]
          /\ server' = pair.received
          /\ mob' = [mob EXCEPT ![pair.received] = pair.session]
      BY <1>6, <2>1 DEF Accept, Commit
    <3>2. UNCHANGED <<kind, devices, agreed, torn>>
      BY <1>6 DEF Accept
    <3> QED
      BY <3>1, <3>2
  <2>2. CASE held # pair.received
    <3>1. /\ pair.pc = "accept"
          /\ pair' = [pair EXCEPT !.decided = "accept", !.pc = Leave]
      BY <1>6, <2>2 DEF Accept
    <3>2. UNCHANGED <<kind, devices, agreed, torn>>
      BY <1>6, <2>2 DEF Accept
    <3> QED
      BY <3>1, <3>2 DEF Leave
  <2> QED
    BY <2>1, <2>2
<1>7. CASE AcceptFails  BY <1>7 DEF AcceptFails, Commit, Leave
<1>8. CASE StoreSecret  BY <1>8 DEF StoreSecret, Flushed, Cached
<1>9. CASE SavePairedDevices  BY <1>9 DEF SavePairedDevices
<1>10. CASE StoreSecretFails  BY <1>10 DEF StoreSecretFails, Cached, Leave
<1>11. CASE SaveFails  BY <1>11 DEF SaveFails, Leave
<1>12. CASE DropOldSecret
  <2>1. CASE pair.existing \in {NoDevice, pair.received}
    BY <1>12, <2>1 DEF DropOldSecret
  <2>2. CASE pair.existing \notin {NoDevice, pair.received}
    <3> DEFINE c == Cached(pair.cache, pair.existing, NoSecret)
    <3> HIDE DEF c
    <3>1. /\ pair.pc = "drop"
          /\ pair' = [pair EXCEPT !.cache = c, !.pc = "signal"]
          /\ UNCHANGED <<kind, devices, agreed, torn>>
      BY <1>12, <2>2 DEF DropOldSecret, c
    <3> QED
      BY <2>2, <3>1
  <2> QED
    BY <2>1, <2>2
<1>13. CASE PairSignals  BY <1>13 DEF PairSignals, SignalReload, AgentOff, Leave
<1>14. CASE LegacyCleanup  BY <1>14 DEF LegacyCleanup
<1>15. CASE RemoveOldSecret  BY <1>15 DEF RemoveOldSecret, Flushed, Cached
<1>16. CASE RemoveOldDevice
  <2>1. PairAlone => devices' = NoDevice
    BY <1>16 DEF RemoveOldDevice
  <2> QED
    BY <1>16, <2>1 DEF RemoveOldDevice
<1>17. CASE RemoveFails  BY <1>17 DEF RemoveFails
<1>18. CASE CloseSession  BY <1>18 DEF CloseSession
<1>19. CASE EnsureRunning  BY <1>19 DEF EnsureRunning, PairIdle, AgentOff, NoSecrets
<1>20. CASE UnpairSavesDevices  BY <1>20 DEF UnpairSavesDevices
<1>21. CASE UnpairFails  BY <1>21 DEF UnpairFails, UnpairIdle, NoSecrets
<1>22. CASE PairBegins  BY <1>22 DEF PairBegins, PairIdle, Loaded, NoSecrets
<1>23. CASE UnpairBegins  BY <1>23 DEF UnpairBegins, UnpairIdle, Loaded, NoSecrets
<1>24. CASE PairKilled  BY <1>24 DEF PairKilled, PairIdle, NoSecrets
<1>25. CASE UnpairKilled  BY <1>25 DEF UnpairKilled, UnpairIdle, NoSecrets
<1>26. ASSUME NEW d \in Mobiles, NEW mac \in BOOLEAN, MobileCompletes(d, mac)
      PROVE  ListAtEnd'
  BY <1>26 DEF MobileCompletes
<1>27. CASE UnpairNotifiesServer \/ UnpairDeletesSecret \/ UnpairSignals \/
           AgentHandlesSignals \/ AgentLoadsSecrets \/ AgentLoadsPairing \/
           AgentReloads \/ Command \/ AgentReadsName \/ HoldExpires
  <2>1. UNCHANGED <<kind, devices, pair, agreed, torn>>
    BY <1>27 DEF UnpairNotifiesServer, UnpairDeletesSecret, UnpairSignals,
           AgentHandlesSignals, AgentLoadsSecrets, AgentLoadsPairing, AgentReloads,
           Command, AgentReadsName, HoldExpires
  <2> QED
    BY <2>1
<1>28. CASE AgentSavesName  BY <1>28, SavesNameEffect
<1> QED
  BY <1>1, <1>2, <1>3, <1>4, <1>5, <1>6, <1>7, <1>8, <1>9, <1>10, <1>11, <1>12, <1>13,
     <1>14, <1>15, <1>16, <1>17, <1>18, <1>19, <1>20, <1>21, <1>22, <1>23, <1>24,
     <1>25, <1>26, <1>27, <1>28 DEF Next, PairStep, UnpairStep, AgentStep, Environment

\* ServerAgrees: what the server committed is what this session asked for.
LEMMA ServerAgreesKept == ASSUME IInv, TypeOK', Next PROVE ServerAgrees'
<1> USE MobileAssumption, KindAssumption, CountAssumption DEF IInv, Stages, Outcome,
        ServerAgrees, AgreedAlone, PairProgress, Unstored, ListStands, PairAlone,
        TypeOK, PairStates, Stores, Secrets, NoSecret, settingVars, serverVars,
        storeVars, pastVars
<1>1. CASE StopRunning  BY <1>1 DEF StopRunning, AgentOff, NoSecrets
<1>2. CASE DialFails  BY <1>2 DEF DialFails
<1>3. CASE DialPairSession  BY <1>3 DEF DialPairSession
<1>4. CASE WaitForPairComplete
  <2>1. CASE ~pair.mac
    BY <1>4, <2>1 DEF WaitForPairComplete, Leave
  <2>2. CASE pair.mac
    BY <1>4, <2>2 DEF WaitForPairComplete
  <2> QED
    BY <2>1, <2>2
<1>5. CASE WaitFails  BY <1>5 DEF WaitFails, Leave
<1>6. CASE Accept
  <2>1. CASE held = pair.received
    <3>1. /\ pair.pc = "accept"
          /\ pair' = [pair EXCEPT !.decided = "accept", !.pc = "store"]
          /\ server' = pair.received
          /\ mob' = [mob EXCEPT ![pair.received] = pair.session]
      BY <1>6, <2>1 DEF Accept, Commit
    <3>2. UNCHANGED <<kind, agreed>>
      BY <1>6 DEF Accept
    <3> QED
      BY <3>1, <3>2
  <2>2. CASE held # pair.received
    <3>1. /\ pair.pc = "accept"
          /\ pair' = [pair EXCEPT !.decided = "accept", !.pc = Leave]
      BY <1>6, <2>2 DEF Accept
    <3>2. UNCHANGED <<kind, server, mob, agreed>>
      BY <1>6, <2>2 DEF Accept
    <3> QED
      BY <3>1, <3>2 DEF Leave
  <2> QED
    BY <2>1, <2>2
<1>7. CASE AcceptFails  BY <1>7 DEF AcceptFails, Commit, Leave
<1>8. CASE StoreSecret  BY <1>8 DEF StoreSecret, Flushed, Cached
<1>9. CASE SavePairedDevices  BY <1>9 DEF SavePairedDevices
<1>10. CASE StoreSecretFails  BY <1>10 DEF StoreSecretFails, Cached, Leave
<1>11. CASE SaveFails  BY <1>11 DEF SaveFails, Leave
<1>12. CASE DropOldSecret
  <2>1. CASE pair.existing \in {NoDevice, pair.received}
    BY <1>12, <2>1 DEF DropOldSecret
  <2>2. CASE pair.existing \notin {NoDevice, pair.received}
    <3> DEFINE c == Cached(pair.cache, pair.existing, NoSecret)
    <3> HIDE DEF c
    <3>1. /\ pair.pc = "drop"
          /\ pair' = [pair EXCEPT !.cache = c, !.pc = "signal"]
          /\ UNCHANGED <<kind, server, mob, agreed>>
      BY <1>12, <2>2 DEF DropOldSecret, c
    <3> QED
      BY <2>2, <3>1
  <2> QED
    BY <2>1, <2>2
<1>13. CASE PairSignals  BY <1>13 DEF PairSignals, SignalReload, AgentOff, Leave
<1>14. CASE LegacyCleanup  BY <1>14 DEF LegacyCleanup
<1>15. CASE RemoveOldSecret  BY <1>15 DEF RemoveOldSecret, Flushed, Cached
<1>16. CASE RemoveOldDevice  BY <1>16 DEF RemoveOldDevice
<1>17. CASE RemoveFails  BY <1>17 DEF RemoveFails
<1>18. CASE CloseSession  BY <1>18 DEF CloseSession
<1>19. CASE EnsureRunning  BY <1>19 DEF EnsureRunning, PairIdle, AgentOff, NoSecrets
<1>20. CASE UnpairNotifiesServer  BY <1>20 DEF UnpairNotifiesServer
<1>21. CASE PairBegins
  <2>1. agreed' => devices \in {NoDevice, server}
    BY <1>21, Zenon DEF PairBegins
  <2> QED
    BY <1>21, <2>1 DEF PairBegins, PairIdle
<1>22. CASE UnpairBegins  BY <1>22 DEF UnpairBegins, UnpairIdle, Loaded, NoSecrets
<1>23. CASE PairKilled  BY <1>23 DEF PairKilled, PairIdle, NoSecrets
<1>24. ASSUME NEW d \in Mobiles, NEW mac \in BOOLEAN, MobileCompletes(d, mac)
      PROVE  ServerAgrees'
  <2>1. CASE kind = "confirming"
    BY <1>24, <2>1 DEF MobileCompletes
  <2>2. CASE kind # "confirming"
    BY <1>24, <2>2 DEF MobileCompletes
  <2> QED
    BY <2>1, <2>2
<1>25. CASE UnpairDeletesSecret \/ UnpairSavesDevices \/ UnpairFails \/ UnpairSignals
           \/ AgentHandlesSignals \/ AgentLoadsSecrets \/ AgentLoadsPairing \/
           AgentReloads \/ UnpairKilled \/ Command \/ AgentReadsName \/ HoldExpires
  <2>1. UNCHANGED <<kind, server, mob, pair, agreed>>
    BY <1>25 DEF UnpairDeletesSecret, UnpairSavesDevices, UnpairFails, UnpairSignals,
           AgentHandlesSignals, AgentLoadsSecrets, AgentLoadsPairing, AgentReloads,
           UnpairKilled, Command, AgentReadsName, HoldExpires
  <2> QED
    BY <2>1
<1>26. CASE AgentSavesName  BY <1>26, SavesNameEffect
<1> QED
  BY <1>1, <1>2, <1>3, <1>4, <1>5, <1>6, <1>7, <1>8, <1>9, <1>10, <1>11, <1>12, <1>13,
     <1>14, <1>15, <1>16, <1>17, <1>18, <1>19, <1>20, <1>21, <1>22, <1>23, <1>24,
     <1>25, <1>26 DEF Next, PairStep, UnpairStep, AgentStep, Environment

\* OldStillWorks: nothing of the old pairing is touched before pair_accept.
LEMMA OldStillWorksKept == ASSUME IInv, TypeOK', Next PROVE OldStillWorks'
<1> USE MobileAssumption, KindAssumption, CountAssumption DEF IInv, Stages, Outcome,
        OldStillWorks, Works, AgreedAlone, PairProgress, Unstored, CacheIsFile,
        PairAlone, TypeOK, PairStates, Stores, Secrets, NoSecret, settingVars,
        serverVars, storeVars, pastVars
<1>1. CASE StopRunning  BY <1>1 DEF StopRunning, AgentOff, NoSecrets
<1>2. CASE DialFails  BY <1>2 DEF DialFails
<1>3. CASE DialPairSession  BY <1>3 DEF DialPairSession
<1>4. CASE WaitForPairComplete  BY <1>4 DEF WaitForPairComplete, Leave
<1>5. CASE WaitFails  BY <1>5 DEF WaitFails, Leave
<1>6. CASE Accept
  <2>1. CASE held = pair.received
    <3>1. /\ pair.pc = "accept"
          /\ pair' = [pair EXCEPT !.decided = "accept", !.pc = "store"]
          /\ server' = pair.received
          /\ mob' = [mob EXCEPT ![pair.received] = pair.session]
      BY <1>6, <2>1 DEF Accept, Commit
    <3>2. UNCHANGED <<kind, devices, secrets, before, agreed>>
      BY <1>6 DEF Accept
    <3> QED
      BY <3>1, <3>2
  <2>2. CASE held # pair.received
    <3>1. /\ pair.pc = "accept"
          /\ pair' = [pair EXCEPT !.decided = "accept", !.pc = Leave]
      BY <1>6, <2>2 DEF Accept
    <3>2. UNCHANGED <<kind, server, mob, devices, secrets, before, agreed>>
      BY <1>6, <2>2 DEF Accept
    <3> QED
      BY <3>1, <3>2 DEF Leave
  <2> QED
    BY <2>1, <2>2
<1>7. CASE AcceptFails  BY <1>7 DEF AcceptFails, Commit, Leave
<1>8. CASE StoreSecret  BY <1>8 DEF StoreSecret, Flushed, Cached
<1>9. CASE SavePairedDevices  BY <1>9 DEF SavePairedDevices
<1>10. CASE StoreSecretFails  BY <1>10 DEF StoreSecretFails, Cached, Leave
<1>11. CASE SaveFails  BY <1>11 DEF SaveFails, Leave
<1>12. CASE DropOldSecret
  <2>1. CASE pair.existing \in {NoDevice, pair.received}
    BY <1>12, <2>1 DEF DropOldSecret
  <2>2. CASE pair.existing \notin {NoDevice, pair.received}
    <3> DEFINE c == Cached(pair.cache, pair.existing, NoSecret)
    <3> HIDE DEF c
    <3>1. /\ pair.pc = "drop"
          /\ pair' = [pair EXCEPT !.cache = c, !.pc = "signal"]
          /\ UNCHANGED <<kind, server, mob, devices, before, agreed>>
      BY <1>12, <2>2 DEF DropOldSecret, c
    <3> QED
      BY <2>2, <3>1
  <2> QED
    BY <2>1, <2>2
<1>13. CASE PairSignals  BY <1>13 DEF PairSignals, SignalReload, AgentOff, Leave
<1>14. CASE LegacyCleanup  BY <1>14 DEF LegacyCleanup
<1>15. CASE RemoveOldSecret  BY <1>15 DEF RemoveOldSecret, Flushed, Cached
<1>16. CASE RemoveOldDevice  BY <1>16 DEF RemoveOldDevice
<1>17. CASE RemoveFails  BY <1>17 DEF RemoveFails
<1>18. CASE CloseSession  BY <1>18 DEF CloseSession
<1>19. CASE EnsureRunning  BY <1>19 DEF EnsureRunning, PairIdle, AgentOff, NoSecrets
<1>20. CASE UnpairNotifiesServer  BY <1>20 DEF UnpairNotifiesServer
<1>21. CASE UnpairDeletesSecret  BY <1>21 DEF UnpairDeletesSecret, Flushed, Cached
<1>22. CASE UnpairSavesDevices  BY <1>22 DEF UnpairSavesDevices
<1>23. CASE PairBegins  BY <1>23 DEF PairBegins, PairIdle, Loaded, NoSecrets
<1>24. CASE UnpairBegins  BY <1>24 DEF UnpairBegins, UnpairIdle, Loaded, NoSecrets
<1>25. CASE PairKilled  BY <1>25 DEF PairKilled, PairIdle, NoSecrets
<1>26. ASSUME NEW d \in Mobiles, NEW mac \in BOOLEAN, MobileCompletes(d, mac)
      PROVE  OldStillWorks'
  BY <1>26 DEF MobileCompletes
<1>27. CASE UnpairFails \/ UnpairSignals \/ AgentHandlesSignals \/ AgentLoadsSecrets
           \/ AgentLoadsPairing \/ AgentReloads \/ UnpairKilled \/ Command \/
           AgentReadsName \/ HoldExpires
  <2>1. UNCHANGED <<kind, server, mob, devices, secrets, pair, before, agreed>>
    BY <1>27 DEF UnpairFails, UnpairSignals, AgentHandlesSignals, AgentLoadsSecrets,
           AgentLoadsPairing, AgentReloads, UnpairKilled, Command, AgentReadsName, HoldExpires
  <2> QED
    BY <2>1
<1>28. CASE AgentSavesName  BY <1>28, SavesNameEffect
<1> QED
  BY <1>1, <1>2, <1>3, <1>4, <1>5, <1>6, <1>7, <1>8, <1>9, <1>10, <1>11, <1>12, <1>13,
     <1>14, <1>15, <1>16, <1>17, <1>18, <1>19, <1>20, <1>21, <1>22, <1>23, <1>24,
     <1>25, <1>26, <1>27, <1>28 DEF Next, PairStep, UnpairStep, AgentStep, Environment

\* GoneIsOut: an unpairing takes the device from the list before it signals the agent.
LEMMA GoneIsOutKept == ASSUME IInv, TypeOK', Next PROVE GoneIsOut'
<1> USE MobileAssumption, KindAssumption, CountAssumption DEF IInv, Stages, Outcome,
        GoneIsOut, OneAtATime, PairProgress, Unstored, RemovalEmpties, PairAlone,
        TypeOK, AgentStates, settingVars, serverVars, storeVars, pastVars
<1>1. CASE StopRunning  BY <1>1 DEF StopRunning, AgentOff, NoSecrets
<1>2. CASE SavePairedDevices  BY <1>2 DEF SavePairedDevices
<1>3. CASE PairSignals  BY <1>3 DEF PairSignals, SignalReload, AgentOff, Leave
<1>4. CASE RemoveOldDevice
  <2>1. PairAlone => devices' = NoDevice
    BY <1>4 DEF RemoveOldDevice
  <2> QED
    BY <1>4, <2>1 DEF RemoveOldDevice
<1>5. CASE EnsureRunning  BY <1>5 DEF EnsureRunning, PairIdle, AgentOff, NoSecrets
<1>6. CASE UnpairSavesDevices  BY <1>6 DEF UnpairSavesDevices
<1>7. CASE UnpairSignals
  BY <1>7 DEF UnpairSignals, UnpairIdle, SignalReload, AgentOff, NoSecrets
<1>8. CASE AgentHandlesSignals  BY <1>8 DEF AgentHandlesSignals
<1>9. CASE AgentLoadsSecrets  BY <1>9 DEF AgentLoadsSecrets, Loaded, NoSecrets
<1>10. CASE AgentLoadsPairing  BY <1>10 DEF AgentLoadsPairing
<1>11. CASE AgentReloads  BY <1>11 DEF AgentReloads
<1>12. CASE PairBegins  BY <1>12 DEF PairBegins, PairIdle, Loaded, NoSecrets
<1>13. CASE UnpairBegins  BY <1>13 DEF UnpairBegins, UnpairIdle, Loaded, NoSecrets
<1>14. CASE Command  BY <1>14 DEF Command, AgentOff, NoSecrets
<1>15. CASE DialFails \/ DialPairSession \/ WaitForPairComplete \/ WaitFails \/ Accept
           \/ AcceptFails \/ StoreSecret \/ StoreSecretFails \/ SaveFails \/
           DropOldSecret \/ LegacyCleanup \/ RemoveOldSecret \/ RemoveFails \/
           CloseSession \/ UnpairNotifiesServer \/ UnpairDeletesSecret \/ UnpairFails
           \/ PairKilled \/ UnpairKilled \/ HoldExpires \/ \E d \in Mobiles, mac \in
           BOOLEAN : MobileCompletes(d, mac)
  <2>1. UNCHANGED <<devices, agent, overlap, gone>>
    BY <1>15 DEF DialFails, DialPairSession, WaitForPairComplete, WaitFails, Accept,
           AcceptFails, StoreSecret, StoreSecretFails, SaveFails, DropOldSecret,
           LegacyCleanup, RemoveOldSecret, RemoveFails, CloseSession,
           UnpairNotifiesServer, UnpairDeletesSecret, UnpairFails, PairKilled,
           UnpairKilled, HoldExpires, MobileCompletes
  <2> QED
    BY <2>1
<1>16. CASE AgentSavesName  BY <1>16, SavesNameEffect
<1>17. CASE AgentReadsName  BY <1>17 DEF AgentReadsName
<1> QED
  BY <1>1, <1>2, <1>3, <1>4, <1>5, <1>6, <1>7, <1>8, <1>9, <1>10, <1>11, <1>12, <1>13,
     <1>14, <1>15, <1>16, <1>17 DEF Next, PairStep, UnpairStep, AgentStep, Environment

\* DeviceHasSecret: a secret is written before its device and deleted before it.
LEMMA DeviceHasSecretKept == ASSUME IInv, TypeOK', Next PROVE DeviceHasSecret'
<1> USE MobileAssumption, KindAssumption, CountAssumption DEF IInv, Stages, Outcome,
        DeviceHasSecret, OneAtATime, PairAlone, Unstored, PairProgress, CacheIsFile,
        SecretIsStored, ListStands, RemovalEmpties, TypeOK, PairStates, UnpairStates,
        Stores, Secrets, NoSecret, settingVars, serverVars, storeVars, pastVars
<1>1. CASE StopRunning  BY <1>1 DEF StopRunning, AgentOff, NoSecrets
<1>2. CASE DialFails  BY <1>2 DEF DialFails
<1>3. CASE DialPairSession  BY <1>3 DEF DialPairSession
<1>4. CASE WaitForPairComplete  BY <1>4 DEF WaitForPairComplete, Leave
<1>5. CASE WaitFails  BY <1>5 DEF WaitFails, Leave
<1>6. CASE Accept
  <2>1. CASE held = pair.received
    <3>1. /\ pair.pc = "accept"
          /\ pair' = [pair EXCEPT !.decided = "accept", !.pc = "store"]
          /\ server' = pair.received
          /\ mob' = [mob EXCEPT ![pair.received] = pair.session]
      BY <1>6, <2>1 DEF Accept, Commit
    <3>2. UNCHANGED <<devices, secrets, unpair, overlap, torn>>
      BY <1>6 DEF Accept
    <3> QED
      BY <3>1, <3>2
  <2>2. CASE held # pair.received
    <3>1. /\ pair.pc = "accept"
          /\ pair' = [pair EXCEPT !.decided = "accept", !.pc = Leave]
      BY <1>6, <2>2 DEF Accept
    <3>2. UNCHANGED <<devices, secrets, unpair, overlap, torn>>
      BY <1>6, <2>2 DEF Accept
    <3> QED
      BY <3>1, <3>2 DEF Leave
  <2> QED
    BY <2>1, <2>2
<1>7. CASE AcceptFails  BY <1>7 DEF AcceptFails, Commit, Leave
<1>8. CASE StoreSecret  BY <1>8 DEF StoreSecret, Flushed, Cached
<1>9. CASE SavePairedDevices  BY <1>9 DEF SavePairedDevices
<1>10. CASE StoreSecretFails  BY <1>10 DEF StoreSecretFails, Cached, Leave
<1>11. CASE SaveFails  BY <1>11 DEF SaveFails, Leave
<1>12. CASE DropOldSecret
  <2>1. CASE pair.existing \in {NoDevice, pair.received}
    BY <1>12, <2>1 DEF DropOldSecret
  <2>2. CASE pair.existing \notin {NoDevice, pair.received}
    <3> DEFINE c == Cached(pair.cache, pair.existing, NoSecret)
    <3>1. /\ pair.pc = "drop"
          /\ pair' = [pair EXCEPT !.cache = c, !.pc = "signal"]
          /\ secrets' \in {secrets, Flushed(pair.cache, pair.existing, NoSecret)}
          /\ UNCHANGED <<devices, unpair, overlap, torn>>
      BY <1>12, <2>2 DEF DropOldSecret
    <3> QED
      BY <2>2, <3>1 DEF Flushed, Cached
  <2> QED
    BY <2>1, <2>2
<1>13. CASE PairSignals  BY <1>13 DEF PairSignals, SignalReload, AgentOff, Leave
<1>14. CASE LegacyCleanup  BY <1>14 DEF LegacyCleanup
<1>15. CASE RemoveOldSecret  BY <1>15 DEF RemoveOldSecret, Flushed, Cached
<1>16. CASE RemoveOldDevice  BY <1>16 DEF RemoveOldDevice
<1>17. CASE RemoveFails  BY <1>17 DEF RemoveFails
<1>18. CASE CloseSession  BY <1>18 DEF CloseSession
<1>19. CASE EnsureRunning  BY <1>19 DEF EnsureRunning, PairIdle, AgentOff, NoSecrets
<1>20. CASE UnpairNotifiesServer  BY <1>20 DEF UnpairNotifiesServer
<1>21. CASE UnpairDeletesSecret  BY <1>21 DEF UnpairDeletesSecret, Flushed, Cached
<1>22. CASE UnpairSavesDevices  BY <1>22 DEF UnpairSavesDevices
<1>23. CASE UnpairFails
  <2>1. torn \/ unpair.pc = "save" => torn'
    BY <1>23, Zenon DEF UnpairFails
  <2> QED
    BY <1>23, <2>1 DEF UnpairFails
<1>24. CASE UnpairSignals
  BY <1>24 DEF UnpairSignals, UnpairIdle, SignalReload, AgentOff, NoSecrets
<1>25. CASE PairBegins  BY <1>25 DEF PairBegins, PairIdle, Loaded, NoSecrets
<1>26. CASE UnpairBegins  BY <1>26 DEF UnpairBegins, UnpairIdle, Loaded, NoSecrets
<1>27. CASE PairKilled
  <2>1. torn \/ pair.pc = "removed" => torn'
    BY <1>27, Zenon DEF PairKilled
  <2> QED
    BY <1>27, <2>1 DEF PairKilled
<1>28. CASE UnpairKilled
  <2>1. torn \/ unpair.pc = "save" => torn'
    BY <1>28, Zenon DEF UnpairKilled
  <2> QED
    BY <1>28, <2>1 DEF UnpairKilled
<1>29. ASSUME NEW d \in Mobiles, NEW mac \in BOOLEAN, MobileCompletes(d, mac)
      PROVE  DeviceHasSecret'
  BY <1>29 DEF MobileCompletes
<1>30. CASE AgentHandlesSignals \/ AgentLoadsSecrets \/ AgentLoadsPairing \/
           AgentReloads \/ Command \/ AgentReadsName \/ HoldExpires
  <2>1. UNCHANGED <<devices, secrets, pair, unpair, overlap, torn>>
    BY <1>30 DEF AgentHandlesSignals, AgentLoadsSecrets, AgentLoadsPairing,
           AgentReloads, Command, AgentReadsName, HoldExpires
  <2> QED
    BY <2>1
<1>31. CASE AgentSavesName  BY <1>31, SavesNameEffect
<1> QED
  BY <1>1, <1>2, <1>3, <1>4, <1>5, <1>6, <1>7, <1>8, <1>9, <1>10, <1>11, <1>12, <1>13,
     <1>14, <1>15, <1>16, <1>17, <1>18, <1>19, <1>20, <1>21, <1>22, <1>23, <1>24,
     <1>25, <1>26, <1>27, <1>28, <1>29, <1>30, <1>31 DEF Next, PairStep, UnpairStep,
     AgentStep, Environment

-----------------------------------------------------------------------------
(* The theorems                                                              *)

\* A step that changes nothing keeps the invariant.
LEMMA StutterKeeps == ASSUME IInv, UNCHANGED vars PROVE IInv'
<1> USE DEF IInv, vars
<1>1. TypeOK'
  BY DEF TypeOK
<1>2. OneAtATime' /\ AgreedAlone' /\ DeviceHasSecret'
  BY DEF OneAtATime, AgreedAlone, DeviceHasSecret
<1>3. Stages'
  BY DEF Stages, ListStands, CacheIsFile, SecretIsStored, PairProgress, UnpairNames,
         PairAlone
<1>4. Outcome'
  BY DEF Outcome, RemovalEmpties, ListAtEnd, ServerAgrees, OldStillWorks, GoneIsOut,
         PairAlone, Works
<1> QED
  BY <1>1, <1>2, <1>3, <1>4

\* Before the first command nothing is in progress, and a device in the list has a secret.
LEMMA InitInv == Init => IInv
<1> SUFFICES ASSUME Init PROVE IInv
  OBVIOUS
<1>1. mob \in Stores /\ secrets \in Stores
  BY CountAssumption DEF Init, Stores, Secrets, NoSecret, Earlier
<1>2. used \in Counts
  BY CountAssumption DEF Init, Counts
<1>3. TypeOK
  BY <1>1, <1>2, IdleTypes DEF Init, TypeOK
<1>4. pair.pc = "idle" /\ unpair.pc = "idle" /\ agent.pc = "off"
  BY DEF Init, PairIdle, UnpairIdle, AgentOff
<1>5. OneAtATime /\ AgreedAlone
  BY <1>4 DEF OneAtATime, AgreedAlone
<1>6. Stages
  <2>1. PairProgress
    BY MobileAssumption DEF PairProgress, Init, PairIdle, Unstored
  <2>2. ListStands /\ CacheIsFile /\ SecretIsStored /\ UnpairNames
    BY <1>4 DEF ListStands, CacheIsFile, SecretIsStored, PairAlone, UnpairNames
  <2> QED
    BY <2>1, <2>2 DEF Stages
<1>7. Outcome
  <2>1. RemovalEmpties /\ ListAtEnd /\ OldStillWorks
    BY <1>4 DEF RemovalEmpties, ListAtEnd, OldStillWorks, PairAlone
  <2>2. ServerAgrees /\ GoneIsOut
    BY <1>4 DEF ServerAgrees, GoneIsOut, Init
  <2> QED
    BY <2>1, <2>2 DEF Outcome
<1>8. DeviceHasSecret
  BY CountAssumption DEF Init, DeviceHasSecret, NoSecret, Earlier
<1> QED
  BY <1>3, <1>5, <1>6, <1>7, <1>8 DEF IInv

\* Every step keeps the invariant.
LEMMA NextInv == IInv /\ [Next]_vars => IInv'
<1> SUFFICES ASSUME IInv, [Next]_vars PROVE IInv'
  OBVIOUS
<1>1. CASE UNCHANGED vars
  BY <1>1, StutterKeeps
<1>2. CASE Next
  <2>1. TypeOK'
    BY <1>2, PairStepType, UnpairStepType, AgentStepType, EnvironmentType
       DEF Next, IInv, Stages
  <2>2. OneAtATime' /\ AgreedAlone' /\ DeviceHasSecret'
    BY <1>2, <2>1, OneAtATimeKept, AgreedAloneKept, DeviceHasSecretKept
  <2>3. Stages'
    BY <1>2, <2>1, ListStandsKept, CacheIsFileKept, SecretIsStoredKept, PairProgressKept,
       UnpairNamesKept DEF Stages
  <2>4. Outcome'
    BY <1>2, <2>1, RemovalEmptiesKept, ListAtEndKept, ServerAgreesKept, OldStillWorksKept,
       GoneIsOutKept DEF Outcome
  <2> QED
    BY <2>1, <2>2, <2>3, <2>4 DEF IInv
<1> QED
  BY <1>1, <1>2

\* The invariant holds in every reachable state of the three processes.
THEOREM Inductive == Spec => []IInv
  BY InitInv, NextInv, PTL DEF Spec

\* Every variable keeps its type, for any number of mobiles, commands and crashes.
THEOREM TypeCorrect == Spec => []TypeOK
<1>1. IInv => TypeOK
  BY DEF IInv
<1> QED
  BY <1>1, Inductive, PTL

\* RunPair reaches its success path only with a device host, server and mobile agree on.
THEOREM SuccessIsReal == Spec => []PairedMeansWorks
<1>1. IInv => PairedMeansWorks
  <2> SUFFICES ASSUME IInv, pair.pc = "signal", agreed PROVE Works(pair.received)
    BY DEF PairedMeansWorks
  <2>1. server = pair.received /\ mob[pair.received] = pair.session
    BY DEF IInv, Outcome, ServerAgrees
  <2>2. devices = pair.received /\ secrets[pair.received] = pair.session
    BY DEF IInv, Stages, ListStands, SecretIsStored, PairProgress, PairAlone
  <2>3. pair.session # NoSecret
    BY DEF IInv, Stages, PairProgress, NoSecret
  <2> QED
    BY <2>1, <2>2, <2>3 DEF Works
<1> QED
  BY <1>1, Inductive, PTL

\* A re-pair with a confirming server that fails before it is accepted costs the user
\* nothing: the old device still works.
THEOREM FailureIsHarmless == Spec => []FailedRepairKeepsOld
<1>1. IInv => FailedRepairKeepsOld
  BY DEF IInv, Outcome, OldStillWorks, FailedRepairKeepsOld
<1> QED
  BY <1>1, Inductive, PTL

\* When RunPair returns, a device the host keeps is the one the server has, outside the
\* exceptions the property names.
THEOREM NoGhost == Spec => []NoGhostPairing
<1>1. IInv => NoGhostPairing
  <2> SUFFICES ASSUME IInv, pair.pc = "ensure", agreed, devices # NoDevice, ~torn,
                      pair.decided = "accept" => pair.stored,
                      kind = "legacy" => pair.received = pair.wire
               PROVE  devices = server
    BY DEF NoGhostPairing
  <2>1. CASE pair.stored
    BY <2>1 DEF IInv, Stages, Outcome, ListStands, PairAlone, ServerAgrees
  <2>2. CASE ~pair.stored /\ kind = "legacy"
    BY <2>2 DEF IInv, Outcome, ListAtEnd, ServerAgrees
  <2>3. CASE ~pair.stored /\ kind = "confirming"
    BY <2>3 DEF IInv, Outcome, ListAtEnd, ServerAgrees
  <2> QED
    BY <2>1, <2>2, <2>3, KindAssumption DEF IInv, TypeOK
<1> QED
  BY <1>1, Inductive, PTL

\* A crash at any point of a pairing leaves no device without its secret; the property
\* is part of the invariant.
THEOREM SecretFirst == Spec => []DeviceHasSecret
<1>1. IInv => DeviceHasSecret
  BY DEF IInv
<1> QED
  BY <1>1, Inductive, PTL

\* As long as a pairing and an unpairing never ran at the same time and no name update
\* wrote back a list that had changed, an agent that has handled its signal admits no
\* device that was unpaired and not paired since, whatever secret its own store still has
\* in memory and however many name updates it has saved.
THEOREM UnpairedStaysOut == Spec => []UnpairedCannotConnect
<1>1. IInv => UnpairedCannotConnect
  BY DEF IInv, Outcome, GoneIsOut, UnpairedCannotConnect, CanConnect
<1> QED
  BY <1>1, Inductive, PTL

=============================================================================
