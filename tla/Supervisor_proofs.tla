-------------------------- MODULE Supervisor_proofs --------------------------
(***************************************************************************)
(* What TLAPS proves of Supervisor, for any number of commands and faults: *)
(* the type invariant, DuplicateNeedsRace, BannerTruthful and              *)
(* UpdateTakesEffect.                                                      *)
(*                                                                         *)
(* None of the three is inductive.  What carries the first is that the PID *)
(* file names the agent in charge except while its parent is spawning it,  *)
(* and that there is one parent at a time; what carries the last is that   *)
(* an update at work sees no parent, so that what it reads is the agent    *)
(* in charge.  The type invariant needs a count: inodes and PIDs suffice.  *)
(***************************************************************************)
EXTENDS Supervisor, FiniteSetTheorems, WellFoundedInduction, TLAPS

\* The flock: who is in the locked section has locked what it opened, and
\* nobody else has a lock.
LocksHeld ==
    /\ \A c \in Commands :
         /\ cmd[c].pc \in {"lock", "check", "fork", "truncate", "write"} => cmd[c].fd \in Inodes
         /\ cmd[c].pc \in {"check", "fork", "truncate", "write"} => lock[cmd[c].fd] = c
         /\ cmd[c].pc = "write" => cmd[c].out \in Inodes
    /\ \A i \in Inodes : lock[i] # Nobody =>
         /\ cmd[lock[i]].fd = i
         /\ cmd[lock[i]].pc \in {"check", "fork", "truncate", "write"}

\* A path that names nothing has no content.
PathNames == path = NoInode => content = NoPid

\* The PIDs given out: the first agent's and one for each command that has spawned.
Used == {p \in Pids : proc[p].pc # "none"}
Spent == {c \in Commands : cmd[c].pc \in {"truncate", "write", "done", "failed"}}
PidsSuffice == Cardinality(Used) <= 1 + Cardinality(Spent)

\* A signal goes to a PID that some agent had.
StopsAgent == \A c \in Commands : cmd[c].pc \in {"term", "wait"} => cmd[c].pid \in Used

\* The steps of handleUpdate are those of an update, and it takes no others.
UpdateScript ==
    \A c \in Commands :
        /\ cmd[c].script = "update" =>
             cmd[c].pc \in {"fetch", "stop", "term", "wait", "remove", "replace", "save",
                            "done", "failed"}
        /\ cmd[c].pc \in {"fetch", "replace", "save"} => cmd[c].script = "update"

\* One command at a time is past the check, and then it has found no agent, or the
\* agent in charge, if any, is its child.
OneSpawner ==
    \A c \in Commands : Spawning(c) =>
        /\ \A b \in Commands : Spawning(b) => b = c
        /\ \A p \in Pids : InCharge(p) => cmd[c].pc \in {"truncate", "write"} /\ cmd[c].pid = p

OneInCharge == \A p, q \in Pids : InCharge(p) /\ InCharge(q) => p = q

\* The PID file names the agent in charge, or its parent has yet to write it; the
\* write that is under way reaches the file, unless the agent's own came first.
FileNamesAgent ==
    \A p \in Pids : InCharge(p) =>
        \/ content = p
        \/ \E c \in Commands : /\ cmd[c].pid = p
                               /\ \/ cmd[c].pc = "truncate"
                                  \/ cmd[c].pc = "write" /\ cmd[c].out = path

Exclusive == OneSpawner /\ OneInCharge /\ FileNamesAgent

\* While an update is at work nobody starts an agent.
UpdateAlone ==
    \A c \in Commands : cmd[c].script = "update" /\ Active(c) =>
        \A b \in Commands : cmd[b].pc \notin {"truncate", "write"}

\* An update that stops an agent stops the one in charge, and after its stop phase
\* there is none.
UpdateStops ==
    \A c \in Commands : cmd[c].script = "update" => \A p \in Pids : InCharge(p) =>
        /\ cmd[c].pc \in {"term", "wait"} => cmd[c].pid = p
        /\ cmd[c].pc \notin {"remove", "replace", "save"}

\* After the replacement only the new version is started.
NewInCharge == exe = New => \A p \in Pids : InCharge(p) => proc[p].ver = New

Updated == UpdateAlone /\ UpdateStops /\ NewInCharge

\* The state file of the new version never announces an update.
StateHonest == state.available => state.by = Old

IInv ==
    /\ TypeOK
    /\ LocksHeld
    /\ PathNames
    /\ PidsSuffice
    /\ StopsAgent
    /\ UpdateScript
    /\ ~raced => Exclusive
    /\ ~raced /\ ~mixed => Updated
    /\ StateHonest

-----------------------------------------------------------------------------
(* Operators.                                                                *)

\* FiniteSetsExt!Min picks an element, whatever set of naturals it is given.
LEMMA MinOfNats ==
    ASSUME NEW S, S \subseteq Nat, S # {}
    PROVE  Min(S) \in S
<1> DEFINE R == OpToRel(<, Nat)
<1>1. PICK x \in S : \A y \in S : ~(<<y, x>> \in R)
  <2>1. IsWellFoundedOn(R, Nat)
    BY NatLessThanWellFounded
  <2> HIDE DEF R
  <2> QED BY <2>1, WFMin
<1>2. \A y \in S : x <= y
  <2> SUFFICES ASSUME NEW y \in S PROVE x <= y
    OBVIOUS
  <2>1. x \in Nat /\ y \in Nat
    OBVIOUS
  <2>2. <<y, x>> \in Nat \X Nat /\ (y < x => <<y, x>> \in R)
    BY <2>1 DEF OpToRel
  <2> HIDE DEF R
  <2> QED BY <1>1, <2>1, <2>2
<1> QED BY <1>2 DEF Min

\* There is always an inode for a new file: the path, the commands' locks and their
\* writes take at most 2 * MaxCommands + 1.
LEMMA FreeInodeType ==
    ASSUME TypeOK, LocksHeld
    PROVE  FreeInode \in Inodes
<1> DEFINE Free == {i \in Inodes : /\ i # path
                                   /\ lock[i] = Nobody
                                   /\ \A c \in Commands : i \notin {cmd[c].fd, cmd[c].out}}
<1>1. Free # {}
  <2> SUFFICES ASSUME Free = {} PROVE FALSE
    OBVIOUS
  <2> DEFINE Fd(i) == CHOOSE c \in Commands : cmd[c].fd = i
             Out(i) == CHOOSE c \in Commands : cmd[c].out = i
             Opened(i) == \E c \in Commands : cmd[c].fd = i
             user == [i \in Inodes |-> IF i = path THEN 0
                                       ELSE IF Opened(i) THEN 2 * Fd(i) - 1 ELSE 2 * Out(i)]
  <2>1. ASSUME NEW i \in Inodes, i # path, ~Opened(i)
        PROVE  Out(i) \in Commands /\ cmd[Out(i)].out = i
    <3>1. lock[i] = Nobody
      BY <2>1 DEF TypeOK, LocksHeld
    <3>2. \E c \in Commands : cmd[c].out = i
      BY <2>1, <3>1
    <3> QED BY <3>2
  <2>2. ASSUME NEW i \in Inodes, Opened(i)
        PROVE  Fd(i) \in Commands /\ cmd[Fd(i)].fd = i
    BY <2>2
  <2> HIDE DEF Fd, Out, Opened
  <2>3. user \in [Inodes -> 0..(2 * MaxCommands)]
    BY <2>1, <2>2, SupervisorAssumption DEF Commands
  <2>4. \A i, j \in Inodes : user[i] = user[j] => i = j
    <3> SUFFICES ASSUME NEW i \in Inodes, NEW j \in Inodes, user[i] = user[j] PROVE i = j
      OBVIOUS
    <3>1. \A k \in Inodes : \/ k = path /\ user[k] = 0
                            \/ k # path /\ Opened(k) /\ user[k] = 2 * Fd(k) - 1
                            \/ k # path /\ ~Opened(k) /\ user[k] = 2 * Out(k)
      OBVIOUS
    <3> HIDE DEF user
    <3>2. \A k \in Inodes : /\ Opened(k) => Fd(k) \in Int /\ Fd(k) > 0
                            /\ k # path /\ ~Opened(k) => Out(k) \in Int /\ Out(k) > 0
      BY <2>1, <2>2, SupervisorAssumption DEF Commands
    <3>3. CASE i = path
      BY <3>1, <3>2, <3>3
    <3>4. CASE i # path /\ Opened(i)
      <4>1. Opened(j) /\ Fd(i) = Fd(j)
        BY <3>1, <3>2, <3>4
      <4> QED BY <4>1, <3>4, <2>2
    <3>5. CASE i # path /\ ~Opened(i)
      <4>1. j # path /\ ~Opened(j) /\ Out(i) = Out(j)
        BY <3>1, <3>2, <3>5
      <4> QED BY <4>1, <3>5, <2>1
    <3> QED BY <3>3, <3>4, <3>5
  <2>5. /\ IsFiniteSet(Inodes) /\ Cardinality(Inodes) = 2 * MaxCommands + 2
        /\ IsFiniteSet(0..(2 * MaxCommands))
        /\ Cardinality(0..(2 * MaxCommands)) = 2 * MaxCommands + 1
    BY FS_Interval, SupervisorAssumption DEF Inodes
  <2>6. Cardinality(0..(2 * MaxCommands)) < Cardinality(Inodes)
    BY <2>5, SupervisorAssumption
  <2> DEFINE Users == 0..(2 * MaxCommands)
  <2>7. user \in [Inodes -> Users] /\ IsFiniteSet(Users) /\ Cardinality(Users) < Cardinality(Inodes)
    BY <2>3, <2>5, <2>6
  <2> HIDE DEF user, Users
  <2>8. \E x, y \in Inodes : x # y /\ user[x] = user[y]
    BY <2>5, <2>7, FS_PigeonHole
  <2> QED BY <2>4, <2>8
<1>2. Free \subseteq Nat
  BY SupervisorAssumption DEF Inodes
<1>3. Min(Free) \in Free
  <2> HIDE DEF Free
  <2> QED BY <1>1, <1>2, MinOfNats
<1> QED BY <1>3 DEF FreeInode

\* The commands and the process ids are finitely many, and there is one id to spare.
LEMMA Sizes ==
    /\ IsFiniteSet(Commands) /\ Cardinality(Commands) = MaxCommands
    /\ IsFiniteSet(Pids) /\ Cardinality(Pids) = MaxCommands + 1
<1>1. MaxCommands \in Int /\ MaxCommands >= 1 /\ MaxCommands + 1 \in Int
  BY SupervisorAssumption
<1>2. Cardinality(1..MaxCommands) = IF 1 > MaxCommands THEN 0 ELSE MaxCommands - 1 + 1
  BY <1>1, FS_Interval
<1>3. IsFiniteSet(Commands) /\ Cardinality(Commands) = MaxCommands
  BY <1>1, <1>2, FS_Interval DEF Commands
<1>4. IsFiniteSet(Pids) /\ Cardinality(Pids) = MaxCommands + 1
  BY <1>1, FS_Interval DEF Pids
<1> QED BY <1>3, <1>4

\* A command that is about to spawn has not spawned yet, so that there is a PID left.
LEMMA FreePidType ==
    ASSUME TypeOK, PidsSuffice, NEW c \in Commands, cmd[c].pc = "fork"
    PROVE  Min(FreePids) \in Pids /\ proc[Min(FreePids)].pc = "none"
<1>2. Spent \subseteq Commands /\ c \notin Spent /\ Used \subseteq Pids
  BY DEF Spent, Used
<1>3. Cardinality(Spent) <= MaxCommands /\ Cardinality(Spent) # MaxCommands
  BY Sizes, <1>2, FS_Subset
<1>4. IsFiniteSet(Spent) /\ IsFiniteSet(Used)
  BY Sizes, <1>2, FS_Subset
<1>5. Cardinality(Spent) \in Nat /\ Cardinality(Used) \in Nat
  BY <1>4, FS_CardinalityType
<1>6. Cardinality(Used) < Cardinality(Pids)
  BY Sizes, <1>3, <1>5, SupervisorAssumption DEF PidsSuffice
<1>7. Used # Pids
  BY <1>5, <1>6
<1>8. FreePids # {} /\ FreePids \subseteq Nat
  BY <1>2, <1>7, SupervisorAssumption DEF FreePids, Used, Pids
<1>9. Min(FreePids) \in FreePids
  BY <1>8, MinOfNats
<1> QED BY <1>9 DEF FreePids

\* A command that returns keeps the shape of cmd.
LEMMA ReturnsType ==
    ASSUME TypeOK, NEW c \in Commands, NEW pc \in {"done", "failed"}
    PROVE  Returns(c, pc) \in [Commands -> CmdStates]
BY DEF TypeOK, Returns, Waiting, CmdStates

\* So does one that goes on to the next part of its script.
LEMMA ContinueType ==
    ASSUME TypeOK, NEW c \in Commands
    PROVE  Continue(c) \in [Commands -> CmdStates]
<1>1. AfterStop(cmd[c].script) \in {"precheck", "open", "replace", "done"}
  BY DEF AfterStop
<1>2. CASE AfterStop(cmd[c].script) = "done"
  BY <1>2, ReturnsType DEF Continue
<1>3. CASE AfterStop(cmd[c].script) # "done"
  <2>1. Continue(c) = [cmd EXCEPT ![c].pc = AfterStop(cmd[c].script)]
    BY <1>3 DEF Continue
  <2> QED BY <1>1, <2>1 DEF TypeOK, CmdStates
<1> QED BY <1>2, <1>3

\* Closing a descriptor keeps the shape of the locks.
LEMMA ClosedType ==
    ASSUME TypeOK, NEW c \in Commands
    PROVE  Closed(c) \in [Inodes -> Commands \cup {Nobody}]
BY DEF TypeOK, Closed

\* A command that moves on keeps the shape of cmd.
LEMMA MovedType ==
    ASSUME TypeOK, NEW c \in Commands,
           NEW pc \in {"precheck", "open", "lock", "check", "fork", "truncate", "write", "stop",
                       "term", "wait", "remove", "stat", "clean", "fetch", "replace", "save"}
    PROVE  [cmd EXCEPT ![c].pc = pc] \in [Commands -> CmdStates]
BY DEF TypeOK, CmdStates

\* Moving on and remembering an inode or a PID.
LEMMA OpenedType ==
    ASSUME TypeOK, NEW c \in Commands, NEW i \in Inodes
    PROVE  /\ [cmd EXCEPT ![c].pc = "lock", ![c].fd = i] \in [Commands -> CmdStates]
           /\ [cmd EXCEPT ![c].pc = "write", ![c].out = i] \in [Commands -> CmdStates]
<1>1. cmd[c] \in CmdStates
  BY DEF TypeOK
<1>2. /\ [cmd[c] EXCEPT !.pc = "lock", !.fd = i] \in CmdStates
      /\ [cmd[c] EXCEPT !.pc = "write", !.out = i] \in CmdStates
  BY <1>1 DEF CmdStates
<1>3. \A r \in CmdStates : [cmd EXCEPT ![c] = r] \in [Commands -> CmdStates]
  BY DEF TypeOK
<1>4. [cmd EXCEPT ![c].pc = "lock", ![c].fd = i] \in [Commands -> CmdStates]
  BY <1>2, <1>3
<1>5. [cmd EXCEPT ![c].pc = "write", ![c].out = i] \in [Commands -> CmdStates]
  BY <1>2, <1>3
<1> QED BY <1>4, <1>5

\* So does one that remembers a process id.
LEMMA AimedType ==
    ASSUME TypeOK, NEW c \in Commands, NEW pc \in {"truncate", "remove", "term"},
           NEW p \in Pids \cup {NoPid}
    PROVE  [cmd EXCEPT ![c].pc = pc, ![c].pid = p] \in [Commands -> CmdStates]
<1>1. cmd[c] \in CmdStates
  BY DEF TypeOK
<1>2. [cmd[c] EXCEPT !.pc = pc, !.pid = p] \in CmdStates
  BY <1>1 DEF CmdStates
<1>3. \A r \in CmdStates : [cmd EXCEPT ![c] = r] \in [Commands -> CmdStates]
  BY DEF TypeOK
<1> QED BY <1>2, <1>3

\* The process table after one process has been ended.
LEMMA KilledType ==
    ASSUME TypeOK, NEW p
    PROVE  [proc EXCEPT ![p] = Dead] \in [Pids -> ProcStates]
BY DEF TypeOK, ProcStates, Dead, NoProc, Old, New

\* RemovePIDFile keeps the shapes of what it changes.
LEMMA RemoveType ==
    ASSUME TypeOK, RemovePIDFile
    PROVE  /\ path' \in Inodes \cup {NoInode}
           /\ content' \in Pids \cup {NoPid}
           /\ raced' \in BOOLEAN
<1>1. raced' \in BOOLEAN
  BY Zenon DEF RemovePIDFile
<1> QED BY <1>1 DEF RemovePIDFile

-----------------------------------------------------------------------------
(* Type correctness.                                                         *)

CommandAction(c) ==
    Begin(c) \/ CommandStep(c) \/ WokenTooEarly(c) \/ SpawnFails(c) \/ Killed(c)

AgentAction(p) ==
    \/ AgentWritesPID(p) \/ AgentReturns(p) \/ AgentExits(p)
    \/ AgentChecks(p) \/ AgentInitFails(p) \/ AgentCrashes(p)

\* Every step of a command keeps every variable's shape.
LEMMA CommandTypes ==
    ASSUME TypeOK, LocksHeld, PidsSuffice, NEW c \in Commands, CommandAction(c)
    PROVE  TypeOK'
<1>1. CASE Begin(c)
  <2>1. mixed' \in BOOLEAN
    BY <1>1, Zenon DEF Begin
  <2>2. \A s \in Scripts : First(s) \in {"open", "precheck", "stop", "stat", "fetch"}
    BY SupervisorAssumption DEF First
  <2>3. cmd' \in [Commands -> CmdStates]
    BY <1>1, <2>2 DEF Begin, TypeOK, CmdStates
  <2> QED BY <1>1, <2>1, <2>3 DEF Begin, TypeOK, fileVars, updateVars, pastVars
<1>2. CASE Precheck(c)
  BY <1>2, MovedType, ReturnsType DEF Precheck, TypeOK, fileVars, updateVars, pastVars
<1>3. CASE Open(c)
  <2>1. (IF path = NoInode THEN FreeInode ELSE path) \in Inodes
    BY FreeInodeType DEF TypeOK
  <2>2. path' \in Inodes /\ cmd' \in [Commands -> CmdStates]
    BY <1>3, <2>1, OpenedType DEF Open
  <2> QED BY <1>3, <2>2 DEF Open, TypeOK, fileVars, updateVars, pastVars
<1>4. CASE Flock(c)
  <2>1. lock' \in [Inodes -> Commands \cup {Nobody}]
    BY <1>4 DEF Flock, TypeOK
  <2> QED BY <1>4, <2>1, MovedType DEF Flock, TypeOK, fileVars, updateVars, pastVars
<1>5. CASE Recheck(c)
  <2>1. raced' \in BOOLEAN
    <3>1. CASE ReadPIDFile # NoPid /\ IsAgentProcess(ReadPIDFile)
      BY <1>5, <3>1 DEF Recheck, TypeOK
    <3>2. CASE ~(ReadPIDFile # NoPid /\ IsAgentProcess(ReadPIDFile))
      <4>1. raced' = (raced \/ \E b \in Commands : Spawning(b) /\ cmd[b].fd # cmd[c].fd)
        BY <1>5, <3>2 DEF Recheck
      <4> QED BY <4>1, Zenon
    <3> QED BY <3>1, <3>2
  <2>2. cmd' \in [Commands -> CmdStates] /\ lock' \in [Inodes -> Commands \cup {Nobody}]
    <3>1. CASE ReadPIDFile # NoPid /\ IsAgentProcess(ReadPIDFile)
      BY <1>5, <3>1, ReturnsType, ClosedType DEF Recheck
    <3>2. CASE ~(ReadPIDFile # NoPid /\ IsAgentProcess(ReadPIDFile))
      <4>1. cmd' = [cmd EXCEPT ![c].pc = "fork"] /\ lock' = lock
        BY <1>5, <3>2 DEF Recheck
      <4> QED BY <4>1, MovedType DEF TypeOK
    <3> QED BY <3>1, <3>2
  <2> QED BY <1>5, <2>1, <2>2 DEF Recheck, TypeOK, fileVars, updateVars, pastVars
<1>6. CASE Spawn(c)
  <2> DEFINE p == Min(FreePids)
  <2>1. p \in Pids
    BY <1>6, FreePidType DEF Spawn
  <2>2. mixed' \in BOOLEAN
    BY <1>6, Zenon DEF Spawn
  <2>3. /\ proc' = [proc EXCEPT ![p].pc = "exec", ![p].ver = exe]
        /\ cmd' = [cmd EXCEPT ![c].pc = "truncate", ![c].pid = p]
    BY <1>6 DEF Spawn
  <2> HIDE DEF p
  <2>4. proc' \in [Pids -> ProcStates]
    BY <2>1, <2>3 DEF TypeOK, ProcStates
  <2>5. cmd' \in [Commands -> CmdStates]
    BY <2>1, <2>3, AimedType
  <2> QED BY <1>6, <2>2, <2>4, <2>5 DEF Spawn, TypeOK, fileVars, updateVars, pastVars
<1>7. CASE Truncate(c)
  <2>1. (IF path = NoInode THEN FreeInode ELSE path) \in Inodes
    BY FreeInodeType DEF TypeOK
  <2>2. path' \in Inodes /\ cmd' \in [Commands -> CmdStates]
    BY <1>7, <2>1, OpenedType DEF Truncate
  <2> QED BY <1>7, <2>2 DEF Truncate, TypeOK, fileVars, updateVars, pastVars
<1>8. CASE WriteChild(c)
  <2>1. cmd[c].pid \in Pids \cup {NoPid}
    BY DEF TypeOK, CmdStates
  <2> QED BY <1>8, <2>1, ReturnsType, ClosedType
      DEF WriteChild, TypeOK, fileVars, updateVars, pastVars
<1>9. CASE StopReads(c)
  <2>1. cmd' \in [Commands -> CmdStates]
    <3>1. CASE content = NoPid
      BY <1>9, <3>1, ContinueType DEF StopReads, ReadPIDFile
    <3>2. CASE content # NoPid
      BY <1>9, <3>2, AimedType DEF StopReads, ReadPIDFile, TypeOK
    <3> QED BY <3>1, <3>2
  <2> QED BY <1>9, <2>1 DEF StopReads, TypeOK, fileVars, updateVars, pastVars
<1>10. CASE StopTerminates(c)
  <2> DEFINE p == cmd[c].pid
  <2>1. proc' \in [Pids -> ProcStates]
    <3>1. CASE proc' = [proc EXCEPT ![p].told = TRUE]
      BY <3>1 DEF TypeOK, ProcStates
    <3>2. CASE proc' = [proc EXCEPT ![p] = Dead]
      BY <3>2, KilledType
    <3> QED BY <1>10, <3>1, <3>2 DEF StopTerminates
  <2> QED BY <1>10, <2>1, MovedType DEF StopTerminates, TypeOK, fileVars, updateVars, pastVars
<1>11. CASE TerminateFails(c)
  BY <1>11, MovedType, ContinueType, ReturnsType
  DEF TerminateFails, TypeOK, fileVars, updateVars, pastVars
<1>12. CASE StopSeesExit(c)
  BY <1>12, MovedType DEF StopSeesExit, TypeOK, fileVars, updateVars, pastVars
<1>13. CASE StopKills(c)
  BY <1>13, MovedType, KilledType DEF StopKills, TypeOK, fileVars, updateVars, pastVars
<1>14. CASE Remove(c)
  BY <1>14, ContinueType, RemoveType DEF Remove, TypeOK, fileVars, updateVars, pastVars
<1>15. CASE StatusReads(c)
  BY <1>15, MovedType, ReturnsType DEF StatusReads, TypeOK, fileVars, updateVars, pastVars
<1>16. CASE CleanStalePIDFile(c)
  BY <1>16, MovedType, ReturnsType DEF CleanStalePIDFile, TypeOK, fileVars, updateVars, pastVars
<1>17. CASE UpdateChecks(c)
  <2>1. cmd[c].ver \in {Old, New}
    BY DEF TypeOK, CmdStates
  <2>2. state' \in [by : {Old, New}, available : BOOLEAN]
    BY <1>17, <2>1 DEF UpdateChecks, Checked
  <2> QED BY <1>17, <2>2, MovedType, ReturnsType
      DEF UpdateChecks, TypeOK, fileVars, updateVars, pastVars
<1>18. CASE UpdateFails(c)
  BY <1>18, ReturnsType DEF UpdateFails, TypeOK, fileVars, updateVars, pastVars
<1>19. CASE UpdateReplaces(c)
  BY <1>19, MovedType DEF UpdateReplaces, Release, TypeOK, fileVars, updateVars, pastVars
<1>20. CASE UpdateSaves(c)
  BY <1>20, ReturnsType DEF UpdateSaves, Release, TypeOK, fileVars, updateVars, pastVars
<1>21. CASE WokenTooEarly(c)
  BY <1>21, ReturnsType, ClosedType, KilledType, SupervisorAssumption
  DEF WokenTooEarly, TypeOK, fileVars, updateVars, pastVars
<1>22. CASE SpawnFails(c)
  BY <1>22, ReturnsType, ClosedType, SupervisorAssumption
  DEF SpawnFails, TypeOK, fileVars, updateVars, pastVars
<1>23. CASE Killed(c)
  <2>1. raced' \in BOOLEAN
    BY <1>23, Zenon DEF Killed
  <2> QED BY <1>23, <2>1, ReturnsType, ClosedType, SupervisorAssumption
      DEF Killed, TypeOK, fileVars, updateVars, pastVars
<1> QED BY <1>1, <1>2, <1>3, <1>4, <1>5, <1>6, <1>7, <1>8, <1>9, <1>10, <1>11, <1>12,
          <1>13, <1>14, <1>15, <1>16, <1>17, <1>18, <1>19, <1>20, <1>21, <1>22, <1>23
  DEF CommandAction, CommandStep

\* So does every step of an agent.
LEMMA AgentTypes ==
    ASSUME TypeOK, LocksHeld, NEW p \in Pids, AgentAction(p)
    PROVE  TypeOK'
<1>1. CASE AgentWritesPID(p)
  <2>1. proc' \in [Pids -> ProcStates]
    BY <1>1 DEF AgentWritesPID, TypeOK, ProcStates
  <2> QED BY <1>1, <2>1, FreeInodeType
      DEF AgentWritesPID, TypeOK, fileVars, updateVars, pastVars
<1>2. CASE AgentReturns(p)
  <2>1. proc' = [proc EXCEPT ![p].pc = "returned", ![p].fatal = ~proc[p].told]
    BY <1>2 DEF AgentReturns
  <2>2. (~proc[p].told) \in BOOLEAN
    BY Zenon
  <2>3. proc' \in [Pids -> ProcStates]
    BY <2>1, <2>2 DEF TypeOK, ProcStates
  <2>4. faults' \in 0..MaxFaults
    BY <1>2, SupervisorAssumption DEF AgentReturns, TypeOK
  <2> QED BY <1>2, <2>3, <2>4, RemoveType
      DEF AgentReturns, TypeOK, fileVars, updateVars, pastVars
<1>3. CASE AgentExits(p)
  BY <1>3, KilledType, RemoveType DEF AgentExits, TypeOK, fileVars, updateVars, pastVars
<1>4. CASE AgentChecks(p)
  <2>1. proc[p].ver \in {Old, New}
    BY DEF TypeOK, ProcStates
  <2>2. state' \in [by : {Old, New}, available : BOOLEAN]
    BY <1>4, <2>1 DEF AgentChecks, Checked
  <2> QED BY <1>4, <2>2 DEF AgentChecks, TypeOK, fileVars, updateVars, pastVars
<1>5. CASE AgentInitFails(p)
  <2>1. proc' \in [Pids -> ProcStates]
    BY <1>5 DEF AgentInitFails, TypeOK, ProcStates
  <2> QED BY <1>5, <2>1, SupervisorAssumption
      DEF AgentInitFails, TypeOK, fileVars, updateVars, pastVars
<1>6. CASE AgentCrashes(p)
  BY <1>6, KilledType, SupervisorAssumption
  DEF AgentCrashes, TypeOK, fileVars, updateVars, pastVars
<1> QED BY <1>1, <1>2, <1>3, <1>4, <1>5, <1>6
  DEF AgentAction

-----------------------------------------------------------------------------
(* What the steps do to the commands and to the processes.                   *)

\* A command that returns changes nothing of the others.
LEMMA ReturnsEffect ==
    ASSUME TypeOK, NEW c \in Commands, NEW pc
    PROVE  /\ Returns(c, pc)[c].pc = pc
           /\ Returns(c, pc)[c].script = cmd[c].script
           /\ \A b \in Commands \ {c} : Returns(c, pc)[b] = cmd[b]
BY DEF TypeOK, Returns, Waiting, CmdStates

\* Nor does one that goes on; only the stop of an update goes on to replace.
LEMMA ContinueEffect ==
    ASSUME TypeOK, NEW c \in Commands
    PROVE  /\ Continue(c)[c].pc \in {"precheck", "open", "replace", "done"}
           /\ Continue(c)[c].pc = "replace" <=> cmd[c].script = "update"
           /\ Continue(c)[c].script = cmd[c].script
           /\ \A b \in Commands \ {c} : Continue(c)[b] = cmd[b]
<1>1. /\ AfterStop(cmd[c].script) \in {"precheck", "open", "replace", "done"}
      /\ AfterStop(cmd[c].script) = "replace" <=> cmd[c].script = "update"
  BY DEF AfterStop
<1>2. CASE AfterStop(cmd[c].script) = "done"
  BY <1>1, <1>2, ReturnsEffect DEF Continue
<1>3. CASE AfterStop(cmd[c].script) # "done"
  <2>1. Continue(c) = [cmd EXCEPT ![c].pc = AfterStop(cmd[c].script)]
    BY <1>3 DEF Continue
  <2> QED BY <1>1, <2>1 DEF TypeOK, CmdStates
<1> QED BY <1>2, <1>3

\* A step of a command changes that command only.
Own(c) == \A b \in Commands \ {c} : cmd'[b] = cmd[b]

\* The pcs between os.OpenFile and f.Close, and between Flock and f.Close.
FileOpen == {"lock", "check", "fork", "truncate", "write"}
Section == {"check", "fork", "truncate", "write"}

\* A step before EnsureRunning opens the PID file, or of a script that does not.
Outside(c) ==
    /\ Own(c)
    /\ lock' = lock
    /\ cmd[c].pc \notin FileOpen \cup {"done", "failed"}
    /\ cmd'[c].pc \notin FileOpen \cup {"idle"}

\* A return out of it.
Leaves(c) ==
    /\ Own(c)
    /\ lock' = Closed(c)
    /\ cmd[c].pc \notin {"idle", "done", "failed"}
    /\ cmd'[c].pc \in {"done", "failed"}
    /\ cmd'[c].script = cmd[c].script

\* The steps a command takes without holding the PID file open.
LEMMA OutsideSteps ==
    ASSUME TypeOK, NEW c \in Commands,
           \/ Begin(c) \/ Precheck(c) \/ StopReads(c) \/ StopTerminates(c)
           \/ TerminateFails(c) \/ StopSeesExit(c) \/ StopKills(c) \/ Remove(c)
           \/ StatusReads(c) \/ CleanStalePIDFile(c) \/ UpdateChecks(c)
           \/ UpdateFails(c) \/ UpdateReplaces(c) \/ UpdateSaves(c)
    PROVE  Outside(c) /\ (~Begin(c) => cmd'[c].script = cmd[c].script)
<1> USE DEF Outside, Own, FileOpen
<1>1. CASE Begin(c)
  <2>1. \A s \in Scripts : First(s) \in {"open", "precheck", "stop", "stat", "fetch"}
    BY SupervisorAssumption DEF First
  <2>2. PICK s \in Scripts : cmd' = [cmd EXCEPT ![c].script = s, ![c].pc = First(s),
                                                ![c].ver = exe]
    BY <1>1 DEF Begin
  <2>3. First(s) \in {"open", "precheck", "stop", "stat", "fetch"}
    BY <2>1
  <2>4. cmd'[c].pc = First(s) /\ Own(c)
    BY <2>2 DEF TypeOK, CmdStates
  <2>5. cmd[c].pc = "idle" /\ lock' = lock
    BY <1>1 DEF Begin, fileVars
  <2> QED BY <1>1, <2>3, <2>4, <2>5
<1>2. CASE Precheck(c)
  <2>1. CASE cmd' = Returns(c, "done")
    BY <1>2, <2>1, ReturnsEffect DEF Precheck, fileVars
  <2>2. CASE cmd' = [cmd EXCEPT ![c].pc = "open"]
    BY <1>2, <2>2 DEF Precheck, TypeOK, CmdStates, fileVars
  <2> QED BY <1>2, <2>1, <2>2 DEF Precheck
<1>3. CASE StopReads(c)
  <2>1. CASE content = NoPid
    BY <1>3, <2>1, ContinueEffect DEF StopReads, ReadPIDFile, fileVars
  <2>2. CASE content # NoPid
    <3>1. PICK pc \in {"remove", "term"} : cmd' = [cmd EXCEPT ![c].pc = pc, ![c].pid = content]
      BY <1>3, <2>2 DEF StopReads, ReadPIDFile
    <3> QED BY <1>3, <3>1 DEF StopReads, TypeOK, CmdStates, fileVars
  <2> QED BY <2>1, <2>2
<1>4. CASE StopTerminates(c)
  BY <1>4 DEF StopTerminates, TypeOK, CmdStates, fileVars
<1>5. CASE TerminateFails(c)
  <2>1. CASE cmd[c].script = "pair"
    BY <1>5, <2>1 DEF TerminateFails, TypeOK, CmdStates, fileVars
  <2>2. CASE cmd[c].script = "update"
    BY <1>5, <2>2, ContinueEffect DEF TerminateFails, fileVars
  <2>3. CASE cmd[c].script \notin {"pair", "update"}
    BY <1>5, <2>3, ReturnsEffect DEF TerminateFails, fileVars
  <2> QED BY <2>1, <2>2, <2>3
<1>6. CASE StopSeesExit(c)
  BY <1>6 DEF StopSeesExit, TypeOK, CmdStates, fileVars
<1>7. CASE StopKills(c)
  BY <1>7 DEF StopKills, TypeOK, CmdStates, fileVars
<1>8. CASE Remove(c)
  BY <1>8, ContinueEffect DEF Remove
<1>9. CASE StatusReads(c)
  <2>1. CASE cmd' = Returns(c, "done")
    BY <1>9, <2>1, ReturnsEffect DEF StatusReads, fileVars
  <2>2. CASE cmd' # Returns(c, "done")
    <3>1. PICK pc \in {"remove", "clean"} : cmd' = [cmd EXCEPT ![c].pc = pc]
      BY <1>9, <2>2 DEF StatusReads
    <3> QED BY <1>9, <3>1 DEF StatusReads, TypeOK, CmdStates, fileVars
  <2> QED BY <1>9, <2>1, <2>2 DEF StatusReads
<1>10. CASE CleanStalePIDFile(c)
  <2>1. CASE cmd' = Returns(c, "done")
    BY <1>10, <2>1, ReturnsEffect DEF CleanStalePIDFile, fileVars
  <2>2. CASE cmd' = [cmd EXCEPT ![c].pc = "remove"]
    BY <1>10, <2>2 DEF CleanStalePIDFile, TypeOK, CmdStates, fileVars
  <2> QED BY <1>10, <2>1, <2>2 DEF CleanStalePIDFile
<1>11. CASE UpdateChecks(c)
  <2>1. CASE cmd' = Returns(c, "done")
    BY <1>11, <2>1, ReturnsEffect DEF UpdateChecks, fileVars
  <2>2. CASE cmd' = [cmd EXCEPT ![c].pc = "stop"]
    BY <1>11, <2>2 DEF UpdateChecks, TypeOK, CmdStates, fileVars
  <2> QED BY <1>11, <2>1, <2>2 DEF UpdateChecks
<1>12. CASE UpdateFails(c)
  BY <1>12, ReturnsEffect DEF UpdateFails, fileVars
<1>13. CASE UpdateReplaces(c)
  BY <1>13 DEF UpdateReplaces, TypeOK, CmdStates, fileVars
<1>14. CASE UpdateSaves(c)
  BY <1>14, ReturnsEffect DEF UpdateSaves, fileVars
<1> QED BY <1>1, <1>2, <1>3, <1>4, <1>5, <1>6, <1>7, <1>8, <1>9, <1>10, <1>11, <1>12,
          <1>13, <1>14

\* The steps with which a command closes the PID file for good.
LEMMA LeavingSteps ==
    ASSUME TypeOK, NEW c \in Commands,
           \/ WriteChild(c) \/ WokenTooEarly(c) \/ SpawnFails(c) \/ Killed(c)
           \/ Recheck(c) /\ ReadPIDFile # NoPid /\ IsAgentProcess(ReadPIDFile)
    PROVE  Leaves(c)
<1> USE ReturnsEffect DEF Leaves, Own
<1>1. CASE WriteChild(c)
  BY <1>1 DEF WriteChild
<1>2. CASE WokenTooEarly(c)
  BY <1>2 DEF WokenTooEarly
<1>3. CASE SpawnFails(c)
  BY <1>3 DEF SpawnFails
<1>4. CASE Killed(c)
  BY <1>4 DEF Killed, Active
<1>5. CASE Recheck(c) /\ ReadPIDFile # NoPid /\ IsAgentProcess(ReadPIDFile)
  BY <1>5 DEF Recheck
<1> QED BY <1>1, <1>2, <1>3, <1>4, <1>5

\* The steps of the locked section that neither enter it nor leave it.
LEMMA SectionSteps ==
    ASSUME TypeOK, NEW c \in Commands
    PROVE  /\ Open(c) => /\ Own(c) /\ cmd[c].pc = "open" /\ cmd'[c].pc = "lock"
                         /\ cmd'[c].script = cmd[c].script /\ lock' = lock
                         /\ cmd'[c].fd = path'
           /\ Flock(c) => /\ Own(c) /\ cmd[c].pc = "lock" /\ cmd'[c].pc = "check"
                          /\ cmd'[c].script = cmd[c].script
                          /\ cmd'[c].fd = cmd[c].fd
           /\ Recheck(c) /\ ~(ReadPIDFile # NoPid /\ IsAgentProcess(ReadPIDFile)) =>
                         /\ Own(c) /\ cmd[c].pc = "check" /\ cmd'[c].pc = "fork"
                         /\ cmd'[c].script = cmd[c].script /\ lock' = lock
                         /\ cmd'[c].fd = cmd[c].fd
           /\ Spawn(c) => /\ Own(c) /\ cmd[c].pc = "fork" /\ cmd'[c].pc = "truncate"
                          /\ cmd'[c].script = cmd[c].script /\ lock' = lock
                          /\ cmd'[c].fd = cmd[c].fd
                          /\ cmd'[c].pid = Min(FreePids)
           /\ Truncate(c) => /\ Own(c) /\ cmd[c].pc = "truncate" /\ cmd'[c].pc = "write"
                             /\ cmd'[c].script = cmd[c].script /\ lock' = lock
                             /\ cmd'[c].fd = cmd[c].fd
                             /\ cmd'[c].pid = cmd[c].pid
                             /\ cmd'[c].out = path'
<1> USE DEF TypeOK, CmdStates, Own, fileVars
<1>1. Open(c) => /\ Own(c) /\ cmd[c].pc = "open" /\ cmd'[c].pc = "lock"
                 /\ cmd'[c].script = cmd[c].script /\ lock' = lock
                 /\ cmd'[c].fd = path'
  BY DEF Open
<1>2. Flock(c) => /\ Own(c) /\ cmd[c].pc = "lock" /\ cmd'[c].pc = "check"
                  /\ cmd'[c].script = cmd[c].script
                  /\ cmd'[c].fd = cmd[c].fd
  BY DEF Flock
<1>3. Recheck(c) /\ ~(ReadPIDFile # NoPid /\ IsAgentProcess(ReadPIDFile)) =>
         /\ Own(c) /\ cmd[c].pc = "check" /\ cmd'[c].pc = "fork"
         /\ cmd'[c].script = cmd[c].script /\ lock' = lock
         /\ cmd'[c].fd = cmd[c].fd
  <2> SUFFICES ASSUME Recheck(c), ~(ReadPIDFile # NoPid /\ IsAgentProcess(ReadPIDFile))
               PROVE  /\ Own(c) /\ cmd[c].pc = "check" /\ cmd'[c].pc = "fork"
                      /\ cmd'[c].script = cmd[c].script /\ lock' = lock
                      /\ cmd'[c].fd = cmd[c].fd
    OBVIOUS
  <2>1. /\ cmd[c].pc = "check" /\ cmd' = [cmd EXCEPT ![c].pc = "fork"] /\ lock' = lock
    BY DEF Recheck
  <2> QED BY <2>1
<1>4. Spawn(c) => /\ Own(c) /\ cmd[c].pc = "fork" /\ cmd'[c].pc = "truncate"
                  /\ cmd'[c].script = cmd[c].script /\ lock' = lock
                  /\ cmd'[c].fd = cmd[c].fd
                  /\ cmd'[c].pid = Min(FreePids)
  BY DEF Spawn
<1>5. Truncate(c) => /\ Own(c) /\ cmd[c].pc = "truncate" /\ cmd'[c].pc = "write"
                     /\ cmd'[c].script = cmd[c].script /\ lock' = lock
                     /\ cmd'[c].fd = cmd[c].fd
                     /\ cmd'[c].pid = cmd[c].pid
                     /\ cmd'[c].out = path'
  BY DEF Truncate
<1> QED BY <1>1, <1>2, <1>3, <1>4, <1>5

\* The values for none are none of the real ones.
LEMMA Zeros == NoInode \notin Inodes /\ NoPid \notin Pids /\ Nobody \notin Commands
BY SupervisorAssumption DEF NoInode, NoPid, Nobody, Inodes, Pids, Commands

\* Processes only go on towards their end, and none is made but by spawn.
Aging ==
    /\ Used' = Used
    /\ \A p \in Pids : InCharge(p)' => InCharge(p) /\ proc'[p].ver = proc[p].ver

\* A step that leaves the processes alone puts no agent in charge.
LEMMA Unborn ==
    ASSUME TypeOK, proc' = proc
    PROVE  Aging
BY DEF Aging, Used, InCharge, Running

\* Neither does the end of a process.
LEMMA Ended ==
    ASSUME TypeOK, NEW p, p \in Used, proc' = [proc EXCEPT ![p] = Dead]
    PROVE  Aging
BY DEF TypeOK, Aging, Used, InCharge, Running, Dead, NoProc, ProcStates

\* Every step of a command but the one that makes an agent.
NoSpawn(c) ==
    \/ Begin(c) \/ Precheck(c) \/ Open(c) \/ Flock(c) \/ Recheck(c)
    \/ Truncate(c) \/ WriteChild(c) \/ StopReads(c) \/ StopTerminates(c)
    \/ TerminateFails(c) \/ StopSeesExit(c) \/ StopKills(c) \/ Remove(c)
    \/ StatusReads(c) \/ CleanStalePIDFile(c) \/ UpdateChecks(c) \/ UpdateFails(c)
    \/ UpdateReplaces(c) \/ UpdateSaves(c) \/ WokenTooEarly(c) \/ SpawnFails(c)
    \/ Killed(c)

\* Only a spawn puts an agent in charge: no other step of a command does.
LEMMA CommandsAge ==
    ASSUME TypeOK, StopsAgent, NEW c \in Commands, NoSpawn(c)
    PROVE  Aging
<1>1. CASE Begin(c)
  BY <1>1, Unborn DEF Begin
<1>2. CASE Precheck(c)
  BY <1>2, Unborn DEF Precheck
<1>3. CASE Open(c)
  BY <1>3, Unborn DEF Open
<1>4. CASE Flock(c)
  BY <1>4, Unborn DEF Flock
<1>5. CASE Recheck(c)
  BY <1>5, Unborn DEF Recheck
<1>6. CASE Truncate(c)
  BY <1>6, Unborn DEF Truncate
<1>7. CASE WriteChild(c)
  BY <1>7, Unborn DEF WriteChild
<1>8. CASE StopReads(c)
  BY <1>8, Unborn DEF StopReads
<1>9. CASE StopTerminates(c)
  <2> DEFINE p == cmd[c].pid
  <2>1. p \in Used
    BY <1>9 DEF StopTerminates, StopsAgent
  <2>2. CASE proc' = [proc EXCEPT ![p].told = TRUE]
    BY <1>9, <2>1, <2>2 DEF TypeOK, ProcStates, Aging, Used, InCharge, Running
  <2>3. CASE proc' = [proc EXCEPT ![p] = Dead]
    BY <2>1, <2>3, Ended
  <2> QED BY <1>9, <2>2, <2>3 DEF StopTerminates
<1>10. CASE TerminateFails(c)
  BY <1>10, Unborn DEF TerminateFails
<1>11. CASE StopSeesExit(c)
  BY <1>11, Unborn DEF StopSeesExit
<1>12. CASE StopKills(c)
  BY <1>12, Ended DEF StopKills, StopsAgent
<1>13. CASE Remove(c)
  BY <1>13, Unborn DEF Remove
<1>14. CASE StatusReads(c)
  BY <1>14, Unborn DEF StatusReads
<1>15. CASE CleanStalePIDFile(c)
  BY <1>15, Unborn DEF CleanStalePIDFile
<1>16. CASE UpdateChecks(c)
  BY <1>16, Unborn DEF UpdateChecks
<1>17. CASE UpdateFails(c)
  BY <1>17, Unborn DEF UpdateFails
<1>18. CASE UpdateReplaces(c)
  BY <1>18, Unborn DEF UpdateReplaces
<1>19. CASE UpdateSaves(c)
  BY <1>19, Unborn DEF UpdateSaves
<1>20. CASE WokenTooEarly(c)
  <2>1. content \in Used
    BY <1>20 DEF WokenTooEarly, ReadPIDFile, Used, TypeOK
  <2> QED BY <1>20, <2>1, Ended DEF WokenTooEarly, ReadPIDFile
<1>21. CASE SpawnFails(c)
  BY <1>21, Unborn DEF SpawnFails
<1>22. CASE Killed(c)
  BY <1>22, Unborn DEF Killed
<1> QED BY <1>1, <1>2, <1>3, <1>4, <1>5, <1>6, <1>7, <1>8, <1>9, <1>10, <1>11, <1>12,
          <1>13, <1>14, <1>15, <1>16, <1>17, <1>18, <1>19, <1>20, <1>21, <1>22
  DEF NoSpawn

\* No step of an agent puts another in charge.
LEMMA AgentsAge ==
    ASSUME TypeOK, NEW p \in Pids, AgentAction(p)
    PROVE  Aging
<1>1. CASE AgentWritesPID(p)
  BY <1>1 DEF AgentWritesPID, TypeOK, ProcStates, Aging, Used, InCharge, Running
<1>2. CASE AgentReturns(p)
  BY <1>2 DEF AgentReturns, TypeOK, ProcStates, Aging, Used, InCharge, Running
<1>3. CASE AgentExits(p)
  <2>1. p \in Used
    BY <1>3 DEF AgentExits, Used
  <2> QED BY <1>3, <2>1, Ended DEF AgentExits
<1>4. CASE AgentChecks(p)
  BY <1>4, Unborn DEF AgentChecks
<1>5. CASE AgentInitFails(p)
  BY <1>5 DEF AgentInitFails, TypeOK, ProcStates, Aging, Used, InCharge, Running
<1>6. CASE AgentCrashes(p)
  <2>1. p \in Used
    BY <1>6 DEF AgentCrashes, Alive, Used
  <2> QED BY <1>6, <2>1, Ended DEF AgentCrashes
<1> QED BY <1>1, <1>2, <1>3, <1>4, <1>5, <1>6
  DEF AgentAction

-----------------------------------------------------------------------------
(* The locks, the path and the counts.                                       *)

\* A step outside the PID file keeps the locks with their holders.
LEMMA OutsideLocks ==
    ASSUME TypeOK, TypeOK', LocksHeld, NEW c \in Commands, Outside(c)
    PROVE  LocksHeld'
BY Zeros DEF LocksHeld, Outside, Own, FileOpen, TypeOK

\* So does closing it, which drops the lock.
LEMMA LeavingLocks ==
    ASSUME TypeOK, TypeOK', LocksHeld, NEW c \in Commands, Leaves(c)
    PROVE  LocksHeld'
<1>1. \A i \in Inodes : lock'[i] = IF lock[i] = c THEN Nobody ELSE lock[i]
  BY DEF Leaves, Closed
<1> QED BY <1>1, Zeros DEF LocksHeld, Leaves, Own, TypeOK

\* Every step of a command leaves each lock with the command that took it.
LEMMA LocksStep ==
    ASSUME TypeOK, TypeOK', LocksHeld, NEW c \in Commands, CommandAction(c)
    PROVE  LocksHeld'
<1>1. CASE Begin(c)
  BY <1>1, OutsideSteps, OutsideLocks
<1>2. CASE Precheck(c)
  BY <1>2, OutsideSteps, OutsideLocks
<1>3. CASE Open(c)
  <2>1. path' \in Inodes
    BY <1>3, FreeInodeType DEF Open, TypeOK
  <2> QED BY <1>3, <2>1, SectionSteps, Zeros DEF LocksHeld, Own, TypeOK
<1>4. CASE Flock(c)
  <2>1. /\ lock[cmd[c].fd] = Nobody /\ cmd[c].fd \in Inodes
        /\ \A i \in Inodes : lock'[i] = IF i = cmd[c].fd THEN c ELSE lock[i]
    BY <1>4 DEF Flock, LocksHeld, TypeOK
  <2> QED BY <1>4, <2>1, SectionSteps, Zeros DEF LocksHeld, Own, TypeOK
<1>5. CASE Recheck(c)
  <2>1. CASE ReadPIDFile # NoPid /\ IsAgentProcess(ReadPIDFile)
    BY <1>5, <2>1, LeavingSteps, LeavingLocks
  <2>2. CASE ~(ReadPIDFile # NoPid /\ IsAgentProcess(ReadPIDFile))
    BY <1>5, <2>2, SectionSteps, Zeros DEF LocksHeld, Own, TypeOK
  <2> QED BY <2>1, <2>2
<1>6. CASE Spawn(c)
  BY <1>6, SectionSteps, Zeros DEF LocksHeld, Own, TypeOK
<1>7. CASE Truncate(c)
  <2>1. path' \in Inodes
    BY <1>7, FreeInodeType DEF Truncate, TypeOK
  <2> QED BY <1>7, <2>1, SectionSteps, Zeros DEF LocksHeld, Own, TypeOK
<1>8. CASE WriteChild(c)
  BY <1>8, LeavingSteps, LeavingLocks
<1>9. CASE StopReads(c)
  BY <1>9, OutsideSteps, OutsideLocks
<1>10. CASE StopTerminates(c)
  BY <1>10, OutsideSteps, OutsideLocks
<1>11. CASE TerminateFails(c)
  BY <1>11, OutsideSteps, OutsideLocks
<1>12. CASE StopSeesExit(c)
  BY <1>12, OutsideSteps, OutsideLocks
<1>13. CASE StopKills(c)
  BY <1>13, OutsideSteps, OutsideLocks
<1>14. CASE Remove(c)
  BY <1>14, OutsideSteps, OutsideLocks
<1>15. CASE StatusReads(c)
  BY <1>15, OutsideSteps, OutsideLocks
<1>16. CASE CleanStalePIDFile(c)
  BY <1>16, OutsideSteps, OutsideLocks
<1>17. CASE UpdateChecks(c)
  BY <1>17, OutsideSteps, OutsideLocks
<1>18. CASE UpdateFails(c)
  BY <1>18, OutsideSteps, OutsideLocks
<1>19. CASE UpdateReplaces(c)
  BY <1>19, OutsideSteps, OutsideLocks
<1>20. CASE UpdateSaves(c)
  BY <1>20, OutsideSteps, OutsideLocks
<1>21. CASE WokenTooEarly(c)
  BY <1>21, LeavingSteps, LeavingLocks
<1>22. CASE SpawnFails(c)
  BY <1>22, LeavingSteps, LeavingLocks
<1>23. CASE Killed(c)
  BY <1>23, LeavingSteps, LeavingLocks
<1> QED BY <1>1, <1>2, <1>3, <1>4, <1>5, <1>6, <1>7, <1>8, <1>9, <1>10, <1>11, <1>12,
          <1>13, <1>14, <1>15, <1>16, <1>17, <1>18, <1>19, <1>20, <1>21, <1>22, <1>23
  DEF CommandAction, CommandStep

\* Every step of a command leaves a path that names nothing without content.
LEMMA PathStep ==
    ASSUME TypeOK, TypeOK', LocksHeld, PathNames, NEW c \in Commands, CommandAction(c)
    PROVE  PathNames'
<1> USE DEF PathNames
<1>1. CASE Begin(c)
  BY <1>1 DEF Begin, fileVars
<1>2. CASE Precheck(c)
  BY <1>2 DEF Precheck, fileVars
<1>3. CASE Open(c)
  <2>1. path' \in Inodes
    BY <1>3, FreeInodeType DEF Open, TypeOK
  <2> QED BY <2>1, Zeros
<1>4. CASE Flock(c)
  BY <1>4 DEF Flock, fileVars
<1>5. CASE Recheck(c)
  BY <1>5 DEF Recheck, fileVars
<1>6. CASE Spawn(c)
  BY <1>6 DEF Spawn, fileVars
<1>7. CASE Truncate(c)
  BY <1>7 DEF Truncate
<1>8. CASE WriteChild(c)
  <2>1. cmd[c].out \in Inodes
    BY <1>8 DEF WriteChild, LocksHeld
  <2> QED BY <1>8, <2>1, Zeros DEF WriteChild
<1>9. CASE StopReads(c)
  BY <1>9 DEF StopReads, fileVars
<1>10. CASE StopTerminates(c)
  BY <1>10 DEF StopTerminates, fileVars
<1>11. CASE TerminateFails(c)
  BY <1>11 DEF TerminateFails, fileVars
<1>12. CASE StopSeesExit(c)
  BY <1>12 DEF StopSeesExit, fileVars
<1>13. CASE StopKills(c)
  BY <1>13 DEF StopKills, fileVars
<1>14. CASE Remove(c)
  BY <1>14 DEF Remove, RemovePIDFile
<1>15. CASE StatusReads(c)
  BY <1>15 DEF StatusReads, fileVars
<1>16. CASE CleanStalePIDFile(c)
  BY <1>16 DEF CleanStalePIDFile, fileVars
<1>17. CASE UpdateChecks(c)
  BY <1>17 DEF UpdateChecks, fileVars
<1>18. CASE UpdateFails(c)
  BY <1>18 DEF UpdateFails, fileVars
<1>19. CASE UpdateReplaces(c)
  BY <1>19 DEF UpdateReplaces, fileVars
<1>20. CASE UpdateSaves(c)
  BY <1>20 DEF UpdateSaves, fileVars
<1>21. CASE WokenTooEarly(c)
  BY <1>21 DEF WokenTooEarly, fileVars
<1>22. CASE SpawnFails(c)
  BY <1>22 DEF SpawnFails, fileVars
<1>23. CASE Killed(c)
  BY <1>23 DEF Killed, fileVars
<1> QED BY <1>1, <1>2, <1>3, <1>4, <1>5, <1>6, <1>7, <1>8, <1>9, <1>10, <1>11, <1>12,
          <1>13, <1>14, <1>15, <1>16, <1>17, <1>18, <1>19, <1>20, <1>21, <1>22, <1>23
  DEF CommandAction, CommandStep

\* A step that uses no process id keeps one for every command that may still spawn.
LEMMA SpentGrows ==
    ASSUME TypeOK, TypeOK', PidsSuffice, Used' = Used, Spent \subseteq Spent'
    PROVE  PidsSuffice'
<1>1. Spent' \subseteq Commands
  BY DEF Spent
<1>2. IsFiniteSet(Spent')
  BY <1>1, Sizes, FS_Subset
<1>3. Cardinality(Spent) <= Cardinality(Spent') /\ IsFiniteSet(Spent)
  BY <1>2, FS_Subset
<1>4. Used \subseteq Pids
  BY DEF Used
<1>5. IsFiniteSet(Used)
  BY <1>4, Sizes, FS_Subset
<1>6. Cardinality(Spent) \in Nat /\ Cardinality(Spent') \in Nat /\ Cardinality(Used) \in Nat
  BY <1>2, <1>3, <1>5, FS_CardinalityType
<1>7. Cardinality(Used') = Cardinality(Used)
  OBVIOUS
<1> QED BY <1>3, <1>6, <1>7 DEF PidsSuffice

\* Spawn takes a PID, and cannot be repeated.
LEMMA SpawnCounts ==
    ASSUME TypeOK, TypeOK', PidsSuffice, NEW c \in Commands, Spawn(c)
    PROVE  PidsSuffice'
<1> DEFINE p == Min(FreePids)
<1>1. p \in Pids /\ p \notin Used
  BY FreePidType DEF Spawn, Used
<1>2. proc' = [proc EXCEPT ![p].pc = "exec", ![p].ver = exe]
  BY DEF Spawn
<1> HIDE DEF p
<1>3. Used' = Used \cup {p}
  BY <1>1, <1>2 DEF Used, TypeOK, ProcStates
<1>4. Spent' = Spent \cup {c} /\ c \notin Spent
  BY SectionSteps DEF Spent, Own
<1>5. Used \subseteq Pids /\ Spent \subseteq Commands
  BY DEF Used, Spent
<1>6. IsFiniteSet(Used) /\ IsFiniteSet(Spent)
  BY <1>5, Sizes, FS_Subset
<1>7. Cardinality(Used) \in Nat /\ Cardinality(Spent) \in Nat
  BY <1>6, FS_CardinalityType
<1>8. Cardinality(Used') = Cardinality(Used) + 1
  BY <1>1, <1>3, <1>6, FS_AddElement
<1>9. Cardinality(Spent') = Cardinality(Spent) + 1
  BY <1>4, <1>6, FS_AddElement
<1> QED BY <1>7, <1>8, <1>9 DEF PidsSuffice

\* Every step of a command leaves enough process ids.
LEMMA CountStep ==
    ASSUME TypeOK, TypeOK', PidsSuffice, StopsAgent, NEW c \in Commands, CommandAction(c)
    PROVE  PidsSuffice'
<1>1. CASE Spawn(c)
  BY <1>1, SpawnCounts
<1>2. CASE ~Spawn(c)
  <2>1. Used' = Used
    BY <1>2, CommandsAge DEF Aging, NoSpawn, CommandAction, CommandStep
  <2>2. Own(c) /\ (cmd[c].pc \in {"truncate", "write", "done", "failed"}
                   => cmd'[c].pc \in {"truncate", "write", "done", "failed"})
    BY <1>2, OutsideSteps, LeavingSteps, SectionSteps
    DEF CommandAction, CommandStep, Outside, Leaves, FileOpen
  <2>3. Spent \subseteq Spent'
    BY <2>2 DEF Spent, Own
  <2> QED BY <2>1, <2>3, SpentGrows
<1> QED BY <1>1, <1>2

\* A stop only ever signals a process id that some agent had.
LEMMA StopsStep ==
    ASSUME TypeOK, TypeOK', StopsAgent, PidsSuffice, NEW c \in Commands, CommandAction(c)
    PROVE  StopsAgent'
<1>1. Own(c) /\ Used \subseteq Used'
  <2>1. Own(c)
    BY OutsideSteps, LeavingSteps, SectionSteps DEF CommandAction, CommandStep, Outside, Leaves
  <2>2. CASE Spawn(c)
    <3>1. PICK p : proc' = [proc EXCEPT ![p].pc = "exec", ![p].ver = exe]
      BY <2>2 DEF Spawn
    <3>2. Used \subseteq Used'
      BY <3>1 DEF Used, TypeOK, ProcStates
    <3> QED BY <2>1, <3>2
  <2>3. CASE ~Spawn(c)
    BY <2>1, <2>3, CommandsAge DEF Aging, NoSpawn, CommandAction, CommandStep
  <2> QED BY <2>2, <2>3
<1>2. cmd'[c].pc \in {"term", "wait"} => cmd'[c].pid \in Used
  <2>1. CASE StopReads(c)
    <3>1. CASE content = NoPid
      BY <2>1, <3>1, ContinueEffect DEF StopReads, ReadPIDFile
    <3>2. CASE content # NoPid /\ ~IsAgentProcess(content)
      <4>1. cmd' = [cmd EXCEPT ![c].pc = "remove", ![c].pid = content]
        BY <2>1, <3>2 DEF StopReads, ReadPIDFile
      <4> QED BY <4>1 DEF TypeOK, CmdStates
    <3>3. CASE content # NoPid /\ IsAgentProcess(content)
      <4>1. cmd' = [cmd EXCEPT ![c].pc = "term", ![c].pid = content]
        BY <2>1, <3>3 DEF StopReads, ReadPIDFile
      <4>2. content \in Used
        BY <3>3 DEF IsAgentProcess, Alive, Used, TypeOK
      <4> QED BY <4>1, <4>2 DEF TypeOK, CmdStates
    <3> QED BY <3>1, <3>2, <3>3
  <2>2. CASE StopTerminates(c)
    BY <2>2 DEF StopTerminates, StopsAgent, TypeOK, CmdStates
  <2>3. CASE ~StopReads(c) /\ ~StopTerminates(c)
    <3>1. cmd'[c].pc \notin {"term", "wait"}
      <4>1. CASE Begin(c)
        <5>1. \A s \in Scripts : First(s) \notin {"term", "wait"}
          BY SupervisorAssumption DEF First
        <5>2. PICK s \in Scripts : cmd' = [cmd EXCEPT ![c].script = s, ![c].pc = First(s),
                                                      ![c].ver = exe]
          BY <4>1 DEF Begin
        <5>3. cmd'[c].pc = First(s)
          BY <5>2 DEF TypeOK, CmdStates
        <5> QED BY <5>1, <5>3
      <4>2. CASE Precheck(c)
        BY <4>2, ReturnsEffect DEF Precheck, TypeOK, CmdStates
      <4>3. CASE Open(c)
        BY <4>3, SectionSteps
      <4>4. CASE Flock(c)
        BY <4>4, SectionSteps
      <4>5. CASE Recheck(c)
        BY <4>5, SectionSteps, LeavingSteps DEF Leaves
      <4>6. CASE Spawn(c)
        BY <4>6, SectionSteps
      <4>7. CASE Truncate(c)
        BY <4>7, SectionSteps
      <4>8. CASE WriteChild(c)
        BY <4>8, LeavingSteps DEF Leaves
      <4>9. CASE TerminateFails(c)
        BY <4>9, ContinueEffect, ReturnsEffect DEF TerminateFails, TypeOK, CmdStates
      <4>10. CASE StopSeesExit(c)
        BY <4>10, ReturnsEffect DEF StopSeesExit, TypeOK, CmdStates
      <4>11. CASE StopKills(c)
        BY <4>11, ReturnsEffect DEF StopKills, TypeOK, CmdStates
      <4>12. CASE Remove(c)
        BY <4>12, ContinueEffect DEF Remove
      <4>13. CASE StatusReads(c)
        BY <4>13, ReturnsEffect DEF StatusReads, TypeOK, CmdStates
      <4>14. CASE CleanStalePIDFile(c)
        BY <4>14, ReturnsEffect DEF CleanStalePIDFile, TypeOK, CmdStates
      <4>15. CASE UpdateChecks(c)
        BY <4>15, ReturnsEffect DEF UpdateChecks, TypeOK, CmdStates
      <4>16. CASE UpdateFails(c)
        BY <4>16, ReturnsEffect DEF UpdateFails
      <4>17. CASE UpdateReplaces(c)
        BY <4>17, ReturnsEffect DEF UpdateReplaces, TypeOK, CmdStates
      <4>18. CASE UpdateSaves(c)
        BY <4>18, ReturnsEffect DEF UpdateSaves
      <4>19. CASE WokenTooEarly(c)
        BY <4>19, LeavingSteps DEF Leaves
      <4>20. CASE SpawnFails(c)
        BY <4>20, LeavingSteps DEF Leaves
      <4>21. CASE Killed(c)
        BY <4>21, LeavingSteps DEF Leaves
      <4> QED BY <4>1, <4>2, <4>3, <4>4, <4>5, <4>6, <4>7, <4>8, <4>9, <4>10, <4>11, <4>12,
                <4>13, <4>14, <4>15, <4>16, <4>17, <4>18, <4>19, <4>20, <4>21, <2>3
          DEF CommandAction, CommandStep
    <3> QED BY <3>1
  <2> QED BY <2>1, <2>2, <2>3
<1> QED BY <1>1, <1>2 DEF StopsAgent, Own

-----------------------------------------------------------------------------
(* The scripts of an update.                                                 *)

\* Every step of a command keeps an update in the order of its script.
LEMMA ScriptStep ==
    ASSUME TypeOK, TypeOK', UpdateScript, NEW c \in Commands, CommandAction(c)
    PROVE  UpdateScript'
<1> DEFINE Fits(pc, script) ==
      /\ script = "update" => pc \in {"fetch", "stop", "term", "wait", "remove", "replace",
                                      "save", "done", "failed"}
      /\ pc \in {"fetch", "replace", "save"} => script = "update"
<1>0. Own(c)
  BY OutsideSteps, LeavingSteps, SectionSteps DEF CommandAction, CommandStep, Outside, Leaves
<1> SUFFICES Fits(cmd'[c].pc, cmd'[c].script)
  BY <1>0 DEF UpdateScript, Own
<1> USE DEF UpdateScript
<1>1. CASE Begin(c)
  <2>1. \A s \in Scripts : Fits(First(s), s)
    BY SupervisorAssumption DEF First
  <2>2. PICK s \in Scripts : cmd' = [cmd EXCEPT ![c].script = s, ![c].pc = First(s),
                                                ![c].ver = exe]
    BY <1>1 DEF Begin
  <2>3. cmd'[c].pc = First(s) /\ cmd'[c].script = s
    BY <2>2 DEF TypeOK, CmdStates
  <2> QED BY <2>1, <2>3
<1>2. CASE Precheck(c)
  <2>1. CASE cmd' = Returns(c, "done")
    BY <1>2, <2>1, ReturnsEffect
  <2>2. CASE cmd' = [cmd EXCEPT ![c].pc = "open"]
    BY <1>2, <2>2 DEF Precheck, TypeOK, CmdStates
  <2> QED BY <1>2, <2>1, <2>2 DEF Precheck
<1>3. CASE Open(c)
  BY <1>3, SectionSteps
<1>4. CASE Flock(c)
  BY <1>4, SectionSteps
<1>5. CASE Recheck(c)
  BY <1>5, SectionSteps, LeavingSteps DEF Leaves
<1>6. CASE Spawn(c)
  BY <1>6, SectionSteps
<1>7. CASE Truncate(c)
  BY <1>7, SectionSteps
<1>8. CASE WriteChild(c)
  BY <1>8, LeavingSteps DEF Leaves
<1>9. CASE StopReads(c)
  <2>1. CASE content = NoPid
    BY <1>9, <2>1, ContinueEffect DEF StopReads, ReadPIDFile
  <2>2. CASE content # NoPid
    <3>1. PICK pc \in {"remove", "term"} : cmd' = [cmd EXCEPT ![c].pc = pc, ![c].pid = content]
      BY <1>9, <2>2 DEF StopReads, ReadPIDFile
    <3> QED BY <3>1 DEF TypeOK, CmdStates
  <2> QED BY <2>1, <2>2
<1>10. CASE StopTerminates(c)
  BY <1>10 DEF StopTerminates, TypeOK, CmdStates
<1>11. CASE TerminateFails(c)
  <2>1. CASE cmd[c].script = "pair"
    BY <1>11, <2>1 DEF TerminateFails, TypeOK, CmdStates
  <2>2. CASE cmd[c].script # "pair"
    BY <1>11, <2>2, ContinueEffect, ReturnsEffect DEF TerminateFails
  <2> QED BY <2>1, <2>2
<1>12. CASE StopSeesExit(c)
  BY <1>12 DEF StopSeesExit, TypeOK, CmdStates
<1>13. CASE StopKills(c)
  BY <1>13 DEF StopKills, TypeOK, CmdStates
<1>14. CASE Remove(c)
  BY <1>14, ContinueEffect DEF Remove
<1>15. CASE StatusReads(c)
  <2>1. CASE cmd' = Returns(c, "done")
    BY <1>15, <2>1, ReturnsEffect
  <2>2. CASE cmd' # Returns(c, "done")
    <3>1. PICK pc \in {"remove", "clean"} : cmd' = [cmd EXCEPT ![c].pc = pc]
      BY <1>15, <2>2 DEF StatusReads
    <3>2. cmd[c].script # "update"
      BY <1>15 DEF StatusReads
    <3> QED BY <3>1, <3>2 DEF TypeOK, CmdStates
  <2> QED BY <2>1, <2>2
<1>16. CASE CleanStalePIDFile(c)
  <2>1. CASE cmd' = Returns(c, "done")
    BY <1>16, <2>1, ReturnsEffect
  <2>2. CASE cmd' = [cmd EXCEPT ![c].pc = "remove"]
    BY <1>16, <2>2 DEF CleanStalePIDFile, TypeOK, CmdStates
  <2> QED BY <1>16, <2>1, <2>2 DEF CleanStalePIDFile
<1>17. CASE UpdateChecks(c)
  <2>1. CASE cmd' = Returns(c, "done")
    BY <1>17, <2>1, ReturnsEffect
  <2>2. CASE cmd' = [cmd EXCEPT ![c].pc = "stop"]
    BY <1>17, <2>2 DEF UpdateChecks, TypeOK, CmdStates
  <2> QED BY <1>17, <2>1, <2>2 DEF UpdateChecks
<1>18. CASE UpdateFails(c)
  BY <1>18, ReturnsEffect DEF UpdateFails
<1>19. CASE UpdateReplaces(c)
  BY <1>19 DEF UpdateReplaces, TypeOK, CmdStates
<1>20. CASE UpdateSaves(c)
  BY <1>20, ReturnsEffect DEF UpdateSaves
<1>21. CASE WokenTooEarly(c)
  BY <1>21, LeavingSteps DEF Leaves
<1>22. CASE SpawnFails(c)
  BY <1>22, LeavingSteps DEF Leaves
<1>23. CASE Killed(c)
  BY <1>23, LeavingSteps DEF Leaves
<1> QED BY <1>1, <1>2, <1>3, <1>4, <1>5, <1>6, <1>7, <1>8, <1>9, <1>10, <1>11, <1>12,
          <1>13, <1>14, <1>15, <1>16, <1>17, <1>18, <1>19, <1>20, <1>21, <1>22, <1>23
  DEF CommandAction, CommandStep

-----------------------------------------------------------------------------
(* One agent in charge.                                                      *)

\* A step that leaves the PID file, the commands that are spawning and the agents in
\* charge alone, or ends one of these.
Tame ==
    /\ content' = content
    /\ path # NoInode => path' = path
    /\ \A p \in Pids : InCharge(p)' => InCharge(p)
    /\ \A b \in Commands :
         (cmd[b].pc \in {"truncate", "write"} \/ Spawning(b)') => cmd'[b] = cmd[b]

\* A tame step keeps the exclusion.
LEMMA TameKeeps ==
    ASSUME TypeOK, LocksHeld, Exclusive, Tame
    PROVE  Exclusive'
<1>1. OneSpawner'
  <2> SUFFICES ASSUME NEW c \in Commands, Spawning(c)'
               PROVE  /\ \A b \in Commands : Spawning(b)' => b = c
                      /\ \A p \in Pids : InCharge(p)' => /\ cmd'[c].pc \in {"truncate", "write"}
                                                         /\ cmd'[c].pid = p
    BY DEF OneSpawner, Spawning
  <2>1. \A b \in Commands : Spawning(b)' => cmd'[b] = cmd[b] /\ Spawning(b)
    BY DEF Tame, Spawning
  <2> QED BY <2>1 DEF Exclusive, OneSpawner, Tame
<1>2. OneInCharge'
  BY DEF Exclusive, OneInCharge, Tame
<1>3. FileNamesAgent'
  <2> SUFFICES ASSUME NEW p \in Pids, InCharge(p)', content' # p
               PROVE  \E c \in Commands : /\ cmd'[c].pid = p
                                          /\ \/ cmd'[c].pc = "truncate"
                                             \/ cmd'[c].pc = "write" /\ cmd'[c].out = path'
    BY DEF FileNamesAgent
  <2>1. PICK c \in Commands : /\ cmd[c].pid = p
                              /\ \/ cmd[c].pc = "truncate"
                                 \/ cmd[c].pc = "write" /\ cmd[c].out = path
    BY DEF Tame, Exclusive, FileNamesAgent
  <2>2. cmd'[c] = cmd[c] /\ (cmd[c].pc = "write" => path' = path)
    BY <2>1, Zeros DEF Tame, LocksHeld
  <2> QED BY <2>1, <2>2
<1> QED BY <1>1, <1>2, <1>3 DEF Exclusive

\* A step outside the PID file that writes nothing is tame.
LEMMA OutsideTame ==
    ASSUME TypeOK, NEW c \in Commands, Outside(c), Aging, content' = content, path' = path
    PROVE  Tame
BY DEF Tame, Outside, Own, FileOpen, Aging, Spawning

\* So is closing the file before it was truncated.
LEMMA LeavingTame ==
    ASSUME TypeOK, NEW c \in Commands, Leaves(c), Aging, content' = content, path' = path,
           cmd[c].pc \notin {"truncate", "write"}
    PROVE  Tame
BY DEF Tame, Leaves, Own, Aging, Spawning

\* A removal that was not a race took nothing that an agent in charge needs.
LEMMA RemoveKeeps ==
    ASSUME TypeOK, LocksHeld, PathNames, Exclusive, RemovePIDFile, ~raced', Aging,
           \A b \in Commands :
             (cmd[b].pc \in {"truncate", "write"} \/ Spawning(b)') => cmd'[b] = cmd[b]
    PROVE  Exclusive'
<1>1. path # NoInode =>
        /\ ~(content # NoPid /\ InCharge(content))
        /\ \A c \in Commands : cmd[c].pc # "write"
  BY DEF RemovePIDFile
<1>2. \A p \in Pids : InCharge(p) =>
        content # p /\ \E c \in Commands : cmd[c].pc = "truncate" /\ cmd[c].pid = p
  <2> SUFFICES ASSUME NEW p \in Pids, InCharge(p)
               PROVE  content # p /\ \E c \in Commands : cmd[c].pc = "truncate" /\ cmd[c].pid = p
    OBVIOUS
  <2>1. content # p
    BY <1>1, Zeros DEF PathNames
  <2>2. PICK c \in Commands : /\ cmd[c].pid = p
                              /\ \/ cmd[c].pc = "truncate"
                                 \/ cmd[c].pc = "write" /\ cmd[c].out = path
    BY <2>1 DEF Exclusive, FileNamesAgent
  <2>3. cmd[c].pc = "truncate"
    BY <1>1, <2>2, Zeros DEF LocksHeld
  <2> QED BY <2>1, <2>2, <2>3
<1>3. \A p \in Pids : InCharge(p)' => InCharge(p)
  BY DEF Aging
<1>4. OneSpawner'
  <2>1. \A b \in Commands : Spawning(b)' => cmd'[b] = cmd[b] /\ Spawning(b)
    BY DEF Spawning
  <2> QED BY <1>3, <2>1 DEF Exclusive, OneSpawner
<1>5. OneInCharge'
  BY <1>3 DEF Exclusive, OneInCharge
<1>6. FileNamesAgent'
  BY <1>2, <1>3 DEF FileNamesAgent
<1> QED BY <1>4, <1>5, <1>6 DEF Exclusive

\* Under the lock, and with nobody past the check under another, the PID file names
\* the agent in charge; the command that goes on to spawn has seen that there is none.
LEMMA RecheckKeeps ==
    ASSUME TypeOK, LocksHeld, Exclusive, NEW c \in Commands, Recheck(c), ~raced',
           ~(ReadPIDFile # NoPid /\ IsAgentProcess(ReadPIDFile))
    PROVE  Exclusive'
<1>1. /\ Own(c) /\ cmd[c].pc = "check" /\ cmd'[c].pc = "fork"
      /\ proc' = proc
  BY SectionSteps DEF Recheck
<1>2. \A b \in Commands : Spawning(b) => cmd[b].fd = cmd[c].fd
  BY DEF Recheck
<1>3. \A b \in Commands : ~Spawning(b)
  BY <1>1, <1>2 DEF LocksHeld, Spawning
<1>4. \A p \in Pids : ~InCharge(p)
  <2> SUFFICES ASSUME NEW p \in Pids, InCharge(p) PROVE FALSE
    OBVIOUS
  <2>1. content = p
    BY <1>3 DEF Exclusive, FileNamesAgent, Spawning
  <2> QED BY <2>1, Zeros DEF ReadPIDFile, IsAgentProcess, Alive, InCharge, Running
<1>5. \A p \in Pids : ~InCharge(p)'
  BY <1>1, <1>4 DEF InCharge, Running
<1>6. \A b \in Commands : Spawning(b)' => b = c
  BY <1>1, <1>3 DEF Spawning, Own
<1> QED BY <1>5, <1>6 DEF Exclusive, OneSpawner, OneInCharge, FileNamesAgent

\* The command that decided to spawn is the only one, so its child is alone.
LEMMA SpawnKeeps ==
    ASSUME TypeOK, Exclusive, NEW c \in Commands, Spawn(c)
    PROVE  Exclusive'
<1> DEFINE p == Min(FreePids)
<1>1. /\ Own(c) /\ cmd[c].pc = "fork" /\ cmd'[c].pc = "truncate" /\ cmd'[c].pid = p
      /\ proc' = [proc EXCEPT ![p].pc = "exec", ![p].ver = exe]
  BY SectionSteps DEF Spawn
<1> HIDE DEF p
<1>2. /\ \A b \in Commands : Spawning(b) => b = c
      /\ \A q \in Pids : ~InCharge(q)
  BY <1>1 DEF Exclusive, OneSpawner, Spawning
<1>3. \A q \in Pids : InCharge(q)' => q = p
  BY <1>1, <1>2 DEF InCharge, Running, TypeOK
<1>4. \A b \in Commands : Spawning(b)' => b = c
  BY <1>1, <1>2 DEF Spawning, Own
<1> QED BY <1>1, <1>3, <1>4 DEF Exclusive, OneSpawner, OneInCharge, FileNamesAgent

\* Emptying the file under the lock leaves the spawner alone.
LEMMA TruncateKeeps ==
    ASSUME TypeOK, Exclusive, NEW c \in Commands, Truncate(c)
    PROVE  Exclusive'
<1>1. /\ Own(c) /\ cmd[c].pc = "truncate" /\ cmd'[c].pc = "write"
      /\ cmd'[c].pid = cmd[c].pid /\ cmd'[c].out = path' /\ proc' = proc
  BY SectionSteps DEF Truncate
<1>2. /\ \A b \in Commands : Spawning(b) => b = c
      /\ \A q \in Pids : InCharge(q) => cmd[c].pid = q
  BY <1>1 DEF Exclusive, OneSpawner, Spawning
<1>3. \A q \in Pids : InCharge(q)' => cmd'[c].pid = q
  BY <1>1, <1>2 DEF InCharge, Running
<1>4. \A b \in Commands : Spawning(b)' => b = c
  BY <1>1, <1>2 DEF Spawning, Own
<1> QED BY <1>1, <1>3, <1>4 DEF Exclusive, OneSpawner, OneInCharge, FileNamesAgent

\* Writing the child's id makes the file name the agent in charge.
LEMMA WriteKeeps ==
    ASSUME TypeOK, Exclusive, NEW c \in Commands, WriteChild(c)
    PROVE  Exclusive'
<1>1. /\ Own(c) /\ cmd[c].pc = "write" /\ cmd'[c].pc \in {"done", "failed"}
      /\ content' = IF cmd[c].out = path THEN cmd[c].pid ELSE content
      /\ proc' = proc
  BY LeavingSteps DEF WriteChild, Leaves
<1>2. /\ \A b \in Commands : Spawning(b) => b = c
      /\ \A q \in Pids : InCharge(q) => cmd[c].pid = q
  BY <1>1 DEF Exclusive, OneSpawner, Spawning
<1>3. \A q \in Pids : InCharge(q)' => InCharge(q)
  BY <1>1 DEF InCharge, Running
<1>4. \A q \in Pids : InCharge(q) => content' = q
  <2> SUFFICES ASSUME NEW q \in Pids, InCharge(q), cmd[c].out # path PROVE content = q
    BY <1>1, <1>2
  <2>1. \A b \in Commands : b # c => cmd[b].pc \notin {"truncate", "write"}
    BY <1>2 DEF Spawning
  <2> QED BY <1>1, <2>1 DEF Exclusive, FileNamesAgent
<1>5. \A b \in Commands : ~Spawning(b)'
  BY <1>1, <1>2 DEF Spawning, Own
<1> QED BY <1>2, <1>3, <1>4, <1>5 DEF Exclusive, OneSpawner, OneInCharge, FileNamesAgent

\* Without a race every step of a command keeps the exclusion.
LEMMA ExclusiveStep ==
    ASSUME TypeOK, LocksHeld, PathNames, StopsAgent, ~raced => Exclusive,
           NEW c \in Commands, CommandAction(c), ~raced'
    PROVE  Exclusive'
<1>1. NoSpawn(c) => Aging
  BY CommandsAge
<1>2. CASE Begin(c)
  <2>1. content' = content /\ path' = path /\ raced' = raced
    BY <1>2 DEF Begin, fileVars, pastVars
  <2> QED BY <1>2, <2>1, <1>1, OutsideSteps, OutsideTame, TameKeeps DEF NoSpawn
<1>3. CASE Precheck(c)
  <2>1. content' = content /\ path' = path /\ raced' = raced
    BY <1>3 DEF Precheck, fileVars, pastVars
  <2> QED BY <1>3, <2>1, <1>1, OutsideSteps, OutsideTame, TameKeeps DEF NoSpawn
<1>4. CASE Open(c)
  <2>1. content' = content /\ raced' = raced /\ (path # NoInode => path' = path) /\ proc' = proc
    BY <1>4 DEF Open, pastVars
  <2>2. Tame
    BY <1>4, <2>1, SectionSteps DEF Tame, Own, Spawning, InCharge, Running
  <2> QED BY <2>1, <2>2, TameKeeps
<1>5. CASE Flock(c)
  <2>1. content' = content /\ raced' = raced /\ path' = path /\ proc' = proc
    BY <1>5 DEF Flock, pastVars
  <2>2. Tame
    BY <1>5, <2>1, SectionSteps DEF Tame, Own, Spawning, InCharge, Running
  <2> QED BY <2>1, <2>2, TameKeeps
<1>6. CASE Recheck(c)
  <2>1. CASE ReadPIDFile # NoPid /\ IsAgentProcess(ReadPIDFile)
    <3>1. /\ content' = content /\ path' = path /\ raced' = raced
          /\ cmd[c].pc \notin {"truncate", "write"}
      BY <1>6, <2>1 DEF Recheck
    <3> QED BY <1>6, <2>1, <3>1, <1>1, LeavingSteps, LeavingTame, TameKeeps DEF NoSpawn
  <2>2. CASE ~(ReadPIDFile # NoPid /\ IsAgentProcess(ReadPIDFile))
    <3>1. ~raced
      BY <1>6, <2>2 DEF Recheck
    <3> QED BY <1>6, <2>2, <3>1, RecheckKeeps
  <2> QED BY <2>1, <2>2
<1>7. CASE Spawn(c)
  <2>1. raced' = raced
    BY <1>7 DEF Spawn
  <2> QED BY <1>7, <2>1, SpawnKeeps
<1>8. CASE Truncate(c)
  <2>1. raced' = raced
    BY <1>8 DEF Truncate, pastVars
  <2> QED BY <1>8, <2>1, TruncateKeeps
<1>9. CASE WriteChild(c)
  <2>1. raced' = raced
    BY <1>9 DEF WriteChild, pastVars
  <2> QED BY <1>9, <2>1, WriteKeeps
<1>10. CASE StopReads(c)
  <2>1. content' = content /\ path' = path /\ raced' = raced
    BY <1>10 DEF StopReads, fileVars, pastVars
  <2> QED BY <1>10, <2>1, <1>1, OutsideSteps, OutsideTame, TameKeeps DEF NoSpawn
<1>11. CASE StopTerminates(c)
  <2>1. content' = content /\ path' = path /\ raced' = raced
    BY <1>11 DEF StopTerminates, fileVars, pastVars
  <2> QED BY <1>11, <2>1, <1>1, OutsideSteps, OutsideTame, TameKeeps DEF NoSpawn
<1>12. CASE TerminateFails(c)
  <2>1. content' = content /\ path' = path /\ raced' = raced
    BY <1>12 DEF TerminateFails, fileVars, pastVars
  <2> QED BY <1>12, <2>1, <1>1, OutsideSteps, OutsideTame, TameKeeps DEF NoSpawn
<1>13. CASE StopSeesExit(c)
  <2>1. content' = content /\ path' = path /\ raced' = raced
    BY <1>13 DEF StopSeesExit, fileVars, pastVars
  <2> QED BY <1>13, <2>1, <1>1, OutsideSteps, OutsideTame, TameKeeps DEF NoSpawn
<1>14. CASE StopKills(c)
  <2>1. content' = content /\ path' = path /\ raced' = raced
    BY <1>14 DEF StopKills, fileVars, pastVars
  <2> QED BY <1>14, <2>1, <1>1, OutsideSteps, OutsideTame, TameKeeps DEF NoSpawn
<1>15. CASE Remove(c)
  <2>1. ~raced /\ RemovePIDFile
    BY <1>15 DEF Remove, RemovePIDFile
  <2>2. Outside(c)
    BY <1>15, OutsideSteps
  <2>3. \A b \in Commands :
          (cmd[b].pc \in {"truncate", "write"} \/ Spawning(b)') => cmd'[b] = cmd[b]
    BY <2>2 DEF Outside, Own, FileOpen, Spawning
  <2> QED BY <1>15, <1>1, <2>1, <2>3, RemoveKeeps DEF NoSpawn
<1>16. CASE StatusReads(c)
  <2>1. content' = content /\ path' = path /\ raced' = raced
    BY <1>16 DEF StatusReads, fileVars, pastVars
  <2> QED BY <1>16, <2>1, <1>1, OutsideSteps, OutsideTame, TameKeeps DEF NoSpawn
<1>17. CASE CleanStalePIDFile(c)
  <2>1. content' = content /\ path' = path /\ raced' = raced
    BY <1>17 DEF CleanStalePIDFile, fileVars, pastVars
  <2> QED BY <1>17, <2>1, <1>1, OutsideSteps, OutsideTame, TameKeeps DEF NoSpawn
<1>18. CASE UpdateChecks(c)
  <2>1. content' = content /\ path' = path /\ raced' = raced
    BY <1>18 DEF UpdateChecks, fileVars, pastVars
  <2> QED BY <1>18, <2>1, <1>1, OutsideSteps, OutsideTame, TameKeeps DEF NoSpawn
<1>19. CASE UpdateFails(c)
  <2>1. content' = content /\ path' = path /\ raced' = raced
    BY <1>19 DEF UpdateFails, fileVars, pastVars
  <2> QED BY <1>19, <2>1, <1>1, OutsideSteps, OutsideTame, TameKeeps DEF NoSpawn
<1>20. CASE UpdateReplaces(c)
  <2>1. content' = content /\ path' = path /\ raced' = raced
    BY <1>20 DEF UpdateReplaces, fileVars, pastVars
  <2> QED BY <1>20, <2>1, <1>1, OutsideSteps, OutsideTame, TameKeeps DEF NoSpawn
<1>21. CASE UpdateSaves(c)
  <2>1. content' = content /\ path' = path /\ raced' = raced
    BY <1>21 DEF UpdateSaves, fileVars, pastVars
  <2> QED BY <1>21, <2>1, <1>1, OutsideSteps, OutsideTame, TameKeeps DEF NoSpawn
<1>22. CASE WokenTooEarly(c)
  <2>1. /\ content' = content /\ path' = path /\ raced' = raced
        /\ cmd[c].pc \notin {"truncate", "write"}
    BY <1>22 DEF WokenTooEarly
  <2> QED BY <1>22, <2>1, <1>1, LeavingSteps, LeavingTame, TameKeeps DEF NoSpawn
<1>23. CASE SpawnFails(c)
  <2>1. /\ content' = content /\ path' = path /\ raced' = raced
        /\ cmd[c].pc \notin {"truncate", "write"}
    BY <1>23 DEF SpawnFails
  <2> QED BY <1>23, <2>1, <1>1, LeavingSteps, LeavingTame, TameKeeps DEF NoSpawn
<1>24. CASE Killed(c)
  <2>1. /\ content' = content /\ path' = path /\ ~raced
        /\ cmd[c].pc \notin {"truncate", "write"}
    BY <1>24 DEF Killed
  <2> QED BY <1>24, <2>1, <1>1, LeavingSteps, LeavingTame, TameKeeps DEF NoSpawn
<1> QED BY <1>2, <1>3, <1>4, <1>5, <1>6, <1>7, <1>8, <1>9, <1>10, <1>11, <1>12,
          <1>13, <1>14, <1>15, <1>16, <1>17, <1>18, <1>19, <1>20, <1>21, <1>22,
          <1>23, <1>24
  DEF CommandAction, CommandStep

\* So does every step of an agent.
LEMMA AgentExclusiveStep ==
    ASSUME TypeOK, LocksHeld, PathNames, ~raced => Exclusive,
           NEW p \in Pids, AgentAction(p), ~raced'
    PROVE  Exclusive'
<1>1. Aging /\ cmd' = cmd
  BY AgentsAge DEF AgentAction, AgentWritesPID, AgentReturns, AgentExits, AgentChecks,
                   AgentInitFails, AgentCrashes
<1>2. \A b \in Commands :
        (cmd[b].pc \in {"truncate", "write"} \/ Spawning(b)') => cmd'[b] = cmd[b]
  BY <1>1
<1>3. CASE AgentWritesPID(p)
  <2>1. content' = p /\ InCharge(p) /\ ~raced
    BY <1>3 DEF AgentWritesPID, InCharge, pastVars
  <2>2. \A q \in Pids : InCharge(q)' => InCharge(q) /\ q = p
    BY <1>1, <2>1 DEF Aging, Exclusive, OneInCharge
  <2>3. OneSpawner'
    BY <1>1, <2>1, <2>2 DEF Exclusive, OneSpawner, Spawning
  <2> QED BY <2>1, <2>2, <2>3 DEF Exclusive, OneInCharge, FileNamesAgent
<1>4. CASE RemovePIDFile
  <2>1. ~raced
    BY <1>4 DEF RemovePIDFile
  <2> QED BY <1>1, <1>2, <1>4, <2>1, RemoveKeeps
<1>5. CASE content' = content /\ path' = path /\ raced' = raced
  <2>1. Tame
    BY <1>1, <1>2, <1>5 DEF Tame, Aging
  <2> QED BY <1>5, <2>1, TameKeeps
<1> QED BY <1>3, <1>4, <1>5
        DEF AgentAction, AgentReturns, AgentExits, AgentChecks, AgentInitFails, AgentCrashes,
            fileVars, pastVars

-----------------------------------------------------------------------------
(* The update.                                                               *)

\* What was a race stays one.
LEMMA RacedStays ==
    ASSUME TypeOK, NEW c \in Commands, CommandAction(c)
    PROVE  (raced => raced') /\ (mixed => mixed')
<1>1. CASE Begin(c)
  BY <1>1 DEF Begin, pastVars
<1>2. CASE Precheck(c)
  BY <1>2 DEF Precheck, pastVars
<1>3. CASE Open(c)
  BY <1>3 DEF Open, pastVars
<1>4. CASE Flock(c)
  BY <1>4 DEF Flock, pastVars
<1>5. CASE Recheck(c)
  <2>1. CASE ReadPIDFile # NoPid /\ IsAgentProcess(ReadPIDFile)
    BY <1>5, <2>1 DEF Recheck
  <2>2. CASE ~(ReadPIDFile # NoPid /\ IsAgentProcess(ReadPIDFile))
    BY <1>5, <2>2 DEF Recheck
  <2> QED BY <2>1, <2>2
<1>6. CASE Spawn(c)
  BY <1>6 DEF Spawn, pastVars
<1>7. CASE Truncate(c)
  BY <1>7 DEF Truncate, pastVars
<1>8. CASE WriteChild(c)
  BY <1>8 DEF WriteChild, pastVars
<1>9. CASE StopReads(c)
  BY <1>9 DEF StopReads, pastVars
<1>10. CASE StopTerminates(c)
  BY <1>10 DEF StopTerminates, pastVars
<1>11. CASE TerminateFails(c)
  BY <1>11 DEF TerminateFails, pastVars
<1>12. CASE StopSeesExit(c)
  BY <1>12 DEF StopSeesExit, pastVars
<1>13. CASE StopKills(c)
  BY <1>13 DEF StopKills, pastVars
<1>14. CASE Remove(c)
  BY <1>14 DEF Remove, RemovePIDFile
<1>15. CASE StatusReads(c)
  BY <1>15 DEF StatusReads, pastVars
<1>16. CASE CleanStalePIDFile(c)
  BY <1>16 DEF CleanStalePIDFile, pastVars
<1>17. CASE UpdateChecks(c)
  BY <1>17 DEF UpdateChecks, pastVars
<1>18. CASE UpdateFails(c)
  BY <1>18 DEF UpdateFails, pastVars
<1>19. CASE UpdateReplaces(c)
  BY <1>19 DEF UpdateReplaces, pastVars
<1>20. CASE UpdateSaves(c)
  BY <1>20 DEF UpdateSaves, pastVars
<1>21. CASE WokenTooEarly(c)
  BY <1>21 DEF WokenTooEarly, pastVars
<1>22. CASE SpawnFails(c)
  BY <1>22 DEF SpawnFails, pastVars
<1>23. CASE Killed(c)
  BY <1>23 DEF Killed, pastVars
<1> QED BY <1>1, <1>2, <1>3, <1>4, <1>5, <1>6, <1>7, <1>8, <1>9, <1>10, <1>11, <1>12,
          <1>13, <1>14, <1>15, <1>16, <1>17, <1>18, <1>19, <1>20, <1>21, <1>22, <1>23
  DEF CommandAction, CommandStep

\* A command that begins keeps the update's promise, unless the behaviour is mixed.
LEMMA BeginUpdated ==
    ASSUME TypeOK, UpdateScript, Updated, NEW c \in Commands, Begin(c), ~mixed'
    PROVE  Updated'
<1>1. PICK s \in Scripts :
        /\ cmd' = [cmd EXCEPT ![c].script = s, ![c].pc = First(s),
                              ![c].ver = exe]
        /\ mixed' = (mixed \/ /\ s = "update"
                              /\ \E b \in Commands : cmd[b].pc \in {"truncate", "write"})
  BY DEF Begin
<1>2. cmd'[c].script = s /\ cmd'[c].pc = First(s) /\ Own(c) /\ proc' = proc /\ exe' = exe
  BY <1>1 DEF TypeOK, CmdStates, Own, Begin, updateVars
<1>3. First(s) \in {"open", "precheck", "stop", "stat", "fetch"}
  BY SupervisorAssumption DEF First
<1>4. s = "update" => \A b \in Commands : cmd[b].pc \notin {"truncate", "write"}
  BY <1>1
<1>5. Aging
  BY <1>2, Unborn
<1>6. UpdateAlone'
  BY <1>2, <1>3, <1>4 DEF Updated, UpdateAlone, Own, Active
<1>7. UpdateStops'
  <2>1. First("update") = "fetch"
    BY DEF First
  <2> QED BY <1>2, <1>3, <1>5, <2>1 DEF Updated, UpdateStops, Own, Aging
<1>8. NewInCharge'
  BY <1>2, <1>5 DEF Updated, NewInCharge, Aging
<1> QED BY <1>6, <1>7, <1>8 DEF Updated

\* What an update spawns runs the new binary.
LEMMA SpawnUpdated ==
    ASSUME TypeOK, UpdateScript, Updated, NEW c \in Commands, Spawn(c), ~mixed'
    PROVE  Updated'
<1> DEFINE p == Min(FreePids)
<1>1. /\ Own(c) /\ cmd[c].pc = "fork" /\ cmd'[c].pc = "truncate"
      /\ cmd'[c].script = cmd[c].script /\ exe' = exe
      /\ proc' = [proc EXCEPT ![p].pc = "exec", ![p].ver = exe]
  BY SectionSteps DEF Spawn, updateVars
<1> HIDE DEF p
<1>2. \A b \in Commands : ~(cmd[b].script = "update" /\ Active(b))
  BY DEF Spawn
<1>3. \A b \in Commands : cmd'[b].script = "update" => cmd'[b].pc \in {"done", "failed"}
  BY <1>1, <1>2 DEF UpdateScript, Own, Active
<1>4. UpdateAlone' /\ UpdateStops'
  BY <1>3 DEF UpdateAlone, UpdateStops, Active
<1>5. NewInCharge'
  <2> SUFFICES ASSUME exe = New, NEW q \in Pids, InCharge(q)' PROVE proc'[q].ver = New
    BY <1>1 DEF NewInCharge
  <2>1. CASE q = p
    BY <1>1, <2>1 DEF TypeOK, ProcStates
  <2>2. CASE q # p
    BY <1>1, <2>2 DEF TypeOK, ProcStates, Updated, NewInCharge, InCharge, Running
  <2> QED BY <2>1, <2>2
<1> QED BY <1>4, <1>5 DEF Updated

\* A step that starts no update and no agent keeps what holds of the other commands.
LEMMA UpdatedKeeps ==
    ASSUME TypeOK, Updated, Aging, NEW c \in Commands, Own(c),
           cmd'[c].script = cmd[c].script,
           cmd[c].pc \notin {"idle", "done", "failed"},
           cmd'[c].pc \in {"truncate", "write"} => cmd[c].pc \in {"truncate", "write"},
           \A p \in Pids : cmd[c].script = "update" /\ InCharge(p)' =>
             /\ cmd'[c].pc \in {"term", "wait"} => cmd'[c].pid = p
             /\ cmd'[c].pc \notin {"remove", "replace", "save"},
           exe' = New => \/ exe = New
                         \/ \A p \in Pids : ~InCharge(p)
    PROVE  Updated'
<1>1. UpdateAlone'
  BY DEF Updated, UpdateAlone, Own, Active
<1>2. UpdateStops'
  BY DEF Updated, UpdateStops, Own, Aging
<1>3. NewInCharge'
  BY DEF Updated, NewInCharge, Aging
<1> QED BY <1>1, <1>2, <1>3 DEF Updated

\* While an update is at work the PID file names the agent in charge.
LEMMA FileIsRead ==
    ASSUME TypeOK, Exclusive, UpdateAlone, NEW c \in Commands, cmd[c].script = "update",
           Active(c), NEW p \in Pids, InCharge(p)
    PROVE  content = p
BY DEF Exclusive, FileNamesAgent, UpdateAlone

\* An agent in charge is seen by the liveness checks.
LEMMA Lives ==
    ASSUME NEW p, InCharge(p)
    PROVE  IsAgentProcess(p) /\ IsProcessRunning(p)
BY DEF InCharge, Running, IsAgentProcess, IsProcessRunning, Alive

\* Without a race and without other commands every step keeps the update's promise.
LEMMA UpdatedStep ==
    ASSUME TypeOK, UpdateScript, StopsAgent, ~raced /\ ~mixed => Exclusive /\ Updated,
           NEW c \in Commands, CommandAction(c), ~raced', ~mixed'
    PROVE  Updated'
<1>0. Exclusive /\ Updated
  BY RacedStays
<1>1. NoSpawn(c) => Aging
  BY CommandsAge
<1>2. CASE Begin(c)
  BY <1>2, <1>0, BeginUpdated
<1>3. CASE Precheck(c)
  <2>1. /\ Own(c) /\ cmd'[c].script = cmd[c].script /\ cmd[c].script # "update" /\ exe' = exe
        /\ cmd[c].pc \notin {"idle", "done", "failed"}
        /\ cmd'[c].pc \in {"truncate", "write"} => cmd[c].pc \in {"truncate", "write"}
    BY <1>3, OutsideSteps DEF Precheck, Begin, Outside, FileOpen, UpdateScript, updateVars
  <2> QED BY <1>3, <1>0, <1>1, <2>1, UpdatedKeeps DEF NoSpawn
<1>4. CASE Open(c)
  <2>1. /\ Own(c) /\ cmd'[c].script = cmd[c].script /\ cmd[c].script # "update" /\ exe' = exe
        /\ cmd[c].pc \notin {"idle", "done", "failed"}
        /\ cmd'[c].pc \in {"truncate", "write"} => cmd[c].pc \in {"truncate", "write"}
    BY <1>4, SectionSteps DEF Open, UpdateScript, updateVars
  <2> QED BY <1>4, <1>0, <1>1, <2>1, UpdatedKeeps DEF NoSpawn
<1>5. CASE Flock(c)
  <2>1. /\ Own(c) /\ cmd'[c].script = cmd[c].script /\ cmd[c].script # "update" /\ exe' = exe
        /\ cmd[c].pc \notin {"idle", "done", "failed"}
        /\ cmd'[c].pc \in {"truncate", "write"} => cmd[c].pc \in {"truncate", "write"}
    BY <1>5, SectionSteps DEF Flock, UpdateScript, updateVars
  <2> QED BY <1>5, <1>0, <1>1, <2>1, UpdatedKeeps DEF NoSpawn
<1>6. CASE Recheck(c)
  <2>1. CASE ReadPIDFile # NoPid /\ IsAgentProcess(ReadPIDFile)
    <3>1. Leaves(c) /\ exe' = exe
      BY <1>6, <2>1, LeavingSteps DEF Recheck, updateVars
    <3> QED BY <1>6, <1>0, <1>1, <3>1, UpdatedKeeps DEF NoSpawn, Leaves
  <2>2. CASE ~(ReadPIDFile # NoPid /\ IsAgentProcess(ReadPIDFile))
    <3>1. /\ Own(c) /\ cmd'[c].script = cmd[c].script /\ cmd[c].script # "update" /\ exe' = exe
          /\ cmd[c].pc = "check" /\ cmd'[c].pc = "fork"
      BY <1>6, <2>2, SectionSteps DEF Recheck, UpdateScript, updateVars
    <3> QED BY <1>6, <1>0, <1>1, <3>1, UpdatedKeeps DEF NoSpawn
  <2> QED BY <2>1, <2>2
<1>7. CASE Spawn(c)
  BY <1>7, <1>0, SpawnUpdated
<1>8. CASE Truncate(c)
  <2>1. /\ Own(c) /\ cmd'[c].script = cmd[c].script /\ cmd[c].script # "update" /\ exe' = exe
        /\ cmd[c].pc \notin {"idle", "done", "failed"}
        /\ cmd'[c].pc \in {"truncate", "write"} => cmd[c].pc \in {"truncate", "write"}
    BY <1>8, SectionSteps DEF Truncate, UpdateScript, updateVars
  <2> QED BY <1>8, <1>0, <1>1, <2>1, UpdatedKeeps DEF NoSpawn
<1>9. CASE WriteChild(c)
  <2>1. Leaves(c) /\ exe' = exe
    BY <1>9, LeavingSteps DEF WriteChild, updateVars
  <2> QED BY <1>9, <1>0, <1>1, <2>1, UpdatedKeeps DEF NoSpawn, Leaves
<1>10. CASE StopReads(c)
  <2>1. /\ Outside(c) /\ cmd'[c].script = cmd[c].script /\ exe' = exe
        /\ cmd[c].pc = "stop"
    BY <1>10, OutsideSteps DEF StopReads, Begin, updateVars
  <2>2. ASSUME NEW p \in Pids, cmd[c].script = "update", InCharge(p)'
        PROVE  /\ cmd'[c].pc \in {"term", "wait"} => cmd'[c].pid = p
               /\ cmd'[c].pc \notin {"remove", "replace", "save"}
    <3>1. InCharge(p)
      BY <1>10, <1>1, <2>2 DEF Aging, NoSpawn
    <3>2. content = p
      BY <1>0, <2>1, <2>2, <3>1, FileIsRead DEF Updated, Active
    <3>3. IsAgentProcess(p) /\ p # NoPid
      BY <3>1, Lives, Zeros
    <3>4. cmd' = [cmd EXCEPT ![c].pc = "term", ![c].pid = p]
      BY <1>10, <3>2, <3>3 DEF StopReads, ReadPIDFile
    <3> QED BY <3>4 DEF TypeOK, CmdStates
  <2> QED BY <1>10, <1>0, <1>1, <2>1, <2>2, UpdatedKeeps DEF NoSpawn, Outside, FileOpen
<1>11. CASE StopTerminates(c)
  <2>1. /\ Outside(c) /\ cmd'[c].script = cmd[c].script /\ exe' = exe
        /\ cmd[c].pc = "term"
    BY <1>11, OutsideSteps DEF StopTerminates, Begin, updateVars
  <2>2. ASSUME NEW p \in Pids, cmd[c].script = "update", InCharge(p)'
        PROVE  /\ cmd'[c].pc \in {"term", "wait"} => cmd'[c].pid = p
               /\ cmd'[c].pc \notin {"remove", "replace", "save"}
    <3>1. InCharge(p)
      BY <1>11, <1>1, <2>2 DEF Aging, NoSpawn
    <3>2. cmd[c].pid = p
      BY <1>0, <2>1, <2>2, <3>1 DEF Updated, UpdateStops
    <3> QED BY <1>11, <3>2 DEF StopTerminates, TypeOK, CmdStates
  <2> QED BY <1>11, <1>0, <1>1, <2>1, <2>2, UpdatedKeeps DEF NoSpawn, Outside, FileOpen
<1>12. CASE TerminateFails(c)
  <2>1. /\ Outside(c) /\ cmd'[c].script = cmd[c].script /\ exe' = exe
        /\ cmd[c].pc = "term"
    BY <1>12, OutsideSteps DEF TerminateFails, Begin, updateVars
  <2>2. ASSUME NEW p \in Pids, cmd[c].script = "update", InCharge(p)'
        PROVE  /\ cmd'[c].pc \in {"term", "wait"} => cmd'[c].pid = p
               /\ cmd'[c].pc \notin {"remove", "replace", "save"}
    <3>1. InCharge(p)
      BY <1>12, <1>1, <2>2 DEF Aging, NoSpawn
    <3>2. cmd[c].pid = p
      BY <1>0, <2>1, <2>2, <3>1 DEF Updated, UpdateStops
    <3> QED BY <1>12, <3>1, <3>2, Lives DEF TerminateFails
  <2> QED BY <1>12, <1>0, <1>1, <2>1, <2>2, UpdatedKeeps DEF NoSpawn, Outside, FileOpen
<1>13. CASE StopSeesExit(c)
  <2>1. /\ Outside(c) /\ cmd'[c].script = cmd[c].script /\ exe' = exe
        /\ cmd[c].pc = "wait"
    BY <1>13, OutsideSteps DEF StopSeesExit, Begin, updateVars
  <2>2. ASSUME NEW p \in Pids, cmd[c].script = "update", InCharge(p)'
        PROVE  /\ cmd'[c].pc \in {"term", "wait"} => cmd'[c].pid = p
               /\ cmd'[c].pc \notin {"remove", "replace", "save"}
    <3>1. InCharge(p)
      BY <1>13, <1>1, <2>2 DEF Aging, NoSpawn
    <3>2. cmd[c].pid = p
      BY <1>0, <2>1, <2>2, <3>1 DEF Updated, UpdateStops
    <3> QED BY <1>13, <3>1, <3>2, Lives DEF StopSeesExit
  <2> QED BY <1>13, <1>0, <1>1, <2>1, <2>2, UpdatedKeeps DEF NoSpawn, Outside, FileOpen
<1>14. CASE StopKills(c)
  <2>1. /\ Outside(c) /\ cmd'[c].script = cmd[c].script /\ exe' = exe
        /\ cmd[c].pc = "wait"
    BY <1>14, OutsideSteps DEF StopKills, Begin, updateVars
  <2>2. ASSUME NEW p \in Pids, cmd[c].script = "update", InCharge(p)'
        PROVE  /\ cmd'[c].pc \in {"term", "wait"} => cmd'[c].pid = p
               /\ cmd'[c].pc \notin {"remove", "replace", "save"}
    <3>1. InCharge(p)
      BY <1>14, <1>1, <2>2 DEF Aging, NoSpawn
    <3>2. cmd[c].pid = p
      BY <1>0, <2>1, <2>2, <3>1 DEF Updated, UpdateStops
    <3>3. proc'[p] = Dead
      BY <1>14, <3>2 DEF StopKills, TypeOK
    <3> QED BY <2>2, <3>3 DEF InCharge, Running, Dead, NoProc
  <2> QED BY <1>14, <1>0, <1>1, <2>1, <2>2, UpdatedKeeps DEF NoSpawn, Outside, FileOpen
<1>15. CASE Remove(c)
  <2>1. /\ Outside(c) /\ cmd'[c].script = cmd[c].script /\ exe' = exe
        /\ cmd[c].pc = "remove"
    BY <1>15, OutsideSteps DEF Remove, Begin, updateVars
  <2>2. ASSUME NEW p \in Pids, cmd[c].script = "update", InCharge(p)'
        PROVE  /\ cmd'[c].pc \in {"term", "wait"} => cmd'[c].pid = p
               /\ cmd'[c].pc \notin {"remove", "replace", "save"}
    <3>1. InCharge(p)
      BY <1>15, <1>1, <2>2 DEF Aging, NoSpawn
    <3> QED BY <1>0, <2>1, <2>2, <3>1 DEF Updated, UpdateStops
  <2> QED BY <1>15, <1>0, <1>1, <2>1, <2>2, UpdatedKeeps DEF NoSpawn, Outside, FileOpen
<1>16. CASE StatusReads(c)
  <2>1. /\ Own(c) /\ cmd'[c].script = cmd[c].script /\ cmd[c].script # "update" /\ exe' = exe
        /\ cmd[c].pc \notin {"idle", "done", "failed"}
        /\ cmd'[c].pc \in {"truncate", "write"} => cmd[c].pc \in {"truncate", "write"}
    BY <1>16, OutsideSteps DEF StatusReads, Begin, Outside, FileOpen, UpdateScript, updateVars
  <2> QED BY <1>16, <1>0, <1>1, <2>1, UpdatedKeeps DEF NoSpawn
<1>17. CASE CleanStalePIDFile(c)
  <2>1. /\ Own(c) /\ cmd'[c].script = cmd[c].script /\ cmd[c].script # "update" /\ exe' = exe
        /\ cmd[c].pc \notin {"idle", "done", "failed"}
        /\ cmd'[c].pc \in {"truncate", "write"} => cmd[c].pc \in {"truncate", "write"}
    BY <1>17, OutsideSteps
    DEF CleanStalePIDFile, Begin, Outside, FileOpen, UpdateScript, updateVars
  <2> QED BY <1>17, <1>0, <1>1, <2>1, UpdatedKeeps DEF NoSpawn
<1>18. CASE UpdateChecks(c)
  <2>1. /\ Outside(c) /\ cmd'[c].script = cmd[c].script /\ exe' = exe
        /\ cmd[c].pc = "fetch"
    BY <1>18, OutsideSteps DEF UpdateChecks, Begin, updateVars
  <2>2. ASSUME NEW p \in Pids, cmd[c].script = "update", InCharge(p)'
        PROVE  /\ cmd'[c].pc \in {"term", "wait"} => cmd'[c].pid = p
               /\ cmd'[c].pc \notin {"remove", "replace", "save"}
    <3>1. CASE cmd' = Returns(c, "done")
      BY <3>1, ReturnsEffect
    <3>2. CASE cmd' = [cmd EXCEPT ![c].pc = "stop"]
      BY <3>2 DEF TypeOK, CmdStates
    <3> QED BY <1>18, <3>1, <3>2 DEF UpdateChecks
  <2> QED BY <1>18, <1>0, <1>1, <2>1, <2>2, UpdatedKeeps DEF NoSpawn, Outside, FileOpen
<1>19. CASE UpdateFails(c)
  <2>1. /\ Outside(c) /\ cmd'[c].script = cmd[c].script /\ exe' = exe
        /\ cmd[c].pc \in {"fetch", "replace"} /\ cmd'[c].pc = "failed"
    BY <1>19, OutsideSteps, ReturnsEffect DEF UpdateFails, Begin, updateVars
  <2> QED BY <1>19, <1>0, <1>1, <2>1, UpdatedKeeps DEF NoSpawn, Outside
<1>20. CASE UpdateReplaces(c)
  <2>1. /\ Outside(c) /\ cmd'[c].script = cmd[c].script
        /\ cmd[c].pc = "replace" /\ cmd[c].script = "update"
    BY <1>20, OutsideSteps DEF UpdateReplaces, Begin, UpdateScript
  <2>2. \A p \in Pids : ~InCharge(p)
    BY <1>0, <2>1 DEF Updated, UpdateStops
  <2>3. \A p \in Pids : ~InCharge(p)'
    BY <1>20, <1>1, <2>2 DEF Aging, NoSpawn
  <2> QED BY <1>20, <1>0, <1>1, <2>1, <2>2, <2>3, UpdatedKeeps DEF NoSpawn, Outside, FileOpen
<1>21. CASE UpdateSaves(c)
  <2>1. /\ Outside(c) /\ cmd'[c].script = cmd[c].script /\ exe' = exe
        /\ cmd[c].pc = "save" /\ cmd'[c].pc = "done"
    BY <1>21, OutsideSteps, ReturnsEffect DEF UpdateSaves, Begin
  <2> QED BY <1>21, <1>0, <1>1, <2>1, UpdatedKeeps DEF NoSpawn, Outside
<1>22. CASE WokenTooEarly(c)
  <2>1. Leaves(c) /\ exe' = exe
    BY <1>22, LeavingSteps DEF WokenTooEarly, updateVars
  <2> QED BY <1>22, <1>0, <1>1, <2>1, UpdatedKeeps DEF NoSpawn, Leaves
<1>23. CASE SpawnFails(c)
  <2>1. Leaves(c) /\ exe' = exe
    BY <1>23, LeavingSteps DEF SpawnFails, updateVars
  <2> QED BY <1>23, <1>0, <1>1, <2>1, UpdatedKeeps DEF NoSpawn, Leaves
<1>24. CASE Killed(c)
  <2>1. Leaves(c) /\ exe' = exe
    BY <1>24, LeavingSteps DEF Killed, updateVars
  <2> QED BY <1>24, <1>0, <1>1, <2>1, UpdatedKeeps DEF NoSpawn, Leaves
<1> QED BY <1>2, <1>3, <1>4, <1>5, <1>6, <1>7, <1>8, <1>9, <1>10, <1>11, <1>12,
          <1>13, <1>14, <1>15, <1>16, <1>17, <1>18, <1>19, <1>20, <1>21, <1>22,
          <1>23, <1>24
  DEF CommandAction, CommandStep

\* No step makes the state file of the new version announce an update.
LEMMA HonestStep ==
    ASSUME TypeOK, TypeOK', StateHonest, Next
    PROVE  StateHonest'
<1>1. \A v \in {Old, New} : Checked(v).available => Checked(v).by = Old
  <2> SUFFICES ASSUME NEW v \in {Old, New}, Checked(v).available PROVE v = Old
    BY DEF Checked
  <2>1. Checked(v).available = (v < Release)
    BY DEF Checked
  <2>2. v < Release
    BY <2>1, Zenon
  <2> QED BY <2>2 DEF Release, Old, New
<1>2. CASE state' = state
  BY <1>2 DEF StateHonest
<1>3. CASE \E v \in {Old, New} : state' = Checked(v)
  BY <1>1, <1>3 DEF StateHonest
<1>4. CASE \E c \in Commands : UpdateSaves(c)
  BY <1>4 DEF UpdateSaves, StateHonest
<1>5. ASSUME NEW c \in Commands, CommandAction(c)
      PROVE  \/ state' = state
             \/ \E v \in {Old, New} : state' = Checked(v)
             \/ UpdateSaves(c)
  <2>1. cmd[c].ver \in {Old, New}
    BY DEF TypeOK, CmdStates
  <2>2. CASE UpdateChecks(c)
    BY <2>1, <2>2 DEF UpdateChecks
  <2>3. CASE NoSpawn(c) /\ ~UpdateChecks(c) /\ ~UpdateSaves(c)
    BY <2>3 DEF NoSpawn, Begin, Precheck, Open, Flock, Recheck, Truncate, WriteChild, StopReads,
                StopTerminates, TerminateFails, StopSeesExit, StopKills, Remove, StatusReads,
                CleanStalePIDFile, UpdateFails, UpdateReplaces, WokenTooEarly, SpawnFails,
                Killed, updateVars
  <2>4. CASE Spawn(c)
    BY <2>4 DEF Spawn, updateVars
  <2> QED BY <1>5, <2>2, <2>3, <2>4 DEF CommandAction, CommandStep, NoSpawn
<1>6. ASSUME NEW p \in Pids, AgentAction(p)
      PROVE  \/ state' = state
             \/ \E v \in {Old, New} : state' = Checked(v)
  <2>1. proc[p].ver \in {Old, New}
    BY DEF TypeOK, ProcStates
  <2>2. CASE AgentChecks(p)
    BY <2>1, <2>2 DEF AgentChecks
  <2> QED BY <1>6, <2>2 DEF AgentAction, AgentWritesPID, AgentReturns, AgentExits,
                            AgentInitFails, AgentCrashes, updateVars
<1> QED BY <1>2, <1>3, <1>4, <1>5, <1>6 DEF Next, CommandAction, AgentAction

-----------------------------------------------------------------------------
(* The theorems.                                                             *)

\* The initial states satisfy the invariant.
LEMMA InitInv ==
    ASSUME Init
    PROVE  IInv
<1>1. PICK first \in {"none", "up", "dead", "stranger"} :
        /\ proc = [p \in Pids |-> IF p = 1 THEN [NoProc EXCEPT !.pc = first] ELSE NoProc]
        /\ path = IF first = "none" THEN NoInode ELSE 1
        /\ content = IF first = "none" THEN NoPid ELSE 1
  BY DEF Init
<1>2. 1 \in Pids /\ 1 \in Inodes
  BY SupervisorAssumption DEF Pids, Inodes
<1>3. TypeOK
  <2>1. proc \in [Pids -> ProcStates]
    BY <1>1 DEF ProcStates, NoProc
  <2>2. cmd \in [Commands -> CmdStates]
    BY DEF Init, Waiting, CmdStates
  <2>3. path \in Inodes \cup {NoInode} /\ content \in Pids \cup {NoPid}
    BY <1>1, <1>2
  <2>4. state \in [by : {Old, New}, available : BOOLEAN] /\ exe \in {Old, New}
    BY DEF Init
  <2>5. lock \in [Inodes -> Commands \cup {Nobody}] /\ faults \in 0..MaxFaults
    BY SupervisorAssumption DEF Init
  <2>6. raced \in BOOLEAN /\ mixed \in BOOLEAN
    BY DEF Init
  <2> QED BY <2>1, <2>2, <2>3, <2>4, <2>5, <2>6 DEF TypeOK
<1>4. \A c \in Commands : cmd[c].pc = "idle" /\ cmd[c].script = "none"
  BY DEF Init, Waiting
<1>5. LocksHeld /\ UpdateScript /\ StopsAgent
  BY <1>4 DEF Init, LocksHeld, UpdateScript, StopsAgent
<1>6. PathNames
  BY <1>1, <1>2, Zeros DEF PathNames
<1>7. PidsSuffice
  <2>1. Used \subseteq {1}
    BY <1>1 DEF Used, NoProc
  <2>2. IsFiniteSet({1}) /\ Cardinality({1}) = 1
    BY FS_Singleton
  <2>3. IsFiniteSet(Used) /\ Cardinality(Used) <= 1
    BY <2>1, <2>2, FS_Subset
  <2>4. Spent = {}
    BY <1>4 DEF Spent
  <2>5. Cardinality(Spent) = 0
    BY <2>4, FS_EmptySet
  <2>6. Cardinality(Used) \in Nat
    BY <2>3, FS_CardinalityType
  <2> QED BY <2>3, <2>5, <2>6 DEF PidsSuffice
<1>8. \A p \in Pids : InCharge(p) => p = 1 /\ content = 1
  BY <1>1 DEF InCharge, Running, NoProc
<1>9. Exclusive
  BY <1>4, <1>8 DEF Exclusive, OneSpawner, OneInCharge, FileNamesAgent, Spawning
<1>10. Updated
  BY <1>4 DEF Updated, UpdateAlone, UpdateStops, NewInCharge, Init, Old, New
<1>11. StateHonest
  BY DEF Init, StateHonest
<1> QED BY <1>3, <1>5, <1>6, <1>7, <1>9, <1>10, <1>11 DEF IInv

\* Every step of a command keeps the invariant.
LEMMA CommandInv ==
    ASSUME IInv, NEW c \in Commands, CommandAction(c)
    PROVE  IInv'
<1>1. /\ TypeOK /\ LocksHeld /\ PathNames /\ PidsSuffice /\ StopsAgent /\ UpdateScript
      /\ StateHonest /\ (~raced => Exclusive) /\ (~raced /\ ~mixed => Updated)
  BY DEF IInv
<1>2. TypeOK'
  BY <1>1, CommandTypes
<1>3. LocksHeld' /\ PathNames' /\ PidsSuffice' /\ StopsAgent' /\ UpdateScript'
  BY <1>1, <1>2, LocksStep, PathStep, CountStep, StopsStep, ScriptStep
<1>4. ~raced' => Exclusive'
  BY <1>1, ExclusiveStep
<1>5. ~raced' /\ ~mixed' => Updated'
  BY <1>1, UpdatedStep
<1>6. StateHonest'
  BY <1>1, <1>2, HonestStep DEF Next, CommandAction
<1> QED BY <1>2, <1>3, <1>4, <1>5, <1>6 DEF IInv

\* So does every step of an agent.
LEMMA AgentInv ==
    ASSUME IInv, NEW p \in Pids, AgentAction(p)
    PROVE  IInv'
<1>1. /\ TypeOK /\ LocksHeld /\ PathNames /\ PidsSuffice /\ StopsAgent /\ UpdateScript
      /\ StateHonest /\ (~raced => Exclusive) /\ (~raced /\ ~mixed => Updated)
  BY DEF IInv
<1>2. TypeOK'
  BY <1>1, AgentTypes
<1>3. cmd' = cmd /\ lock' = lock /\ exe' = exe /\ mixed' = mixed /\ (raced => raced')
  <2>1. RemovePIDFile => (raced => raced')
    BY DEF RemovePIDFile
  <2> QED BY <2>1 DEF AgentAction, AgentWritesPID, AgentReturns, AgentExits, AgentChecks,
                      AgentInitFails, AgentCrashes, fileVars, updateVars, pastVars
<1>4. Aging
  BY <1>1, AgentsAge
<1>5. LocksHeld' /\ UpdateScript' /\ StopsAgent'
  BY <1>1, <1>3, <1>4 DEF LocksHeld, UpdateScript, StopsAgent, Aging
<1>6. PathNames'
  <2>1. CASE AgentWritesPID(p)
    BY <1>1, <2>1, FreeInodeType, Zeros DEF AgentWritesPID, PathNames
  <2>2. CASE RemovePIDFile
    BY <2>2 DEF RemovePIDFile, PathNames
  <2>3. CASE path' = path /\ content' = content
    BY <1>1, <2>3 DEF PathNames
  <2> QED BY <2>1, <2>2, <2>3
          DEF AgentAction, AgentReturns, AgentExits, AgentChecks, AgentInitFails, AgentCrashes,
              fileVars
<1>7. PidsSuffice'
  <2>1. Spent' = Spent
    BY <1>3 DEF Spent
  <2> QED BY <1>1, <1>2, <1>4, <2>1, SpentGrows DEF Aging
<1>8. ~raced' => Exclusive'
  BY <1>1, AgentExclusiveStep
<1>9. ~raced' /\ ~mixed' => Updated'
  <2> SUFFICES ASSUME ~raced', ~mixed' PROVE Updated'
    OBVIOUS
  <2>1. Updated
    BY <1>1, <1>3
  <2> QED BY <1>3, <1>4, <2>1
          DEF Updated, UpdateAlone, UpdateStops, NewInCharge, Aging, Active
<1>10. StateHonest'
  BY <1>1, <1>2, HonestStep DEF Next, AgentAction
<1> QED BY <1>2, <1>5, <1>6, <1>7, <1>8, <1>9, <1>10 DEF IInv

\* Every reachable state satisfies the inductive invariant.
THEOREM Invariance == Spec => []IInv
<1>1. Init => IInv
  BY InitInv
<1>2. IInv /\ [Next]_vars => IInv'
  <2> SUFFICES ASSUME IInv, [Next]_vars PROVE IInv'
    OBVIOUS
  <2>1. CASE Next
    BY <2>1, CommandInv, AgentInv DEF Next, CommandAction, AgentAction
  <2>2. CASE UNCHANGED vars
    BY <2>2 DEF vars, IInv, TypeOK, LocksHeld, PathNames, PidsSuffice, StopsAgent, UpdateScript,
                Exclusive, OneSpawner, OneInCharge, FileNamesAgent, Updated, UpdateAlone,
                UpdateStops, NewInCharge, StateHonest, Used, Spent, InCharge, Running,
                Spawning, Active
  <2> QED BY <2>1, <2>2
<1> QED BY <1>1, <1>2, PTL DEF Spec

\* Type correctness; with it, every rename and O_CREATE finds an inode and every spawn a
\* PID, for any number of commands: the model's finite supplies never run out.
THEOREM TypeCorrect == Spec => []TypeOK
<1>1. IInv => TypeOK
  BY DEF IInv
<1> QED BY <1>1, Invariance, PTL

\* What the flock of EnsureRunning gives, for any number of commands and faults: two
\* agents run only after a removal of the PID file at the wrong moment, a command killed
\* while it wrote the file, or two commands that locked different inodes of the path.
THEOREM FlockSuffices == Spec => []DuplicateNeedsRace
<1>1. IInv => DuplicateNeedsRace
  <2> SUFFICES ASSUME IInv, ~raced PROVE AtMostOneAgent
    BY DEF DuplicateNeedsRace
  <2>1. \A p, q \in RunningAgents : p = q
    BY DEF IInv, Exclusive, OneInCharge, RunningAgents, InCharge
  <2>2. CASE RunningAgents = {}
    BY <2>2, FS_EmptySet DEF AtMostOneAgent
  <2>3. CASE RunningAgents # {}
    <3>1. PICK p : p \in RunningAgents
      BY <2>3
    <3>2. RunningAgents = {p}
      BY <2>1, <3>1
    <3>3. Cardinality(RunningAgents) = 1
      BY <3>2, FS_Singleton
    <3> QED BY <3>3 DEF AtMostOneAgent
  <2> QED BY <2>2, <2>3
<1> QED BY <1>1, Invariance, PTL

\* PrintBannerIfAvailable shows the banner only where a newer release exists: IsStale
\* refuses the state file that another version wrote, before an update or after it.
THEOREM BannerIsTrue == Spec => []BannerTruthful
<1>1. IInv => BannerTruthful
  BY DEF IInv, TypeOK, StateHonest, BannerTruthful, ShowsBanner, Release, Old, New
<1> QED BY <1>1, Invariance, PTL

\* handleUpdate stops the agent before it replaces the executable: once it has saved the
\* state, every agent that runs is a new one, unless a command started one meanwhile.
THEOREM UpdateLeavesNew == Spec => []UpdateTakesEffect
<1>1. IInv => UpdateTakesEffect
  <2> SUFFICES ASSUME IInv, exe = New, ~mixed, ~raced, NEW p \in RunningAgents
               PROVE  proc[p].ver = New
    BY DEF UpdateTakesEffect
  <2> QED BY DEF IInv, Updated, NewInCharge, RunningAgents, InCharge
<1> QED BY <1>1, Invariance, PTL

=============================================================================
