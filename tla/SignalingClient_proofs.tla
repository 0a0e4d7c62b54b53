------------------------ MODULE SignalingClient_proofs ------------------------
(***************************************************************************)
(* Safety of the signaling client, in every interleaving of Run with the    *)
(* sleep watcher, the signals and the token refresh loops.                  *)
(***************************************************************************)
EXTENDS SignalingClient, TLAPS

\* sc.conn is set exactly while a connection is served or being cleaned up, and
\* from the dial on there is a socket behind it.
ConnIsServed ==
    /\ conn <=> pc \in {"serve", "ending"}
    /\ pc \in {"auth", "publish", "serve", "ending"} => sock # "none"

\* A token that counts as fresh, or that an attempt is about to present, has not
\* been rejected.
FreshIsGood ==
    /\ fresh => jwt # "rejected"
    /\ pc = "dial" => jwt # "rejected"

\* After a wake-up the failure window has not begun.
WokenIsZero == woken => failureStart = "zero"

Promises ==
    /\ ConnIsServed
    /\ FreshIsGood
    /\ WokenIsZero
    /\ SuspendedIsOffline
    /\ NoLostWakeup
    /\ RejectedNotReused

\* The inductive invariant.
IInv == TypeOK /\ Promises

\* The invariant holds initially.
LEMMA InitIInv == Init => IInv
BY DEF Init, IInv, TypeOK, FlagTypes, StateTypes, Connecting, Promises, ConnIsServed,
       FreshIsGood, WokenIsZero, SuspendedIsOffline, NoLostWakeup, RejectedNotReused

\* The waits of Run keep it.
LEMMA RunLoopIInv == ASSUME IInv, RunLoop PROVE IInv'
<1> USE DEF IInv, TypeOK, sleepVars, tokenVars, sockVars
<1>1. CASE Top
  <2>1. FlagTypes'
    BY <1>1, Zenon DEF FlagTypes, Top
  <2>2. StateTypes'
    BY <1>1 DEF StateTypes, Connecting, Top
  <2>3. Promises'
    BY <1>1 DEF FlagTypes, StateTypes, Promises, ConnIsServed, FreshIsGood,
           WokenIsZero, SuspendedIsOffline, NoLostWakeup, RejectedNotReused, Top
  <2> QED
    BY <2>1, <2>2, <2>3
<1>2. CASE DormantWake
  <2>1. FlagTypes'
    BY <1>2, Zenon DEF FlagTypes, DormantWake, Wake
  <2>2. StateTypes'
    BY <1>2 DEF StateTypes, Connecting, DormantWake, Wake
  <2>3. Promises'
    BY <1>2 DEF FlagTypes, StateTypes, Promises, ConnIsServed, FreshIsGood,
           WokenIsZero, SuspendedIsOffline, NoLostWakeup, RejectedNotReused, DormantWake, Wake
  <2> QED
    BY <2>1, <2>2, <2>3
<1>3. CASE CheckSuspended
  <2>1. FlagTypes'
    BY <1>3, Zenon DEF FlagTypes, CheckSuspended
  <2>2. StateTypes'
    BY <1>3 DEF StateTypes, Connecting, CheckSuspended
  <2>3. Promises'
    BY <1>3 DEF FlagTypes, StateTypes, Promises, ConnIsServed, FreshIsGood,
           WokenIsZero, SuspendedIsOffline, NoLostWakeup, RejectedNotReused, CheckSuspended
  <2> QED
    BY <2>1, <2>2, <2>3
<1>4. CASE AsleepWake
  <2>1. FlagTypes'
    BY <1>4, Zenon DEF FlagTypes, AsleepWake, Wake
  <2>2. StateTypes'
    BY <1>4 DEF StateTypes, Connecting, AsleepWake, Wake
  <2>3. Promises'
    BY <1>4 DEF FlagTypes, StateTypes, Promises, ConnIsServed, FreshIsGood,
           WokenIsZero, SuspendedIsOffline, NoLostWakeup, RejectedNotReused, AsleepWake, Wake
  <2> QED
    BY <2>1, <2>2, <2>3
<1>5. CASE BackoffWake
  <2>1. FlagTypes'
    BY <1>5, Zenon DEF FlagTypes, BackoffWake, Wake
  <2>2. StateTypes'
    BY <1>5 DEF StateTypes, Connecting, BackoffWake, Wake
  <2>3. Promises'
    BY <1>5 DEF FlagTypes, StateTypes, Promises, ConnIsServed, FreshIsGood,
           WokenIsZero, SuspendedIsOffline, NoLostWakeup, RejectedNotReused, BackoffWake, Wake
  <2> QED
    BY <2>1, <2>2, <2>3
<1>6. CASE BackoffElapses
  <2>1. FlagTypes'
    BY <1>6, Zenon DEF FlagTypes, BackoffElapses
  <2>2. StateTypes'
    BY <1>6 DEF StateTypes, Connecting, BackoffElapses
  <2>3. Promises'
    BY <1>6 DEF FlagTypes, StateTypes, Promises, ConnIsServed, FreshIsGood,
           WokenIsZero, SuspendedIsOffline, NoLostWakeup, RejectedNotReused, BackoffElapses
  <2> QED
    BY <2>1, <2>2, <2>3
<1>7. CASE AttemptFailed
  <2>1. FlagTypes'
    BY <1>7, Zenon DEF FlagTypes, AttemptFailed
  <2>2. StateTypes'
    BY <1>7 DEF StateTypes, Connecting, AttemptFailed
  <2>3. Promises'
    BY <1>7 DEF FlagTypes, StateTypes, Promises, ConnIsServed, FreshIsGood,
           WokenIsZero, SuspendedIsOffline, NoLostWakeup, RejectedNotReused, AttemptFailed
  <2> QED
    BY <2>1, <2>2, <2>3
<1> QED
  BY <1>1, <1>2, <1>3, <1>4, <1>5, <1>6, <1>7 DEF RunLoop

\* The steps of a connection attempt keep it.
LEMMA AttemptIInv == ASSUME IInv, Attempt PROVE IInv'
<1> USE DEF IInv, TypeOK, sleepVars, tokenVars, sockVars
<1>1. CASE CachedToken
  <2>1. FlagTypes'
    BY <1>1, Zenon DEF FlagTypes, CachedToken
  <2>2. StateTypes'
    BY <1>1 DEF StateTypes, Connecting, CachedToken
  <2>3. Promises'
    BY <1>1 DEF FlagTypes, StateTypes, Promises, ConnIsServed, FreshIsGood,
           WokenIsZero, SuspendedIsOffline, NoLostWakeup, RejectedNotReused, CachedToken
  <2> QED
    BY <2>1, <2>2, <2>3
<1>2. CASE ExchangeToken
  <2>1. FlagTypes'
    BY <1>2, Zenon DEF FlagTypes, ExchangeToken, StoreToken
  <2>2. StateTypes'
    BY <1>2 DEF StateTypes, Connecting, ExchangeToken, StoreToken
  <2>3. Promises'
    BY <1>2 DEF FlagTypes, StateTypes, Promises, ConnIsServed, FreshIsGood,
           WokenIsZero, SuspendedIsOffline, NoLostWakeup, RejectedNotReused, ExchangeToken, StoreToken
  <2> QED
    BY <2>1, <2>2, <2>3
<1>3. CASE AttemptFails
  <2>1. FlagTypes'
    BY <1>3, Zenon DEF FlagTypes, AttemptFails
  <2>2. StateTypes'
    BY <1>3 DEF StateTypes, Connecting, AttemptFails
  <2>3. Promises'
    BY <1>3 DEF FlagTypes, StateTypes, Promises, ConnIsServed, FreshIsGood,
           WokenIsZero, SuspendedIsOffline, NoLostWakeup, RejectedNotReused, AttemptFails
  <2> QED
    BY <2>1, <2>2, <2>3
<1>4. CASE HMACRejected
  <2>1. FlagTypes'
    BY <1>4, Zenon DEF FlagTypes, HMACRejected
  <2>2. StateTypes'
    BY <1>4 DEF StateTypes, Connecting, HMACRejected
  <2>3. Promises'
    BY <1>4 DEF FlagTypes, StateTypes, Promises, ConnIsServed, FreshIsGood,
           WokenIsZero, SuspendedIsOffline, NoLostWakeup, RejectedNotReused, HMACRejected
  <2> QED
    BY <2>1, <2>2, <2>3
<1>5. CASE Dial
  <2>1. FlagTypes'
    BY <1>5, Zenon DEF FlagTypes, Dial
  <2>2. StateTypes'
    BY <1>5 DEF StateTypes, Connecting, Dial
  <2>3. Promises'
    BY <1>5 DEF FlagTypes, StateTypes, Promises, ConnIsServed, FreshIsGood,
           WokenIsZero, SuspendedIsOffline, NoLostWakeup, RejectedNotReused, Dial
  <2> QED
    BY <2>1, <2>2, <2>3
<1>6. CASE AuthAccepted
  <2>1. FlagTypes'
    BY <1>6, Zenon DEF FlagTypes, AuthAccepted
  <2>2. StateTypes'
    BY <1>6 DEF StateTypes, Connecting, AuthAccepted
  <2>3. Promises'
    BY <1>6 DEF FlagTypes, StateTypes, Promises, ConnIsServed, FreshIsGood,
           WokenIsZero, SuspendedIsOffline, NoLostWakeup, RejectedNotReused, AuthAccepted
  <2> QED
    BY <2>1, <2>2, <2>3
<1>7. CASE AuthRejected
  <2>1. FlagTypes'
    BY <1>7, Zenon DEF FlagTypes, AuthRejected
  <2>2. StateTypes'
    BY <1>7 DEF StateTypes, Connecting, AuthRejected
  <2>3. Promises'
    BY <1>7 DEF FlagTypes, StateTypes, Promises, ConnIsServed, FreshIsGood,
           WokenIsZero, SuspendedIsOffline, NoLostWakeup, RejectedNotReused, AuthRejected
  <2> QED
    BY <2>1, <2>2, <2>3
<1>8. CASE Publish
  <2>1. FlagTypes'
    BY <1>8, Zenon DEF FlagTypes, Publish
  <2>2. StateTypes'
    BY <1>8 DEF StateTypes, Connecting, Publish
  <2>3. Promises'
    BY <1>8 DEF FlagTypes, StateTypes, Promises, ConnIsServed, FreshIsGood,
           WokenIsZero, SuspendedIsOffline, NoLostWakeup, RejectedNotReused, Publish
  <2> QED
    BY <2>1, <2>2, <2>3
<1>9. CASE ReadFails
  <2>1. FlagTypes'
    BY <1>9, Zenon DEF FlagTypes, ReadFails
  <2>2. StateTypes'
    BY <1>9 DEF StateTypes, Connecting, ReadFails
  <2>3. Promises'
    BY <1>9 DEF FlagTypes, StateTypes, Promises, ConnIsServed, FreshIsGood,
           WokenIsZero, SuspendedIsOffline, NoLostWakeup, RejectedNotReused, ReadFails
  <2> QED
    BY <2>1, <2>2, <2>3
<1>10. CASE Unpublish
  <2>1. FlagTypes'
    BY <1>10, Zenon DEF FlagTypes, Unpublish
  <2>2. StateTypes'
    BY <1>10 DEF StateTypes, Connecting, Unpublish
  <2>3. Promises'
    BY <1>10 DEF FlagTypes, StateTypes, Promises, ConnIsServed, FreshIsGood,
           WokenIsZero, SuspendedIsOffline, NoLostWakeup, RejectedNotReused, Unpublish
  <2> QED
    BY <2>1, <2>2, <2>3
<1> QED
  BY <1>1, <1>2, <1>3, <1>4, <1>5, <1>6, <1>7, <1>8, <1>9, <1>10 DEF Attempt

\* So do the network, the refresh loops and the calls of other goroutines.
LEMMA EnvironmentIInv == ASSUME IInv, Environment PROVE IInv'
<1> USE DEF IInv, TypeOK, sleepVars, tokenVars, sockVars
<1>1. CASE FailuresAge
  <2>1. FlagTypes'
    BY <1>1, Zenon DEF FlagTypes, FailuresAge
  <2>2. StateTypes'
    BY <1>1 DEF StateTypes, Connecting, FailuresAge
  <2>3. Promises'
    BY <1>1 DEF FlagTypes, StateTypes, Promises, ConnIsServed, FreshIsGood,
           WokenIsZero, SuspendedIsOffline, NoLostWakeup, RejectedNotReused, FailuresAge
  <2> QED
    BY <2>1, <2>2, <2>3
<1>2. CASE StaysUp
  <2>1. FlagTypes'
    BY <1>2, Zenon DEF FlagTypes, StaysUp
  <2>2. StateTypes'
    BY <1>2 DEF StateTypes, Connecting, StaysUp
  <2>3. Promises'
    BY <1>2 DEF FlagTypes, StateTypes, Promises, ConnIsServed, FreshIsGood,
           WokenIsZero, SuspendedIsOffline, NoLostWakeup, RejectedNotReused, StaysUp
  <2> QED
    BY <2>1, <2>2, <2>3
<1>3. CASE NetworkDrops
  <2>1. FlagTypes'
    BY <1>3, Zenon DEF FlagTypes, NetworkDrops
  <2>2. StateTypes'
    BY <1>3 DEF StateTypes, Connecting, NetworkDrops
  <2>3. Promises'
    BY <1>3 DEF FlagTypes, StateTypes, Promises, ConnIsServed, FreshIsGood,
           WokenIsZero, SuspendedIsOffline, NoLostWakeup, RejectedNotReused, NetworkDrops
  <2> QED
    BY <2>1, <2>2, <2>3
<1>4. CASE TokenAges
  <2>1. FlagTypes'
    BY <1>4, Zenon DEF FlagTypes, TokenAges
  <2>2. StateTypes'
    BY <1>4 DEF StateTypes, Connecting, TokenAges
  <2>3. Promises'
    BY <1>4 DEF FlagTypes, StateTypes, Promises, ConnIsServed, FreshIsGood,
           WokenIsZero, SuspendedIsOffline, NoLostWakeup, RejectedNotReused, TokenAges
  <2> QED
    BY <2>1, <2>2, <2>3
<1>5. CASE RefreshBegins
  <2>1. FlagTypes'
    BY <1>5, Zenon DEF FlagTypes, RefreshBegins
  <2>2. StateTypes'
    BY <1>5 DEF StateTypes, Connecting, RefreshBegins
  <2>3. Promises'
    BY <1>5 DEF FlagTypes, StateTypes, Promises, ConnIsServed, FreshIsGood,
           WokenIsZero, SuspendedIsOffline, NoLostWakeup, RejectedNotReused, RefreshBegins
  <2> QED
    BY <2>1, <2>2, <2>3
<1>6. CASE RefreshEnds
  <2>1. FlagTypes'
    BY <1>6, Zenon DEF FlagTypes, RefreshEnds, StoreToken
  <2>2. StateTypes'
    BY <1>6 DEF StateTypes, Connecting, RefreshEnds, StoreToken
  <2>3. Promises'
    BY <1>6 DEF FlagTypes, StateTypes, Promises, ConnIsServed, FreshIsGood,
           WokenIsZero, SuspendedIsOffline, NoLostWakeup, RejectedNotReused, RefreshEnds, StoreToken
  <2> QED
    BY <2>1, <2>2, <2>3
<1>7. CASE SignalActivity
  <2>1. FlagTypes'
    BY <1>7, Zenon DEF FlagTypes, SignalActivity
  <2>2. StateTypes'
    BY <1>7 DEF StateTypes, Connecting, SignalActivity
  <2>3. Promises'
    BY <1>7 DEF FlagTypes, StateTypes, Promises, ConnIsServed, FreshIsGood,
           WokenIsZero, SuspendedIsOffline, NoLostWakeup, RejectedNotReused, SignalActivity
  <2> QED
    BY <2>1, <2>2, <2>3
<1>8. CASE Suspend
  <2>1. FlagTypes'
    BY <1>8, Zenon DEF FlagTypes, Suspend
  <2>2. StateTypes'
    BY <1>8 DEF StateTypes, Connecting, Suspend
  <2>3. Promises'
    BY <1>8 DEF FlagTypes, StateTypes, Promises, ConnIsServed, FreshIsGood,
           WokenIsZero, SuspendedIsOffline, NoLostWakeup, RejectedNotReused, Suspend
  <2> QED
    BY <2>1, <2>2, <2>3
<1>9. CASE Resume
  <2>1. FlagTypes'
    BY <1>9, Zenon DEF FlagTypes, Resume, ResumeClears, ResumeSignals
  <2>2. StateTypes'
    BY <1>9 DEF StateTypes, Connecting, Resume, ResumeClears, ResumeSignals
  <2>3. Promises'
    BY <1>9 DEF FlagTypes, StateTypes, Promises, ConnIsServed, FreshIsGood,
           WokenIsZero, SuspendedIsOffline, NoLostWakeup, RejectedNotReused, Resume, ResumeClears, ResumeSignals
  <2> QED
    BY <2>1, <2>2, <2>3
<1>10. CASE SendFails
  <2>1. FlagTypes'
    BY <1>10, Zenon DEF FlagTypes, SendFails
  <2>2. StateTypes'
    BY <1>10 DEF StateTypes, Connecting, SendFails
  <2>3. Promises'
    BY <1>10 DEF FlagTypes, StateTypes, Promises, ConnIsServed, FreshIsGood,
           WokenIsZero, SuspendedIsOffline, NoLostWakeup, RejectedNotReused, SendFails
  <2> QED
    BY <2>1, <2>2, <2>3
<1>11. CASE Cancel
  <2>1. FlagTypes'
    BY <1>11, Zenon DEF FlagTypes, Cancel
  <2>2. StateTypes'
    BY <1>11 DEF StateTypes, Connecting, Cancel
  <2>3. Promises'
    BY <1>11 DEF FlagTypes, StateTypes, Promises, ConnIsServed, FreshIsGood,
           WokenIsZero, SuspendedIsOffline, NoLostWakeup, RejectedNotReused, Cancel
  <2> QED
    BY <2>1, <2>2, <2>3
<1>12. CASE ReturnCancelled
  <2>1. FlagTypes'
    BY <1>12, Zenon DEF FlagTypes, ReturnCancelled
  <2>2. StateTypes'
    BY <1>12 DEF StateTypes, Connecting, ReturnCancelled
  <2>3. Promises'
    BY <1>12 DEF FlagTypes, StateTypes, Promises, ConnIsServed, FreshIsGood,
           WokenIsZero, SuspendedIsOffline, NoLostWakeup, RejectedNotReused, ReturnCancelled
  <2> QED
    BY <2>1, <2>2, <2>3
<1>13. CASE Close
  <2>1. FlagTypes'
    BY <1>13, Zenon DEF FlagTypes, Close
  <2>2. StateTypes'
    BY <1>13 DEF StateTypes, Connecting, Close
  <2>3. Promises'
    BY <1>13 DEF FlagTypes, StateTypes, Promises, ConnIsServed, FreshIsGood,
           WokenIsZero, SuspendedIsOffline, NoLostWakeup, RejectedNotReused, Close
  <2> QED
    BY <2>1, <2>2, <2>3
<1> QED
  BY <1>1, <1>2, <1>3, <1>4, <1>5, <1>6, <1>7, <1>8, <1>9, <1>10, <1>11, <1>12, <1>13 DEF Environment

\* The inductive invariant of the client.
THEOREM Invariance == Spec => []IInv
<1>1. ASSUME IInv, [Next]_vars PROVE IInv'
  <2>1. CASE Next
    BY <1>1, <2>1, RunLoopIInv, AttemptIInv, EnvironmentIInv DEF Next
  <2>2. CASE UNCHANGED vars
    BY <1>1, <2>2 DEF vars, IInv, TypeOK, FlagTypes, StateTypes, Promises, ConnIsServed,
           FreshIsGood, WokenIsZero, SuspendedIsOffline, NoLostWakeup, RejectedNotReused
  <2> QED
    BY <1>1, <2>1, <2>2
<1> QED
  BY <1>1, InitIInv, PTL DEF Spec

\* While the host sleeps no usable connection is published, however Suspend
\* interleaves with an attempt that is authenticating.
THEOREM OfflineWhileSuspended == Spec => []SuspendedIsOffline
<1>1. IInv => SuspendedIsOffline
  BY DEF IInv, Promises
<1> QED
  BY <1>1, Invariance, PTL

\* Run never waits for a Resume that has already happened.
THEOREM WakeupNotLost == Spec => []NoLostWakeup
<1>1. IInv => NoLostWakeup
  BY DEF IInv, Promises
<1> QED
  BY <1>1, Invariance, PTL

\* A rejected token is not presented again.
THEOREM RejectedTokenDropped == Spec => []RejectedNotReused
<1>1. IInv => RejectedNotReused
  BY DEF IInv, Promises
<1> QED
  BY <1>1, Invariance, PTL

\* The first failure after a wake-up never leads to dormancy.
THEOREM RetryWindowIsFresh == Spec => FreshRetryWindow
<1>1. ASSUME IInv, [Next]_vars PROVE [(dormant' /\ ~dormant) => ~woken]_vars
  <2>1. CASE RunLoop
    BY <1>1, <2>1 DEF RunLoop, Top, DormantWake, CheckSuspended, AsleepWake, BackoffWake,
                      BackoffElapses, AttemptFailed, Wake, IInv, TypeOK, FlagTypes,
                      Promises, WokenIsZero
  <2>2. CASE Attempt \/ Environment
    BY <1>1, <2>2 DEF Attempt, Environment, CachedToken, ExchangeToken, AttemptFails,
           HMACRejected, Dial, AuthAccepted, AuthRejected, Publish, ReadFails, Unpublish,
           FailuresAge, StaysUp, NetworkDrops, TokenAges, RefreshBegins, RefreshEnds,
           SignalActivity, Suspend, Resume, ResumeClears, ResumeSignals, SendFails, Cancel,
           ReturnCancelled, Close, IInv, TypeOK, FlagTypes
  <2> QED
    BY <1>1, <2>1, <2>2 DEF Next, vars
<1> QED
  BY <1>1, Invariance, PTL DEF Spec, FreshRetryWindow

=============================================================================
