--------------------------- MODULE SignalingClient ---------------------------
(***************************************************************************)
(* The signaling client (internal/webrtc/signaling.go): Run's reconnection *)
(* loop with its dormancy and suspend waits, one connection attempt        *)
(* (connectAndServe), the cached JWT and its refresh loop, and the calls   *)
(* other goroutines make on it: SignalActivity (SIGUSR1), Suspend and      *)
(* Resume (the sleep watcher), Send, Close.                                *)
(*                                                                         *)
(* Durations are abstracted to what the code compares them with:           *)
(* failureStart says whether continuous failures are older than            *)
(* DormancyTimeout, stable whether the connection outlived                 *)
(* stableConnectionThreshold, fresh whether the JWT expires beyond         *)
(* TokenRefreshMargin.  A wait of unknown length is a step that may come   *)
(* at any time.                                                            *)
(***************************************************************************)
EXTENDS Naturals

VARIABLES
    pc,            \* where Run is
    cancelled,     \* the context of Run
    closed,        \* SignalingClient.closed
    suspended,     \* SignalingClient.suspended
    resuming,      \* Resume is between clearing suspended and SignalActivity
    dormant,       \* SignalingClient.dormant
    failureStart,  \* "zero", "recent" or "old"
    signal,        \* activitySignal, a channel of capacity one
    sock,          \* the WebSocket of this attempt
    conn,          \* sc.conn is set: Send, Suspend and Close see the socket
    stable,        \* the connection stayed up for stableConnectionThreshold
    jwt,           \* the cached token: none, good, or rejected by the server
    fresh,         \* jwtExpiry is beyond the refresh margin
    presented,     \* the token in the pending authentication
    refresh,       \* tokenRefreshLoop of this connection
    late,          \* an exchange of an ended connection is still in flight
    woken          \* history: no attempt has failed since the last wake-up

vars == <<pc, cancelled, closed, suspended, resuming, dormant, failureStart,
          signal, sock, conn, stable, jwt, fresh, presented, refresh, late, woken>>

sleepVars == <<closed, suspended, resuming>>
tokenVars == <<jwt, fresh, presented, refresh, late>>
sockVars == <<sock, conn, stable>>

\* Run is inside connectAndServe.
Connecting == {"token", "dial", "auth", "publish", "serve", "ending"}

Init ==
    /\ pc = "top"
    /\ cancelled = FALSE
    /\ closed = FALSE
    /\ suspended = FALSE
    /\ resuming = FALSE
    /\ dormant = FALSE
    /\ failureStart = "zero"
    /\ signal = FALSE
    /\ sock = "none"
    /\ conn = FALSE
    /\ stable = FALSE
    /\ jwt = "none"
    /\ fresh = FALSE
    /\ presented = "none"
    /\ refresh = "off"
    /\ late = FALSE
    /\ woken = TRUE

-----------------------------------------------------------------------------
(* The waits of Run.                                                        *)

\* The head of the loop: the dormancy check.
Top ==
    /\ pc = "top"
    /\ pc' = IF cancelled THEN "stopped" ELSE IF dormant THEN "dormant" ELSE "check"
    /\ UNCHANGED <<cancelled, sleepVars, dormant, failureStart, signal, sockVars,
                   tokenVars, woken>>

\* An activity signal is consumed: a wake grants a fresh retry window.
Wake ==
    /\ signal
    /\ signal' = FALSE
    /\ failureStart' = "zero"
    /\ woken' = TRUE

DormantWake ==
    /\ pc = "dormant"
    /\ Wake
    /\ dormant' = FALSE
    /\ pc' = "check"
    /\ UNCHANGED <<cancelled, sleepVars, sockVars, tokenVars>>

\* The suspend check, a second hold of sc.mu.
CheckSuspended ==
    /\ pc = "check"
    /\ pc' = IF suspended THEN "asleep" ELSE "token"
    /\ UNCHANGED <<cancelled, sleepVars, dormant, failureStart, signal, sockVars,
                   tokenVars, woken>>

\* Mutant: the resume does not grant a fresh retry window.
ResumedInOldWindow ==
    /\ pc = "asleep"
    /\ signal
    /\ signal' = FALSE
    /\ woken' = TRUE
    /\ pc' = "top"
    /\ UNCHANGED <<cancelled, sleepVars, dormant, failureStart, sockVars, tokenVars>>

AsleepWake ==
    /\ pc = "asleep"
    /\ Wake
    /\ pc' = "top"
    /\ UNCHANGED <<cancelled, sleepVars, dormant, sockVars, tokenVars>>

BackoffWake ==
    /\ pc = "backoff"
    /\ Wake
    /\ dormant' = FALSE
    /\ pc' = "top"
    /\ UNCHANGED <<cancelled, sleepVars, sockVars, tokenVars>>

BackoffElapses ==
    /\ pc = "backoff"
    /\ pc' = "top"
    /\ UNCHANGED <<cancelled, sleepVars, dormant, failureStart, signal, sockVars,
                   tokenVars, woken>>

\* The bookkeeping after a failed attempt or a lost connection; a cancelled Run
\* has returned before it.
AttemptFailed ==
    /\ pc = "failed"
    /\ ~cancelled
    /\ woken' = FALSE
    /\ IF stable
       THEN /\ failureStart' = "zero"
            /\ pc' = "backoff"
            /\ UNCHANGED dormant
       ELSE /\ failureStart' = IF failureStart = "zero" THEN "recent" ELSE failureStart
            /\ dormant' = (dormant \/ failureStart = "old")
            /\ pc' = IF failureStart = "old" THEN "top" ELSE "backoff"
    /\ UNCHANGED <<cancelled, sleepVars, signal, sockVars, tokenVars>>

\* Failures have persisted for DormancyTimeout.
FailuresAge ==
    /\ failureStart = "recent"
    /\ failureStart' = "old"
    /\ UNCHANGED <<pc, cancelled, sleepVars, dormant, signal, sockVars, tokenVars, woken>>

-----------------------------------------------------------------------------
(* connectAndServe.                                                         *)

\* ensureToken stores the token of an exchange; one that an authentication has
\* already presented is superseded, not that authentication's any more.
StoreToken ==
    /\ jwt' = "good"
    /\ fresh' = TRUE
    /\ presented' = IF presented = "current" THEN "superseded" ELSE presented

CachedToken ==
    /\ pc = "token"
    /\ jwt # "none"
    /\ fresh
    /\ pc' = "dial"
    /\ UNCHANGED <<cancelled, sleepVars, dormant, failureStart, signal, sockVars,
                   tokenVars, woken>>

ExchangeToken ==
    /\ pc = "token"
    /\ jwt = "none" \/ ~fresh
    /\ StoreToken
    /\ pc' = "dial"
    /\ UNCHANGED <<cancelled, sleepVars, dormant, failureStart, signal, sockVars,
                   refresh, late, woken>>

\* The exchange, the dial or the authentication fails within the cycle budget.
AttemptFails ==
    /\ \/ pc = "token" /\ (jwt = "none" \/ ~fresh)
       \/ pc \in {"dial", "auth"}
    /\ pc' = "failed"
    /\ sock' = "none"
    /\ stable' = FALSE
    /\ presented' = "none"
    /\ UNCHANGED <<cancelled, sleepVars, dormant, failureStart, signal, conn, jwt,
                   fresh, refresh, late, woken>>

\* The server rejects the agent's HMAC: permanent, Run returns.
HMACRejected ==
    /\ \/ pc = "token" /\ (jwt = "none" \/ ~fresh)
       \/ pc = "dial"
    /\ pc' = "stopped"
    /\ UNCHANGED <<cancelled, sleepVars, dormant, failureStart, signal, sockVars,
                   tokenVars, woken>>

\* The dial succeeds and authenticate sends the cached token.
Dial ==
    /\ pc = "dial"
    /\ pc' = "auth"
    /\ sock' = "open"
    /\ presented' = "current"
    /\ UNCHANGED <<cancelled, sleepVars, dormant, failureStart, signal, conn, stable,
                   jwt, fresh, refresh, late, woken>>

AuthAccepted ==
    /\ pc = "auth"
    /\ pc' = "publish"
    /\ presented' = "none"
    /\ UNCHANGED <<cancelled, sleepVars, dormant, failureStart, signal, sockVars, jwt,
                   fresh, refresh, late, woken>>

\* Mutant: a rejected token stays cached.
AuthRejectedKept ==
    /\ pc = "auth"
    /\ pc' = "failed"
    /\ sock' = "none"
    /\ stable' = FALSE
    /\ jwt' = IF presented = "current" THEN "rejected" ELSE jwt
    /\ presented' = "none"
    /\ UNCHANGED <<cancelled, sleepVars, dormant, failureStart, signal, conn, fresh,
                   refresh, late, woken>>

\* An error reply or a 4001 close: whatever token is cached now is invalidated.
AuthRejected ==
    /\ pc = "auth"
    /\ pc' = "failed"
    /\ sock' = "none"
    /\ stable' = FALSE
    /\ jwt' = IF presented = "current" THEN "rejected" ELSE jwt
    /\ fresh' = FALSE
    /\ presented' = "none"
    /\ UNCHANGED <<cancelled, sleepVars, dormant, failureStart, signal, conn, refresh,
                   late, woken>>

\* Mutant: Suspend during authentication is not noticed.
PublishAnyway ==
    /\ pc = "publish"
    /\ pc' = "serve"
    /\ conn' = TRUE
    /\ stable' = FALSE
    /\ refresh' = "idle"
    /\ UNCHANGED <<cancelled, sleepVars, dormant, failureStart, signal, sock, jwt,
                   fresh, presented, late, woken>>

\* The connection becomes visible to other goroutines, unless Suspend ran while
\* it could not see it (errSuspended: neither a failure nor a backoff).
Publish ==
    /\ pc = "publish"
    /\ IF suspended
       THEN /\ pc' = "top"
            /\ sock' = "none"
            /\ UNCHANGED <<conn, refresh>>
       ELSE /\ pc' = "serve"
            /\ conn' = TRUE
            /\ refresh' = "idle"
            /\ UNCHANGED sock
    /\ stable' = FALSE
    /\ UNCHANGED <<cancelled, sleepVars, dormant, failureStart, signal, jwt, fresh,
                   presented, late, woken>>

StaysUp ==
    /\ pc = "serve"
    /\ stable' = TRUE
    /\ UNCHANGED <<pc, cancelled, sleepVars, dormant, failureStart, signal, sock, conn,
                   tokenVars, woken>>

\* The server closes the connection, or it breaks without either side noticing.
NetworkDrops ==
    /\ pc = "serve"
    /\ sock = "open"
    /\ sock' \in {"closed", "half"}
    /\ UNCHANGED <<pc, cancelled, sleepVars, dormant, failureStart, signal, conn, stable,
                   tokenVars, woken>>

\* Mutant: the read loop has no rolling deadline.
ReadFailsNoDeadline ==
    /\ pc = "serve"
    /\ sock = "closed"
    /\ pc' = "ending"
    /\ refresh' = "off"
    /\ late' = (late \/ refresh = "exchange")
    /\ UNCHANGED <<cancelled, sleepVars, dormant, failureStart, signal, sockVars, jwt,
                   fresh, presented, woken>>

\* readLoop returns: the socket is closed, or the rolling read deadline passes
\* on a half-open one.  The refresh loop's context ends with it.
ReadFails ==
    /\ pc = "serve"
    /\ sock # "open"
    /\ pc' = "ending"
    /\ refresh' = "off"
    /\ late' = (late \/ refresh = "exchange")
    /\ UNCHANGED <<cancelled, sleepVars, dormant, failureStart, signal, sockVars, jwt,
                   fresh, presented, woken>>

\* The deferred cleanup of connectAndServe.
Unpublish ==
    /\ pc = "ending"
    /\ pc' = "failed"
    /\ sock' = "none"
    /\ conn' = FALSE
    /\ UNCHANGED <<cancelled, sleepVars, dormant, failureStart, signal, stable,
                   tokenVars, woken>>

-----------------------------------------------------------------------------
(* tokenRefreshLoop and the passage of the token's lifetime.                *)

TokenAges ==
    /\ fresh
    /\ fresh' = FALSE
    /\ UNCHANGED <<pc, cancelled, sleepVars, dormant, failureStart, signal, sockVars, jwt,
                   presented, refresh, late, woken>>

RefreshBegins ==
    /\ refresh = "idle"
    /\ ~fresh
    /\ refresh' = "exchange"
    /\ UNCHANGED <<pc, cancelled, sleepVars, dormant, failureStart, signal, sockVars, jwt,
                   fresh, presented, late, woken>>

\* An exchange in flight when the connection ended may still store its token.
RefreshEnds ==
    /\ \/ refresh = "exchange" /\ refresh' = "idle" /\ UNCHANGED late
       \/ late /\ late' = FALSE /\ UNCHANGED refresh
    /\ StoreToken \/ UNCHANGED <<jwt, fresh, presented>>
    /\ UNCHANGED <<pc, cancelled, sleepVars, dormant, failureStart, signal, sockVars,
                   woken>>

-----------------------------------------------------------------------------
(* Calls from other goroutines.                                             *)

SignalActivity ==
    /\ signal' = TRUE
    /\ UNCHANGED <<pc, cancelled, sleepVars, dormant, failureStart, sockVars, tokenVars,
                   woken>>

Suspend ==
    /\ ~resuming
    /\ ~closed
    /\ suspended' = TRUE
    /\ sock' = IF conn /\ sock # "none" THEN "closed" ELSE sock
    /\ UNCHANGED <<pc, cancelled, closed, resuming, dormant, failureStart, signal, conn,
                   stable, tokenVars, woken>>

\* Mutant: the wake-up comes before the flag is cleared.
ResumeSignalsFirst ==
    /\ ~resuming
    /\ resuming' = TRUE
    /\ signal' = TRUE
    /\ UNCHANGED <<pc, cancelled, closed, suspended, dormant, failureStart, sockVars,
                   tokenVars, woken>>
ResumeClearsLast ==
    /\ resuming
    /\ resuming' = FALSE
    /\ suspended' = FALSE
    /\ UNCHANGED <<pc, cancelled, closed, dormant, failureStart, signal, sockVars,
                   tokenVars, woken>>
ResumeSwapped == ResumeSignalsFirst \/ ResumeClearsLast

\* Resume clears suspended under sc.mu, then signals without it.
ResumeClears ==
    /\ ~resuming
    /\ suspended' = FALSE
    /\ resuming' = TRUE
    /\ UNCHANGED <<pc, cancelled, closed, dormant, failureStart, signal, sockVars,
                   tokenVars, woken>>

ResumeSignals ==
    /\ resuming
    /\ resuming' = FALSE
    /\ signal' = TRUE
    /\ UNCHANGED <<pc, cancelled, closed, suspended, dormant, failureStart, sockVars,
                   tokenVars, woken>>

Resume == ResumeClears \/ ResumeSignals

\* Send fails on a dead socket and closes it.
SendFails ==
    /\ conn
    /\ sock \in {"half", "closed"}
    /\ sock' = "closed"
    /\ UNCHANGED <<pc, cancelled, sleepVars, dormant, failureStart, signal, conn, stable,
                   tokenVars, woken>>

\* The agent's context is cancelled by SIGTERM or SIGINT.
Cancel ==
    /\ ~cancelled
    /\ cancelled' = TRUE
    /\ UNCHANGED <<pc, sleepVars, dormant, failureStart, signal, sockVars, tokenVars,
                   woken>>

\* Mutant: nothing closes the socket of an established connection.
ReturnUnlessServing ==
    /\ cancelled
    /\ pc \notin {"stopped", "top", "serve"}
    /\ pc' = "stopped"
    /\ sock' = "none"
    /\ conn' = FALSE
    /\ refresh' = "off"
    /\ UNCHANGED <<cancelled, sleepVars, dormant, failureStart, signal, stable, jwt, fresh,
                   presented, late, woken>>

\* Run returns from whatever it waits for: the select of a wait, the cycle
\* context, or the goroutine that closes the socket.
ReturnCancelled ==
    /\ cancelled
    /\ pc \notin {"stopped", "top"}
    /\ pc' = "stopped"
    /\ sock' = "none"
    /\ conn' = FALSE
    /\ refresh' = "off"
    /\ UNCHANGED <<cancelled, sleepVars, dormant, failureStart, signal, stable, jwt, fresh,
                   presented, late, woken>>

\* Close, once Run has returned.
Close ==
    /\ pc = "stopped"
    /\ ~closed
    /\ closed' = TRUE
    /\ UNCHANGED <<pc, cancelled, suspended, resuming, dormant, failureStart, signal,
                   sockVars, tokenVars, woken>>

-----------------------------------------------------------------------------
RunLoop ==
    \/ Top
    \/ DormantWake
    \/ CheckSuspended
    \/ AsleepWake
    \/ BackoffWake
    \/ BackoffElapses
    \/ AttemptFailed

Attempt ==
    \/ CachedToken
    \/ ExchangeToken
    \/ AttemptFails
    \/ HMACRejected
    \/ Dial
    \/ AuthAccepted
    \/ AuthRejected
    \/ Publish
    \/ ReadFails
    \/ Unpublish

Environment ==
    \/ FailuresAge
    \/ StaysUp
    \/ NetworkDrops
    \/ TokenAges
    \/ RefreshBegins
    \/ RefreshEnds
    \/ SignalActivity
    \/ Suspend
    \/ Resume
    \/ SendFails
    \/ Cancel
    \/ ReturnCancelled
    \/ Close

Next == RunLoop \/ Attempt \/ Environment

Spec == Init /\ [][Next]_vars

\* Run is scheduled, its timers expire, an attempt ends within
\* connectCycleTimeout and the second half of Resume runs.  A select with two
\* ready cases picks either, so no fairness between backoff and signal.
Fairness ==
    /\ WF_vars(RunLoop)
    /\ WF_vars(Attempt)
    /\ WF_vars(ReturnCancelled)
    /\ WF_vars(Resume /\ resuming)

FairSpec == Spec /\ Fairness

-----------------------------------------------------------------------------
(* Properties                                                               *)

FlagTypes ==
    /\ cancelled \in BOOLEAN
    /\ closed \in BOOLEAN
    /\ suspended \in BOOLEAN
    /\ resuming \in BOOLEAN
    /\ dormant \in BOOLEAN
    /\ signal \in BOOLEAN
    /\ conn \in BOOLEAN
    /\ stable \in BOOLEAN
    /\ fresh \in BOOLEAN
    /\ late \in BOOLEAN
    /\ woken \in BOOLEAN

StateTypes ==
    /\ pc \in Connecting \cup {"top", "dormant", "check", "asleep", "failed", "backoff",
                               "stopped"}
    /\ failureStart \in {"zero", "recent", "old"}
    /\ sock \in {"none", "open", "half", "closed"}
    /\ jwt \in {"none", "good", "rejected"}
    /\ presented \in {"none", "current", "superseded"}
    /\ refresh \in {"off", "idle", "exchange"}

\* The shape of every variable.
TypeOK == FlagTypes /\ StateTypes

\* While the host sleeps no usable connection is published: Suspend closes the one
\* it sees, and the one it cannot see yet is dropped before it is published.
SuspendedIsOffline == suspended => ~(conn /\ sock \in {"open", "half"})

\* Run never sleeps on a wake-up it has missed: when it waits for the end of a
\* suspend that is over, an activity signal is pending or about to be sent.
NoLostWakeup == (pc = "asleep" /\ ~suspended) => (signal \/ resuming)

\* A token the server has rejected is never presented again, whichever of Run and
\* the refresh loops stored a token in between.
RejectedNotReused == (pc = "auth" /\ presented = "current") => jwt # "rejected"

\* Dormancy is never entered by the first failure after a wake-up: a probe while
\* the network is still coming up must not send the client back to sleep.
FreshRetryWindow == [][(dormant' /\ ~dormant) => ~woken]_vars

=============================================================================
