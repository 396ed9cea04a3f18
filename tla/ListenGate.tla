------------------------------ MODULE ListenGate ------------------------------
(***************************************************************************)
(* The inbound listener that hides while the WebSocket to the master is    *)
(* up (listenGate in main.go, driven by connectAndRun in client.go).       *)
(*                                                                         *)
(* The hooks hold g.mu to their end, so each is one step.  A timer of      *)
(* time.AfterFunc is not: once it has fired its callback waits for g.mu,   *)
(* and Stop no longer reaches it.                                          *)
(***************************************************************************)
EXTENDS Naturals

CONSTANT MaxSessions   \* bound: authenticated sessions of one run

ASSUME SessionsAssumption == MaxSessions \in Nat \ {0}

VARIABLES
    ws,         \* where connectAndRun is
    sessions,   \* sessions authenticated so far; each arms timer no. sessions
    timers,     \* timers[i]: what became of the close armed by session i
    timer,      \* g.timer: the session whose close is pending, or NoTimer
    listening,  \* g.ln /= nil
    bindFailed, \* the last reopen gave up after its five attempts
    stopped,    \* g.stopped
    lateFire    \* the last drop found a close it could no longer stop

vars == <<ws, sessions, timers, timer, listening, bindFailed, stopped, lateFire>>

NoTimer == 0
Sessions == 1..MaxSessions

(* "dialed": the connection stands, key exchange and authentication do not; *)
(* "authed": c.connected is set, the hook not yet called; "closing": the    *)
(* deferred clean-up has cleared it, and has still to call the other hook.  *)
WSSteps == {"down", "dialed", "authed", "up", "closing"}
TimerStates == {"unset", "armed", "fired", "done"}

-----------------------------------------------------------------------------
Dial ==
    /\ ws = "down" /\ ~stopped
    /\ ws' = "dialed"
    /\ UNCHANGED <<sessions, timers, timer, listening, bindFailed, stopped, lateFire>>

Authenticate ==
    /\ ws = "dialed" /\ sessions < MaxSessions
    /\ ws' = "authed" /\ sessions' = sessions + 1
    /\ UNCHANGED <<timers, timer, listening, bindFailed, stopped, lateFire>>

(* A refused key exchange or authentication, or a lost connection: the      *)
(* deferred clean-up runs, and calls the disconnect hook, either way.       *)
Drop ==
    /\ ws \in {"dialed", "up"} /\ ws' = "closing"
    /\ UNCHANGED <<sessions, timers, timer, listening, bindFailed, stopped, lateFire>>

StopTimer == [i \in Sessions |-> IF i = timer /\ timers[i] = "armed"
                                 THEN "done" ELSE timers[i]]

(* onWSConnected: the close of this session replaces the pending one. *)
Connected ==
    /\ ws = "authed" /\ ws' = "up"
    /\ IF stopped
       THEN UNCHANGED <<timers, timer>>
       ELSE /\ timers' = [StopTimer EXCEPT ![sessions] = "armed"]
            /\ timer' = sessions
    /\ UNCHANGED <<sessions, listening, bindFailed, stopped, lateFire>>

(* onWSDisconnected: stop the pending close, then listen again, with up to  *)
(* five attempts; giving up is only logged.                                 *)
Disconnected ==
    /\ ws = "closing" /\ ws' = "down"
    /\ IF stopped
       THEN UNCHANGED <<timers, timer, listening, bindFailed, lateFire>>
       ELSE /\ timers' = StopTimer /\ timer' = NoTimer
            /\ \E bound \in BOOLEAN :
                  /\ listening' = (listening \/ bound)
                  /\ bindFailed' = (~listening /\ ~bound)
            /\ lateFire' = \E i \in Sessions :
                  timers[i] = "fired" \/ (timers[i] = "armed" /\ i /= timer)
    /\ UNCHANGED <<sessions, stopped>>

(* The grace period of session i is over. *)
Fire(i) ==
    /\ timers[i] = "armed"
    /\ timers' = [timers EXCEPT ![i] = "fired"]
    /\ UNCHANGED <<ws, sessions, timer, listening, bindFailed, stopped, lateFire>>

(* Mutant: the callback only clears the pointer. *)
CloseNothing(i) ==
    /\ timers[i] = "fired"
    /\ timers' = [timers EXCEPT ![i] = "done"]
    /\ timer' = NoTimer
    /\ UNCHANGED <<ws, sessions, listening, bindFailed, stopped, lateFire>>

(* Mutant: the callback closes the listener though the process is exiting. *)
CloseThoughStopped(i) ==
    /\ timers[i] = "fired"
    /\ timers' = [timers EXCEPT ![i] = "done"]
    /\ timer' = NoTimer
    /\ listening' = FALSE
    /\ UNCHANGED <<ws, sessions, bindFailed, stopped, lateFire>>

(* The callback of AfterFunc, once it has g.mu. It clears g.timer, whoever's*)
(* it is by then.                                                           *)
Close(i) ==
    /\ timers[i] = "fired"
    /\ timers' = [timers EXCEPT ![i] = "done"]
    /\ timer' = NoTimer
    /\ listening' = (listening /\ stopped)
    /\ UNCHANGED <<ws, sessions, bindFailed, stopped, lateFire>>

(* The process is told to exit: gate.stop, and the client's connection goes.*)
Stop ==
    /\ ~stopped /\ stopped' = TRUE
    /\ timers' = StopTimer /\ timer' = NoTimer
    /\ UNCHANGED <<ws, sessions, listening, bindFailed, lateFire>>

Init ==
    /\ ws = "down" /\ sessions = 0
    /\ timers = [i \in Sessions |-> "unset"] /\ timer = NoTimer
    /\ listening = TRUE /\ bindFailed = FALSE
    /\ stopped = FALSE /\ lateFire = FALSE

Hooks == Connected \/ Disconnected \/ \E i \in Sessions : Fire(i) \/ Close(i)

Next == Hooks \/ Dial \/ Authenticate \/ Drop \/ Stop

Spec == Init /\ [][Next]_vars

(* Goroutines run and timers fire; nothing makes the master accept, drop or *)
(* refuse a connection.                                                     *)
Fairness == WF_vars(Connected) /\ WF_vars(Disconnected)
            /\ \A i \in Sessions : WF_vars(Fire(i)) /\ WF_vars(Close(i))

FairSpec == Spec /\ Fairness

-----------------------------------------------------------------------------
TypeOK ==
    /\ ws \in WSSteps /\ sessions \in 0..MaxSessions
    /\ timers \in [Sessions -> TimerStates] /\ timer \in {NoTimer} \cup Sessions
    /\ listening \in BOOLEAN /\ bindFailed \in BOOLEAN
    /\ stopped \in BOOLEAN /\ lateFire \in BOOLEAN

Disconnectedly == ws = "down" /\ ~stopped

(* While the WebSocket is down the agent can be reached over HTTP: "reopen  *)
(* at once when the WebSocket drops, to keep the fallback" (main.go, the    *)
(* comment of listenGate), unless the reopening itself failed.              *)
FallbackReachable == Disconnectedly /\ ~bindFailed => listening

(* The same, when no callback had fired and none was forgotten before the   *)
(* drop: a drop cancels every close it can still reach.                     *)
DropCancelsClose == Disconnectedly /\ ~bindFailed /\ ~lateFire => listening

(* Once exiting, nothing moves the listener: no late drop reopens it and no *)
(* late timer closes it under server.Shutdown.                              *)
StoppedIsFinal == [][stopped => UNCHANGED listening]_vars

(* A session that stays up hides the agent.                                 *)
HiddenAtLast == <>[](ws = "up" /\ ~stopped) => <>[](~listening)

=============================================================================
