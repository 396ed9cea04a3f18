------------------------------ MODULE Connection ------------------------------
(***************************************************************************)
(* How the agent reaches its master, and falls back: the goroutine that    *)
(* Start in client.go runs (runWebSocket, runAutoModeLoop or               *)
(* runHTTPReporter), with the listener of ListenGate, which the same       *)
(* goroutine closes and reopens through its two hooks.                     *)
(*                                                                         *)
(* Durations are left out: a back-off is over when its timer says so or a  *)
(* reconnect signal cuts it short. Pull mode has no loop: the agent only   *)
(* serves then. What passes over a connection is in SecureChannel.         *)
(***************************************************************************)
EXTENDS ListenGate

CONSTANTS
    Modes,              \* the values of connection_mode that are looked at
    MaxFailures,        \* WebSocketMaxConsecutiveFailures
    MaxAuthFailures,    \* WebSocketMaxAuthFailures
    MaxErrors           \* maxErrors of the HTTP reporter

ASSUME ConnectionAssumption ==
    /\ Modes \subseteq {"auto", "websocket", "http"}
    /\ {MaxFailures, MaxAuthFailures, MaxErrors} \subseteq Nat \ {0}

VARIABLES
    master,     \* what the master answers to now
    loop,       \* the loop the goroutine is in
    at,         \* and where in it
    verdict,    \* the error connectAndRun returns with
    failures,   \* consecutiveFailures
    refusals,   \* authFailures
    errors,     \* consecutiveErrors of the HTTP reporter
    current,    \* currentMode, which /health shows
    signal      \* reconnectSignal holds a signal

counters == <<failures, refusals, errors>>
cvars == <<master, loop, at, verdict, counters, current, signal>>
allvars == <<vars, cvars>>

(* "http": only its HTTP interface; "refuses": it upgrades to WebSocket but *)
(* does not accept the token, for which the heartbeat is answered 401.      *)
Answers == {"nothing", "http", "refuses", "everything"}
Dials == master \in {"refuses", "everything"}
Reports == master \in {"http", "everything"}

Places == {"top", "connect", "session", "returned", "backoff",      \* of runWebSocket
           "tryHTTP", "http", "pull", "ended"}                      \* and of the other two
Verdicts == {"none", "token", "auth", "error"}

Goto(place) == at' = place
Gate == UNCHANGED vars
World == UNCHANGED <<master, signal>>

-----------------------------------------------------------------------------
(* The environment: the master, and the probe of the public addresses,      *)
(* which calls triggerReconnect when one has changed.                       *)
MasterChanges ==
    /\ \E a \in Answers \ {master} : master' = a
    /\ Gate /\ UNCHANGED <<loop, at, verdict, counters, current, signal>>

TriggerReconnect ==
    /\ ~signal /\ signal' = TRUE
    /\ Gate /\ UNCHANGED <<master, loop, at, verdict, counters, current>>

(* The signal to exit: the context is cancelled and gate.stop called; what  *)
(* blocks on the connection returns.                                        *)
Exit == Stop /\ UNCHANGED cvars

-----------------------------------------------------------------------------
(* The top of each of the two loops: runWebSocket connects at once,         *)
(* runAutoModeLoop probes with a connection of its own.                     *)
Leave ==
    /\ at = "top" /\ stopped /\ Goto("ended")
    /\ Gate /\ World /\ UNCHANGED <<loop, verdict, counters, current>>

Attempt ==
    /\ at = "top" /\ ~stopped
    /\ loop = "websocket" \/ Dials
    /\ Goto("connect") /\ current' = "websocket"
    /\ Gate /\ World /\ UNCHANGED <<loop, verdict, counters>>

ProbeFails ==
    /\ at = "top" /\ ~stopped
    /\ loop = "auto" /\ ~Dials
    /\ Goto("tryHTTP")
    /\ Gate /\ World /\ UNCHANGED <<loop, verdict, counters, current>>

(* connectAndRun *)
DialFails ==
    /\ at = "connect" /\ (~Dials \/ stopped)
    /\ Goto("returned") /\ verdict' = "error"
    /\ Gate /\ World /\ UNCHANGED <<loop, counters, current>>

DialMaster ==
    /\ at = "connect" /\ Dials /\ Dial
    /\ Goto("session")
    /\ World /\ UNCHANGED <<loop, verdict, counters, current>>

Accepted ==
    /\ at = "session" /\ master = "everything" /\ Authenticate
    /\ UNCHANGED cvars

HookUp == Connected /\ UNCHANGED cvars

(* The answer to the authentication; IsTokenInvalid looks at its text.      *)
Refused ==
    /\ at = "session" /\ ws = "dialed" /\ master = "refuses" /\ Drop
    /\ verdict' \in {"token", "auth"}
    /\ World /\ UNCHANGED <<loop, at, counters, current>>

(* Every read has a deadline, and Stop closes the connection it finds.      *)
Lost ==
    /\ at = "session" /\ Drop
    /\ master /= "everything" \/ stopped
    /\ verdict' = "error"
    /\ World /\ UNCHANGED <<loop, at, counters, current>>

HookDown ==
    /\ at = "session" /\ Disconnected /\ Goto("returned")
    /\ World /\ UNCHANGED <<loop, verdict, counters, current>>

-----------------------------------------------------------------------------
Returned == at = "returned" /\ ~stopped /\ verdict' = "none" /\ Gate /\ World

Canceled ==
    /\ at = "returned" /\ stopped
    /\ Goto("ended") /\ verdict' = "none"
    /\ Gate /\ World /\ UNCHANGED <<loop, counters, current>>

(* The automatic loop starts again, whatever it was: without a pause, also  *)
(* when the master refuses the token.                                       *)
AutoAgain ==
    /\ Returned /\ loop = "auto"
    /\ Goto("top")
    /\ UNCHANGED <<loop, counters, current>>

(* Mutant: the failures are counted for ever, and never acted on. *)
FailedForever ==
    /\ Returned /\ loop = "websocket" /\ verdict = "error"
    /\ refusals' = 0
    /\ failures' = IF failures < MaxFailures THEN failures + 1 ELSE failures
    /\ Goto("backoff") /\ UNCHANGED loop
    /\ UNCHANGED <<errors, current>>

(* The loop over WebSocket alone: after so many failures in a row it is the *)
(* automatic one, for good.                                                 *)
Failed ==
    /\ Returned /\ loop = "websocket" /\ verdict = "error"
    /\ refusals' = 0
    /\ IF failures + 1 >= MaxFailures
       THEN failures' = 0 /\ loop' = "auto" /\ Goto("top")
       ELSE failures' = failures + 1 /\ UNCHANGED loop /\ Goto("backoff")
    /\ UNCHANGED <<errors, current>>

(* A refusal only lengthens the pause; after so many of the token it is     *)
(* half an hour, and the count starts again.                                *)
RefusedAgain ==
    /\ Returned /\ loop = "websocket" /\ verdict \in {"token", "auth"}
    /\ refusals' = IF refusals + 1 < MaxAuthFailures THEN refusals + 1
                   ELSE IF verdict = "token" THEN 0 ELSE MaxAuthFailures
    /\ Goto("backoff")
    /\ UNCHANGED <<loop, failures, errors, current>>

(* waitWithTrafficReport and runPullModeWithTrafficReport *)
Waiting == at \in {"backoff", "pull"}

Expire ==
    /\ Waiting /\ Goto("top")
    /\ Gate /\ World /\ UNCHANGED <<loop, verdict, counters, current>>

Woken ==
    /\ Waiting /\ signal /\ signal' = FALSE
    /\ Goto("top")
    /\ Gate /\ UNCHANGED <<master, loop, verdict, counters, current>>

-----------------------------------------------------------------------------
(* tryHTTPOnce: a 401 is an answer too.                                     *)
UseHTTP ==
    /\ at = "tryHTTP" /\ master /= "nothing" /\ ~stopped
    /\ Goto("http") /\ current' = "http" /\ errors' = 0
    /\ Gate /\ World /\ UNCHANGED <<loop, verdict, failures, refusals>>

FallBackToPull ==
    /\ at = "tryHTTP" /\ (master = "nothing" \/ stopped)
    /\ Goto("pull") /\ current' = "pull"
    /\ Gate /\ World /\ UNCHANGED <<loop, verdict, counters>>

(* runHTTPReporterLoop returns to the automatic loop, or, when http is what *)
(* is configured, to nothing.                                               *)
LeaveHTTP == Goto(IF loop = "auto" THEN "top" ELSE "ended")

Report ==
    /\ at = "http" /\ Reports /\ errors' = 0
    /\ Gate /\ World /\ UNCHANGED <<loop, at, verdict, failures, refusals, current>>

ReportFails ==
    /\ at = "http" /\ ~Reports /\ ~stopped
    /\ errors' = errors + 1
    /\ IF errors' >= MaxErrors THEN LeaveHTTP ELSE UNCHANGED at
    /\ Gate /\ World /\ UNCHANGED <<loop, verdict, failures, refusals, current>>

(* Mutant: the WebSocket is not tried again while reports succeed. *)
UpgradeWhenFailing ==
    /\ at = "http" /\ Dials /\ ~Reports /\ ~stopped
    /\ LeaveHTTP
    /\ Gate /\ World /\ UNCHANGED <<loop, verdict, counters, current>>

(* The probe of every minute. *)
Upgrade ==
    /\ at = "http" /\ Dials /\ ~stopped
    /\ LeaveHTTP
    /\ Gate /\ World /\ UNCHANGED <<loop, verdict, counters, current>>

StopReporting ==
    /\ at = "http" /\ stopped /\ Goto("ended")
    /\ Gate /\ World /\ UNCHANGED <<loop, verdict, counters, current>>

Timers == (\E i \in Sessions : Fire(i) \/ Close(i)) /\ UNCHANGED cvars

CInit ==
    /\ Init
    /\ master \in Answers /\ loop \in Modes
    /\ at = IF loop = "http" THEN "http" ELSE "top"
    /\ verdict = "none" /\ failures = 0 /\ refusals = 0 /\ errors = 0
    /\ current = IF loop = "http" THEN "http" ELSE "pull"
    /\ signal = FALSE

Session == Attempt \/ DialFails \/ DialMaster \/ Accepted \/ HookUp \/ Refused \/ Lost \/ HookDown
Fallback == ProbeFails \/ UseHTTP \/ FallBackToPull \/ Report \/ ReportFails \/ Upgrade
Again == AutoAgain \/ Failed \/ RefusedAgain \/ Expire \/ Woken
End == Leave \/ Canceled \/ StopReporting
Environment == MasterChanges \/ TriggerReconnect \/ Exit

CNext == Session \/ Fallback \/ Again \/ End \/ Timers \/ Environment

CSpec == CInit /\ [][CNext]_allvars

(* The goroutine runs, its timers and deadlines expire, and the select of   *)
(* the reporter gets to every ticker. Nothing makes the master answer.      *)
CFairness ==
    /\ WF_allvars(Attempt \/ DialFails \/ DialMaster \/ Accepted \/ HookUp \/ HookDown)
    /\ WF_allvars(Lost)
    /\ WF_allvars(ProbeFails \/ UseHTTP \/ FallBackToPull)
    /\ WF_allvars(ReportFails) /\ WF_allvars(Upgrade)
    /\ WF_allvars(AutoAgain \/ Failed \/ RefusedAgain)
    /\ WF_allvars(Expire)
    /\ WF_allvars(End)
    /\ WF_allvars(Timers)

CFairSpec == CSpec /\ CFairness

-----------------------------------------------------------------------------
CTypeOK ==
    /\ TypeOK
    /\ master \in Answers /\ loop \in Modes \cup {"auto"} /\ at \in Places
    /\ verdict \in Verdicts /\ current \in {"pull", "http", "websocket"} /\ signal \in BOOLEAN
    /\ failures \in 0 .. MaxFailures - 1 /\ refusals \in 0 .. MaxAuthFailures
    /\ errors \in 0 .. MaxErrors

(* A master that answers everything for good ends up with a WebSocket,     *)
(* from every mode, back-off and fallback (as far as sessions are counted).*)
WebSocketAtLast ==
    <>[](master = "everything" /\ ~stopped) => <>[](ws = "up" \/ sessions = MaxSessions)

(* One that answers HTTP alone ends up with HTTP reports: the fallback is  *)
(* reached, and stays.                                                     *)
FallsBackToHTTP == <>[](master = "http" /\ ~stopped) => <>[](at = "http")

(* The signal to exit ends the goroutine, wherever it is.                  *)
StopEnds == stopped ~> (at = "ended")

(* "Fallback and reconnection" in every mode (README.md): as long as it is *)
(* not told to exit, the agent goes on trying.                             *)
NeverGivesUp == at = "ended" => stopped

================================================================================
