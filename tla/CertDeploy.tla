------------------------------ MODULE CertDeploy ------------------------------
(***************************************************************************)
(* Deployment of a certificate and its private key, two files that must    *)
(* match, and the reload of the services that use them.                    *)
(*                                                                         *)
(* "http" deployments are HandleCertDeploy: under certDeployMu, a pair     *)
(* transaction (cert_deploy_atomic.go) that is rolled back when a service  *)
(* does not come back. "ws" deployments are the cert_deploy message of the *)
(* WebSocket: deployCert in client.go, one goroutine per message.          *)
(***************************************************************************)
EXTENDS Naturals, FiniteSets

CONSTANTS
    HttpDeploys, WsDeploys, \* the deployments requested, each of its own pair
    Old,        \* who wrote the pair found at the start
    Nobody,     \* holder of a free mutex
    Stopped,    \* what a service that does not run has loaded
    MaxFaults   \* bound: file operations and reloads that fail

Deploys == HttpDeploys \cup WsDeploys

ASSUME DeploysAssumption ==
    /\ HttpDeploys \cap WsDeploys = {}
    /\ {Old, Nobody, "torn"} \cap Deploys = {} /\ Old \notin {Nobody, "torn"}
    /\ MaxFaults \in Nat

VARIABLES
    cert, key,      \* who wrote the file, or "torn"
    loaded,         \* the pair each service has loaded, or Stopped
    stoppedByHand,  \* Xray was stopped on request and not started since
    certDeployMu,   \* its holder
    inboundsMu,     \* its holder
    proc,           \* each deployment's step and locals
    result,         \* what each deployment answered
    gaveUp,         \* an undo of the pair failed, and was reported
    faults

vars == <<cert, key, loaded, stoppedByHand, certDeployMu, inboundsMu, proc,
          result, gaveUp, faults>>

Services == {"nginx", "xray"}
Steps == {"idle", "lock", "snapshot", "cert", "key", "restoreCert", "nginx", "xray",
          "undoCert", "undoKey", "redoCert", "nginxAgain", "xrayAgain",
          "wsCert", "wsKey", "done"}
Results == {"none", "ok", "failed", "blocked"}
Files == Deploys \cup {Old, "torn"}
Pairs == Files \X Files

(* running: xrayWasRunning; blamed: the service whose reload failed. *)
Proc == [step: Steps, reload: SUBSET Services, running: BOOLEAN,
         before: Pairs, blamed: Services]

-----------------------------------------------------------------------------
Blame(good) == IF good THEN UNCHANGED faults ELSE faults > 0 /\ faults' = faults - 1

At(d, step) == proc[d].step = step
Goto(d, step) == proc' = [proc EXCEPT ![d].step = step]

(* The answer, and the mutexes given back. *)
Answer(d, r) ==
    /\ Goto(d, "done")
    /\ result' = [result EXCEPT ![d] = r]
    /\ certDeployMu' = IF certDeployMu = d THEN Nobody ELSE certDeployMu
    /\ inboundsMu' = IF inboundsMu = d THEN Nobody ELSE inboundsMu

Running == UNCHANGED <<result, certDeployMu, inboundsMu>>

UnchangedFiles == UNCHANGED <<cert, key>>
UnchangedServices == UNCHANGED <<loaded, stoppedByHand>>

WholePair == cert = key /\ cert /= "torn"

(* An automatic renewal reloads nginx only. *)
Effective(target, automatic) == IF automatic THEN target \ {"xray"} ELSE target

(* Mutant: certificate deployments do not exclude each other. *)
LockDeploysUnserialized(d, target, automatic) ==
    /\ At(d, "idle")
    /\ proc' = [proc EXCEPT ![d].step = "lock", ![d].reload = Effective(target, automatic)]
    /\ UnchangedFiles /\ UnchangedServices /\ Running /\ UNCHANGED <<gaveUp, faults>>

LockDeploys(d, target, automatic) ==
    /\ At(d, "idle") /\ certDeployMu = Nobody
    /\ certDeployMu' = d
    /\ proc' = [proc EXCEPT ![d].step = "lock", ![d].reload = Effective(target, automatic)]
    /\ UnchangedFiles /\ UnchangedServices
    /\ UNCHANGED <<result, inboundsMu, gaveUp, faults>>

(* inboundsMu only to reload Xray, and then to the end; whether Xray runs   *)
(* is read under it.                                                        *)
LockInbounds(d) ==
    /\ At(d, "lock")
    /\ "xray" \in proc[d].reload => inboundsMu = Nobody
    /\ inboundsMu' = IF "xray" \in proc[d].reload THEN d ELSE inboundsMu
    /\ proc' = [proc EXCEPT ![d].step = "snapshot", ![d].running = loaded["xray"] /= Stopped]
    /\ UnchangedFiles /\ UnchangedServices
    /\ UNCHANGED <<result, certDeployMu, gaveUp, faults>>

(* Both files are captured, the new ones staged beside them, and a copy of  *)
(* the old certificate; any of it may fail, and then nothing has changed.   *)
Stage(d) ==
    /\ At(d, "snapshot")
    /\ UnchangedFiles /\ UnchangedServices /\ UNCHANGED gaveUp
    /\ \/ /\ proc' = [proc EXCEPT ![d].step = "cert", ![d].before = <<cert, key>>]
          /\ Running /\ UNCHANGED faults
       \/ Blame(FALSE) /\ Answer(d, "failed")

ReplaceCert(d) ==
    /\ At(d, "cert")
    /\ UnchangedServices /\ UNCHANGED <<key, gaveUp>>
    /\ \/ cert' = d /\ Goto(d, "key") /\ Running /\ UNCHANGED faults
       \/ Blame(FALSE) /\ Answer(d, "failed") /\ UNCHANGED cert

(* The reload comes next, of nginx first; Xray only if it ran. *)
AfterNginx(d) == IF "xray" \in proc[d].reload /\ proc[d].running THEN "xray" ELSE "done"
AfterFiles(d) == IF "nginx" \in proc[d].reload THEN "nginx" ELSE AfterNginx(d)

Continue(d, next) ==
    IF next = "done" THEN Answer(d, "ok") ELSE Goto(d, next) /\ Running

(* Mutant: a failed replacement of the key is only reported. *)
ReplaceKeyWithoutRestore(d) ==
    /\ At(d, "key")
    /\ UnchangedServices /\ UNCHANGED <<cert, gaveUp>>
    /\ \/ key' = d /\ Continue(d, AfterFiles(d)) /\ UNCHANGED faults
       \/ Blame(FALSE) /\ Answer(d, "failed") /\ UNCHANGED key

ReplaceKey(d) ==
    /\ At(d, "key")
    /\ UnchangedServices /\ UNCHANGED <<cert, gaveUp>>
    /\ \/ key' = d /\ Continue(d, AfterFiles(d)) /\ UNCHANGED faults
       \/ Blame(FALSE) /\ Goto(d, "restoreCert") /\ Running /\ UNCHANGED key

(* The certificate goes back when the key could not follow. *)
RestoreCert(d) ==
    /\ At(d, "restoreCert")
    /\ UnchangedServices /\ UNCHANGED key
    /\ Answer(d, "failed")
    /\ \/ cert' = proc[d].before[1] /\ UNCHANGED <<gaveUp, faults>>
       \/ Blame(FALSE) /\ gaveUp' = TRUE /\ UNCHANGED cert

-----------------------------------------------------------------------------
(* Reloads *)

(* nginx refuses a pair that does not match and keeps the one it has.       *)
NginxLoads(good) ==
    /\ UNCHANGED stoppedByHand
    /\ IF good THEN WholePair /\ UNCHANGED faults
                    /\ loaded' = [loaded EXCEPT !["nginx"] = <<cert, key>>]
               ELSE (IF WholePair THEN Blame(FALSE) ELSE UNCHANGED faults)
                    /\ UNCHANGED loaded

XrayLoads(good) ==
    /\ Blame(good)
    /\ UNCHANGED stoppedByHand
    /\ \E now \in (IF good THEN {<<cert, key>>} ELSE {loaded["xray"], Stopped}) :
           loaded' = [loaded EXCEPT !["xray"] = now]

Blamed(d, service) ==
    proc' = [proc EXCEPT ![d].step = "undoCert", ![d].blamed = service]

ReloadNginx(d) ==
    /\ At(d, "nginx")
    /\ UnchangedFiles /\ UNCHANGED gaveUp
    /\ \E good \in BOOLEAN :
          /\ NginxLoads(good)
          /\ IF good THEN Continue(d, AfterNginx(d))
             ELSE IF d \in HttpDeploys THEN Blamed(d, "nginx") /\ Running
             ELSE Answer(d, "failed")

(* The inbound recovery that follows a restart may stay blocked: reported,  *)
(* and the certificate stays.                                               *)
RestartXray(d) ==
    /\ At(d, "xray") /\ d \in HttpDeploys
    /\ UnchangedFiles /\ UNCHANGED gaveUp
    /\ \/ XrayLoads(TRUE) /\ \E r \in {"ok", "blocked"} : Answer(d, r)
       \/ XrayLoads(FALSE) /\ Blamed(d, "xray") /\ Running

-----------------------------------------------------------------------------
(* rollbackCertDeploymentAfterReloadFailure: the same pair transaction the  *)
(* other way round; then the services, each tried.                          *)
UndoCert(d) ==
    /\ At(d, "undoCert")
    /\ UnchangedServices /\ UNCHANGED key
    /\ \/ cert' = proc[d].before[1] /\ Goto(d, "undoKey") /\ Running
          /\ UNCHANGED <<gaveUp, faults>>
       \/ Blame(FALSE) /\ Answer(d, "failed") /\ UNCHANGED <<cert, gaveUp>>

UndoKey(d) ==
    /\ At(d, "undoKey")
    /\ UnchangedServices /\ UNCHANGED <<cert, gaveUp>> /\ Running
    /\ \/ /\ key' = proc[d].before[2] /\ UNCHANGED faults
          /\ Goto(d, IF "nginx" \in proc[d].reload THEN "nginxAgain" ELSE "xrayAgain")
       \/ Blame(FALSE) /\ Goto(d, "redoCert") /\ UNCHANGED key

(* Mutant: the undo leaves the old certificate beside the new key. *)
RedoNothing(d) ==
    /\ At(d, "redoCert")
    /\ UnchangedServices /\ UNCHANGED <<cert, key, gaveUp, faults>>
    /\ Answer(d, "failed")

(* The new certificate comes back when the old key could not.               *)
RedoCert(d) ==
    /\ At(d, "redoCert")
    /\ UnchangedServices /\ UNCHANGED key
    /\ Answer(d, "failed")
    /\ \/ cert' = d /\ UNCHANGED <<gaveUp, faults>>
       \/ Blame(FALSE) /\ gaveUp' = TRUE /\ UNCHANGED cert

ReloadNginxAgain(d) ==
    /\ At(d, "nginxAgain")
    /\ UnchangedFiles /\ UNCHANGED gaveUp
    /\ \E good \in BOOLEAN : NginxLoads(good)
    /\ IF proc[d].blamed = "xray" THEN Goto(d, "xrayAgain") /\ Running
                                  ELSE Answer(d, "failed")

RestartXrayAgain(d) ==
    /\ At(d, "xrayAgain")
    /\ UnchangedFiles /\ UNCHANGED gaveUp
    /\ \E good \in BOOLEAN : XrayLoads(good)
    /\ Answer(d, "failed")

-----------------------------------------------------------------------------
(* deployCert of the WebSocket: os.WriteFile twice, then the services. The  *)
(* Xray hook takes inboundsMu itself and leaves a stopped Xray alone.       *)
WsReceive(d, target) ==
    /\ At(d, "idle")
    /\ proc' = [proc EXCEPT ![d].step = "wsCert", ![d].reload = target,
                            ![d].running = TRUE]
    /\ UnchangedFiles /\ UnchangedServices /\ Running /\ UNCHANGED <<gaveUp, faults>>

WsWriteCert(d) ==
    /\ At(d, "wsCert")
    /\ UnchangedServices /\ UNCHANGED <<key, gaveUp>>
    /\ \/ cert' = d /\ Goto(d, "wsKey") /\ Running /\ UNCHANGED faults
       \/ Blame(FALSE) /\ cert' \in {cert, "torn"} /\ Answer(d, "failed")

WsWriteKey(d) ==
    /\ At(d, "wsKey")
    /\ UnchangedServices /\ UNCHANGED <<cert, gaveUp>>
    /\ \/ key' = d /\ Continue(d, AfterFiles(d)) /\ UNCHANGED faults
       \/ Blame(FALSE) /\ key' \in {key, "torn"} /\ Answer(d, "failed")

(* Mutant: the hook restarts Xray without asking whether it runs. *)
WsRestartXrayUnasked(d) ==
    /\ At(d, "xray") /\ d \in WsDeploys /\ inboundsMu = Nobody
    /\ UnchangedFiles /\ UNCHANGED gaveUp
    /\ \/ XrayLoads(TRUE) /\ \E r \in {"ok", "blocked"} : Answer(d, r)
       \/ XrayLoads(FALSE) /\ Answer(d, "failed")

WsRestartXray(d) ==
    /\ At(d, "xray") /\ d \in WsDeploys /\ inboundsMu = Nobody
    /\ UnchangedFiles /\ UNCHANGED gaveUp
    /\ IF loaded["xray"] = Stopped
       THEN Answer(d, "ok") /\ UnchangedServices /\ UNCHANGED faults
       ELSE \/ XrayLoads(TRUE) /\ \E r \in {"ok", "blocked"} : Answer(d, r)
            \/ XrayLoads(FALSE) /\ Answer(d, "failed")

-----------------------------------------------------------------------------
(* StopXray and StartXray, asked for while no handler holds inboundsMu.     *)
StopXray ==
    /\ inboundsMu = Nobody /\ loaded["xray"] /= Stopped
    /\ loaded' = [loaded EXCEPT !["xray"] = Stopped] /\ stoppedByHand' = TRUE
    /\ UnchangedFiles /\ Running /\ UNCHANGED <<proc, gaveUp, faults>>

StartXray ==
    /\ inboundsMu = Nobody /\ stoppedByHand
    /\ loaded' = [loaded EXCEPT !["xray"] = <<cert, key>>] /\ stoppedByHand' = FALSE
    /\ UnchangedFiles /\ Running /\ UNCHANGED <<proc, gaveUp, faults>>

Init ==
    /\ cert = Old /\ key = Old
    /\ loaded = [s \in Services |-> <<Old, Old>>] /\ stoppedByHand = FALSE
    /\ certDeployMu = Nobody /\ inboundsMu = Nobody
    /\ proc = [d \in Deploys |-> [step |-> "idle", reload |-> {}, running |-> FALSE,
                                  before |-> <<Old, Old>>, blamed |-> "nginx"]]
    /\ result = [d \in Deploys |-> "none"]
    /\ gaveUp = FALSE /\ faults = MaxFaults

HttpStep(d) ==
    \/ \E target \in SUBSET Services, automatic \in BOOLEAN : LockDeploys(d, target, automatic)
    \/ LockInbounds(d) \/ Stage(d) \/ ReplaceCert(d) \/ ReplaceKey(d) \/ RestoreCert(d)
    \/ ReloadNginx(d) \/ RestartXray(d)
    \/ UndoCert(d) \/ UndoKey(d) \/ RedoCert(d)
    \/ ReloadNginxAgain(d) \/ RestartXrayAgain(d)

WsStep(d) ==
    \/ \E target \in SUBSET Services : WsReceive(d, target)
    \/ WsWriteCert(d) \/ WsWriteKey(d) \/ ReloadNginx(d) \/ WsRestartXray(d)

Next ==
    \/ \E d \in HttpDeploys : HttpStep(d)
    \/ \E d \in WsDeploys : WsStep(d)
    \/ StopXray \/ StartXray

Spec == Init /\ [][Next]_vars

-----------------------------------------------------------------------------
TypeOK ==
    /\ cert \in Files /\ key \in Files
    /\ loaded \in [Services -> Pairs \cup {Stopped}]
    /\ stoppedByHand \in BOOLEAN /\ gaveUp \in BOOLEAN
    /\ certDeployMu \in Deploys \cup {Nobody} /\ inboundsMu \in Deploys \cup {Nobody}
    /\ proc \in [Deploys -> Proc] /\ result \in [Deploys -> Results]
    /\ faults \in 0..MaxFaults

AtRest == \A d \in Deploys : proc[d].step \in {"idle", "done"}

(* The pair has been replaced by transactions only. *)
NoWsYet == \A w \in WsDeploys : At(w, "idle")

(* The files at rest are the certificate and the key of one deployment,     *)
(* unless an undo itself failed and said so ("instead of leaving a mixed    *)
(* old/new pair", cert_deploy_atomic.go). Of HTTP and WebSocket deployments *)
(* together this is false of the code.                                      *)
EntryPointsAgree == AtRest /\ ~gaveUp => WholePair

(* As long as only HTTP deployments were received it holds, whatever failed *)
(* and however they followed each other.                                    *)
PairMatches == NoWsYet => EntryPointsAgree

(* A success is true when it is reported: the files are the deployment's,   *)
(* and each service it was to reload has loaded them or does not run. Of    *)
(* HTTP deployments, as long as there is no other.                          *)
SuccessIsLive ==
    [][ \A d \in HttpDeploys : NoWsYet /\ result'[d] = "ok" /\ result[d] /= "ok" =>
            /\ <<cert', key'>> = <<d, d>>
            /\ \A s \in proc[d].reload : loaded'[s] \in {<<d, d>>, Stopped} ]_vars

(* A failure leaves a pair no other deployment touched meanwhile: what was  *)
(* there before or, when only the undo of the key failed, the new pair      *)
(* whole. Of HTTP deployments, as long as there is no other.                *)
FailureIsClean ==
    [][ \A d \in HttpDeploys :
            NoWsYet /\ result'[d] = "failed" /\ result[d] /= "failed" /\ ~gaveUp' =>
            <<cert', key'>> \in {<<d, d>>, proc[d].before} \/ At(d, "snapshot") ]_vars

(* "A certificate deployment must never turn an intentionally stopped Xray  *)
(* into a start request" (ReloadRunningXrayForCertificate).                 *)
NeverRevivesXray ==
    [][ stoppedByHand /\ stoppedByHand' => loaded'["xray"] = Stopped ]_vars
-----------------------------------------------------------------------------
(* The strengthening the properties above need to be proved.                *)

(* The steps of the transaction, and where a message can be.                *)
HttpSteps == Steps \ {"idle", "wsCert", "wsKey", "done"}
WsSteps == {"idle", "wsCert", "wsKey", "nginx", "xray", "done"}

HoldsInbounds(d) ==
    /\ d \in HttpDeploys /\ proc[d].step \in HttpSteps \ {"lock"}
    /\ "xray" \in proc[d].reload

(* A transaction runs exactly while it holds certDeployMu, and inboundsMu   *)
(* is held by none but the one that is to reload Xray.                      *)
MutexesHeld ==
    /\ \A d \in HttpDeploys :
          /\ proc[d].step \in HttpSteps \cup {"idle", "done"}
          /\ proc[d].step \in HttpSteps <=> certDeployMu = d
    /\ \A d \in WsDeploys : proc[d].step \in WsSteps /\ certDeployMu /= d
    /\ \A d \in Deploys : HoldsInbounds(d) <=> inboundsMu = d

(* Why a step is taken: the service is to be reloaded, and Xray ran.        *)
ReloadsAsked ==
    \A d \in HttpDeploys :
        LET p == proc[d] IN
        /\ p.step \in {"nginx", "nginxAgain"} => "nginx" \in p.reload
        /\ p.step \in {"xray", "xrayAgain"} => "xray" \in p.reload /\ p.running
        /\ p.step \in {"undoCert", "undoKey", "redoCert", "nginxAgain"} =>
              /\ p.blamed \in p.reload
              /\ p.blamed = "xray" => p.running

(* What was read under inboundsMu is still so.                              *)
XrayAsRead ==
    /\ stoppedByHand => loaded["xray"] = Stopped
    /\ \A d \in HttpDeploys :
          HoldsInbounds(d) => IF proc[d].running THEN ~stoppedByHand
                                                 ELSE loaded["xray"] = Stopped

(* The pair at each step of the transaction d.                              *)
PairAt(d) ==
    LET p == proc[d]
        pair == <<cert, key>>
    IN  /\ p.step = "cert" => pair = p.before
        /\ p.step \in {"key", "restoreCert"} => pair = <<d, p.before[2]>>
        /\ p.step \in {"nginx", "xray", "undoCert"} => pair = <<d, d>>
        /\ p.step \in {"undoKey", "redoCert"} => pair = <<p.before[1], d>>
        /\ p.step \in {"nginxAgain", "xrayAgain"} => pair = p.before
        /\ p.step = "xray" /\ "nginx" \in p.reload => loaded["nginx"] = <<d, d>>

WholeBefore(d) ==
    /\ proc[d].step \in {"lock", "snapshot"} => WholePair
    /\ proc[d].step \in HttpSteps \ {"lock", "snapshot"} =>
          proc[d].before[1] = proc[d].before[2] /\ proc[d].before[1] /= "torn"

TransactionsInv ==
    NoWsYet =>
        /\ \A d \in HttpDeploys : PairAt(d)
        /\ ~gaveUp => /\ \A d \in HttpDeploys : WholeBefore(d)
                      /\ certDeployMu = Nobody => WholePair

CertInv == MutexesHeld /\ ReloadsAsked /\ XrayAsRead /\ TransactionsInv

=============================================================================
