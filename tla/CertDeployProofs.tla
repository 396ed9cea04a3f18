--------------------------- MODULE CertDeployProofs ---------------------------
(***************************************************************************)
(* CertDeploy, for every set of deployments and any number of failures:    *)
(* the certificate and the key at rest are of one deployment as long as    *)
(* only transactions replaced them, what a transaction reports is true,    *)
(* and no deployment starts an Xray that was stopped by hand.              *)
(***************************************************************************)
EXTENDS CertDeploy, TLAPS

USE DeploysAssumption

-----------------------------------------------------------------------------
(* What an action does to the deployment that takes it.                    *)

Moves(d, step) ==
    /\ proc' \in [Deploys -> Proc] /\ proc'[d].step = step
    /\ \A e \in Deploys \ {d} : proc'[e] = proc[e]

Keeps(d) ==
    /\ proc'[d].reload = proc[d].reload /\ proc'[d].running = proc[d].running
    /\ proc'[d].before = proc[d].before /\ proc'[d].blamed = proc[d].blamed

LEMMA FieldTypes ==
    ASSUME TypeOK, NEW d \in Deploys
    PROVE  /\ proc[d] \in Proc /\ proc[d].step \in Steps /\ proc[d].reload \in SUBSET Services
           /\ proc[d].running \in BOOLEAN /\ proc[d].blamed \in Services
           /\ proc[d].before \in Pairs
           /\ proc[d].before[1] \in Files /\ proc[d].before[2] \in Files
           /\ proc[d].before = <<proc[d].before[1], proc[d].before[2]>>
<1>1. proc[d] \in Proc
    BY DEF TypeOK
<1>2. proc[d].before \in Pairs
    BY <1>1 DEF Proc
<1>3. QED
    BY <1>1, <1>2 DEF Proc, Pairs

LEMMA GotoMoves ==
    ASSUME TypeOK, NEW d \in Deploys, NEW step \in Steps, Goto(d, step)
    PROVE  Moves(d, step) /\ Keeps(d)
<1>1. proc \in [Deploys -> Proc]
    BY DEF TypeOK
<1>2. [proc[d] EXCEPT !.step = step] \in Proc
    BY <1>1 DEF Proc
<1>3. proc' = [proc EXCEPT ![d] = [proc[d] EXCEPT !.step = step]]
    BY <1>1 DEF Goto
<1>4. QED
    BY <1>1, <1>2, <1>3, FieldTypes DEF Moves, Keeps, Proc

LEMMA BlamedMoves ==
    ASSUME TypeOK, NEW d \in Deploys, NEW service \in Services, Blamed(d, service)
    PROVE  /\ Moves(d, "undoCert") /\ proc'[d].blamed = service
           /\ proc'[d].reload = proc[d].reload /\ proc'[d].running = proc[d].running
           /\ proc'[d].before = proc[d].before
<1> DEFINE p == [proc[d] EXCEPT !.step = "undoCert", !.blamed = service]
<1>1. proc \in [Deploys -> Proc]
    BY DEF TypeOK
<1>2. p \in Proc
    BY <1>1 DEF Proc, Steps
<1>3. proc' = [proc EXCEPT ![d] = p]
    BY <1>1 DEF Blamed
<1>4. QED
    BY <1>1, <1>2, <1>3, FieldTypes DEF Moves, Proc

LEMMA AnswerMoves ==
    ASSUME TypeOK, NEW d \in Deploys, NEW r \in Results, Answer(d, r)
    PROVE  /\ Moves(d, "done") /\ Keeps(d)
           /\ result' \in [Deploys -> Results] /\ result'[d] = r
           /\ \A e \in Deploys \ {d} : result'[e] = result[e]
           /\ certDeployMu' \in Deploys \cup {Nobody}
           /\ inboundsMu' \in Deploys \cup {Nobody}
<1>1. Moves(d, "done") /\ Keeps(d)
    BY GotoMoves DEF Answer, Steps
<1>2. QED
    BY <1>1 DEF Answer, TypeOK

LEMMA EffectiveTypes ==
    ASSUME NEW target \in SUBSET Services, NEW automatic \in BOOLEAN
    PROVE  Effective(target, automatic) \in SUBSET Services
BY DEF Effective

LEMMA LockDeploysMoves ==
    ASSUME TypeOK, NEW d \in Deploys, NEW target \in SUBSET Services,
           NEW automatic \in BOOLEAN, LockDeploys(d, target, automatic)
    PROVE  Moves(d, "lock")
<1> DEFINE p == [proc[d] EXCEPT !.step = "lock", !.reload = Effective(target, automatic)]
<1>1. proc \in [Deploys -> Proc]
    BY DEF TypeOK
<1>2. p \in Proc
    BY <1>1, EffectiveTypes DEF Proc, Steps
<1>3. proc' = [proc EXCEPT ![d] = p]
    BY <1>1 DEF LockDeploys
<1>4. QED
    BY <1>1, <1>2, <1>3 DEF Moves, Proc

LEMMA LockInboundsMoves ==
    ASSUME TypeOK, NEW d \in Deploys, LockInbounds(d)
    PROVE  /\ Moves(d, "snapshot") /\ proc'[d].reload = proc[d].reload
           /\ proc'[d].running = (loaded["xray"] /= Stopped)
<1> DEFINE p == [proc[d] EXCEPT !.step = "snapshot", !.running = loaded["xray"] /= Stopped]
<1>1. proc \in [Deploys -> Proc]
    BY DEF TypeOK
<1>2. p \in Proc
    BY <1>1 DEF Proc, Steps
<1>3. proc' = [proc EXCEPT ![d] = p]
    BY <1>1 DEF LockInbounds
<1>4. QED
    BY <1>1, <1>2, <1>3, FieldTypes DEF Moves, Proc

(* The part of Stage that succeeds.                                        *)
LEMMA StageMoves ==
    ASSUME TypeOK, NEW d \in Deploys,
           proc' = [proc EXCEPT ![d].step = "cert", ![d].before = <<cert, key>>]
    PROVE  /\ Moves(d, "cert") /\ proc'[d].reload = proc[d].reload
           /\ proc'[d].running = proc[d].running
           /\ proc'[d].before = <<cert, key>>
<1> DEFINE p == [proc[d] EXCEPT !.step = "cert", !.before = <<cert, key>>]
<1>1. proc \in [Deploys -> Proc]
    BY DEF TypeOK
<1>2. <<cert, key>> \in Pairs
    BY DEF TypeOK, Pairs
<1>3. p \in Proc
    BY <1>1, <1>2 DEF Proc, Steps
<1>4. proc' = [proc EXCEPT ![d] = p]
    BY <1>1
<1>5. QED
    BY <1>1, <1>3, <1>4, FieldTypes DEF Moves, Proc

LEMMA WsReceiveMoves ==
    ASSUME TypeOK, NEW d \in Deploys, NEW target \in SUBSET Services, WsReceive(d, target)
    PROVE  Moves(d, "wsCert")
<1> DEFINE p == [proc[d] EXCEPT !.step = "wsCert", !.reload = target, !.running = TRUE]
<1>1. proc \in [Deploys -> Proc]
    BY DEF TypeOK
<1>2. p \in Proc
    BY <1>1 DEF Proc, Steps
<1>3. proc' = [proc EXCEPT ![d] = p]
    BY <1>1 DEF WsReceive
<1>4. QED
    BY <1>1, <1>2, <1>3 DEF Moves, Proc

LEMMA ContinueMoves ==
    ASSUME TypeOK, NEW d \in Deploys, NEW step \in Steps, Continue(d, step)
    PROVE  /\ Moves(d, step) /\ Keeps(d)
           /\ result' \in [Deploys -> Results]
           /\ certDeployMu' \in Deploys \cup {Nobody}
           /\ inboundsMu' \in Deploys \cup {Nobody}
<1>1. CASE step = "done"
    BY <1>1, AnswerMoves DEF Continue, Results
<1>2. CASE step /= "done"
    BY <1>2, GotoMoves DEF Continue, Running, TypeOK
<1>3. QED
    BY <1>1, <1>2
-----------------------------------------------------------------------------
(* Type correctness.                                                       *)

LEMMA NextSteps ==
    ASSUME TypeOK, NEW d \in Deploys
    PROVE  AfterNginx(d) \in {"xray", "done"} /\ AfterFiles(d) \in {"nginx", "xray", "done"}
BY DEF AfterNginx, AfterFiles

LEMMA BlameTypes ==
    ASSUME TypeOK, NEW good \in BOOLEAN, Blame(good)
    PROVE  faults' \in 0..MaxFaults
BY DEF Blame, TypeOK

LEMMA LoadTypes ==
    ASSUME TypeOK, UnchangedFiles, NEW good \in BOOLEAN, NginxLoads(good) \/ XrayLoads(good)
    PROVE  /\ loaded' \in [Services -> Pairs \cup {Stopped}]
           /\ stoppedByHand' = stoppedByHand /\ faults' \in 0..MaxFaults
<1>1. <<cert, key>> \in Pairs
    BY DEF TypeOK, Pairs
<1>2. CASE NginxLoads(good)
    <2>1. faults' \in 0..MaxFaults
        BY <1>2, BlameTypes DEF NginxLoads, TypeOK
    <2>2. QED
        BY <1>1, <1>2, <2>1 DEF NginxLoads, TypeOK
<1>3. CASE XrayLoads(good)
    <2>1. faults' \in 0..MaxFaults
        BY <1>3, BlameTypes DEF XrayLoads
    <2>2. PICK now \in (IF good THEN {<<cert, key>>} ELSE {loaded["xray"], Stopped}) :
              loaded' = [loaded EXCEPT !["xray"] = now]
        BY <1>3 DEF XrayLoads
    <2>3. loaded["xray"] \in Pairs \cup {Stopped}
        BY DEF TypeOK, Services
    <2>4. now \in Pairs \cup {Stopped}
        BY <1>1, <2>3
    <2>5. QED
        BY <1>3, <2>1, <2>2, <2>4 DEF XrayLoads, TypeOK
<1>4. QED
    BY <1>2, <1>3

(* What TypeOK says of the two mutexes, the steps and the answers.          *)
MovesTyped ==
    /\ proc' \in [Deploys -> Proc] /\ result' \in [Deploys -> Results]
    /\ certDeployMu' \in Deploys \cup {Nobody} /\ inboundsMu' \in Deploys \cup {Nobody}

LEMMA AnswerTyped ==
    ASSUME TypeOK, NEW d \in Deploys, NEW r \in Results, Answer(d, r)
    PROVE  MovesTyped
BY AnswerMoves DEF Moves, MovesTyped

LEMMA GotoTyped ==
    ASSUME TypeOK, NEW d \in Deploys, NEW step \in Steps, Goto(d, step), Running
    PROVE  MovesTyped
BY GotoMoves DEF Moves, MovesTyped, Running, TypeOK

LEMMA ContinueTyped ==
    ASSUME TypeOK, NEW d \in Deploys, NEW step \in Steps, Continue(d, step)
    PROVE  MovesTyped
BY ContinueMoves DEF Moves, MovesTyped

LEMMA BlamedTyped ==
    ASSUME TypeOK, NEW d \in Deploys, NEW service \in Services, Blamed(d, service), Running
    PROVE  MovesTyped
BY BlamedMoves DEF Moves, MovesTyped, Running, TypeOK

LEMMA FilesTyped ==
    ASSUME TypeOK, MovesTyped, UnchangedServices, cert' \in Files, key' \in Files,
           gaveUp' \in BOOLEAN, faults' \in 0..MaxFaults
    PROVE  TypeOK'
BY DEF TypeOK, MovesTyped, UnchangedServices

LEMMA ServicesTyped ==
    ASSUME TypeOK, MovesTyped, UnchangedFiles, UNCHANGED gaveUp,
           NEW good \in BOOLEAN, NginxLoads(good) \/ XrayLoads(good)
    PROVE  TypeOK'
<1>1. /\ loaded' \in [Services -> Pairs \cup {Stopped}]
      /\ stoppedByHand' = stoppedByHand /\ faults' \in 0..MaxFaults
    BY LoadTypes
<1>2. cert' = cert /\ key' = key
    BY DEF UnchangedFiles
<1>3. QED
    BY <1>1, <1>2 DEF TypeOK, MovesTyped

LEMMA LockTypes ==
    ASSUME TypeOK, NEW d \in HttpDeploys,
           \/ \E target \in SUBSET Services, automatic \in BOOLEAN :
                  LockDeploys(d, target, automatic)
           \/ LockInbounds(d)
    PROVE  TypeOK'
<1>1. d \in Deploys
    BY DEF Deploys
<1>2. CASE \E target \in SUBSET Services, automatic \in BOOLEAN :
               LockDeploys(d, target, automatic)
    <2>1. PICK target \in SUBSET Services, automatic \in BOOLEAN :
              LockDeploys(d, target, automatic)
        BY <1>2
    <2>2. MovesTyped
        BY <1>1, <2>1, LockDeploysMoves DEF LockDeploys, Moves, MovesTyped, TypeOK
    <2>3. QED
        BY <2>1, <2>2, FilesTyped DEF LockDeploys, UnchangedFiles, TypeOK
<1>3. CASE LockInbounds(d)
    <2>1. MovesTyped
        BY <1>1, <1>3, LockInboundsMoves DEF LockInbounds, Moves, MovesTyped, TypeOK
    <2>2. QED
        BY <1>3, <2>1, FilesTyped DEF LockInbounds, UnchangedFiles, TypeOK
<1>4. QED
    BY <1>2, <1>3

LEMMA StepNames ==
    /\ \A step \in {"key", "restoreCert", "nginx", "xray", "undoKey", "redoCert",
                    "nginxAgain", "xrayAgain", "wsKey", "done"} : step \in Steps
    /\ "ok" \in Results /\ "failed" \in Results /\ "blocked" \in Results
    /\ "nginx" \in Services /\ "xray" \in Services
    /\ Deploys \subseteq Files /\ "torn" \in Files /\ TRUE \in BOOLEAN
BY DEF Steps, Results, Services, Files

LEMMA WriteTypes ==
    ASSUME TypeOK, NEW d \in HttpDeploys,
           Stage(d) \/ ReplaceCert(d) \/ ReplaceKey(d) \/ RestoreCert(d)
    PROVE  TypeOK'
<1> USE StepNames
<1>1. d \in Deploys /\ d \in Files
    BY DEF Deploys
<1>2. proc[d].before[1] \in Files
    BY <1>1, FieldTypes
<1>3. CASE Stage(d)
    <2>1. CASE Blame(FALSE) /\ Answer(d, "failed")
        BY <1>1, <1>3, <2>1, AnswerTyped, BlameTypes, FilesTyped
           DEF Stage, UnchangedFiles, TypeOK
    <2>2. CASE /\ proc' = [proc EXCEPT ![d].step = "cert", ![d].before = <<cert, key>>]
               /\ Running /\ UNCHANGED faults
        <3>1. MovesTyped
            BY <1>1, <2>2, StageMoves DEF Running, Moves, MovesTyped, TypeOK
        <3>2. QED
            BY <1>3, <2>2, <3>1, FilesTyped DEF Stage, UnchangedFiles, TypeOK
    <2>3. QED
        BY <1>3, <2>1, <2>2 DEF Stage
<1>4. CASE ReplaceCert(d)
    <2>1. MovesTyped
        BY <1>1, <1>4, AnswerTyped, GotoTyped DEF ReplaceCert
    <2>2. faults' \in 0..MaxFaults
        BY <1>4, BlameTypes DEF ReplaceCert, TypeOK
    <2>3. QED
        BY <1>1, <1>4, <2>1, <2>2, FilesTyped DEF ReplaceCert, TypeOK
<1>5. CASE ReplaceKey(d)
    <2>1. AfterFiles(d) \in Steps
        BY <1>1, NextSteps
    <2>2. MovesTyped
        BY <1>1, <1>5, <2>1, ContinueTyped, GotoTyped DEF ReplaceKey
    <2>3. faults' \in 0..MaxFaults
        BY <1>5, BlameTypes DEF ReplaceKey, TypeOK
    <2>4. QED
        BY <1>1, <1>5, <2>2, <2>3, FilesTyped DEF ReplaceKey, TypeOK
<1>6. CASE RestoreCert(d)
    <2>1. MovesTyped
        BY <1>1, <1>6, AnswerTyped DEF RestoreCert
    <2>2. faults' \in 0..MaxFaults
        BY <1>6, BlameTypes DEF RestoreCert, TypeOK
    <2>3. cert' \in Files /\ gaveUp' \in BOOLEAN
        BY <1>2, <1>6 DEF RestoreCert, TypeOK
    <2>4. QED
        BY <1>6, <2>1, <2>2, <2>3, FilesTyped DEF RestoreCert, TypeOK
<1>7. QED
    BY <1>3, <1>4, <1>5, <1>6

LEMMA UndoTypes ==
    ASSUME TypeOK, NEW d \in HttpDeploys, UndoCert(d) \/ UndoKey(d) \/ RedoCert(d)
    PROVE  TypeOK'
<1> USE StepNames
<1>1. d \in Deploys /\ d \in Files
    BY DEF Deploys
<1>2. proc[d].before[1] \in Files /\ proc[d].before[2] \in Files
    BY <1>1, FieldTypes
<1>3. CASE UndoCert(d)
    <2>1. MovesTyped
        BY <1>1, <1>3, AnswerTyped, GotoTyped DEF UndoCert
    <2>2. faults' \in 0..MaxFaults
        BY <1>3, BlameTypes DEF UndoCert, TypeOK
    <2>3. cert' \in Files /\ gaveUp' \in BOOLEAN
        BY <1>2, <1>3 DEF UndoCert, TypeOK
    <2>4. QED
        BY <1>3, <2>1, <2>2, <2>3, FilesTyped DEF UndoCert, TypeOK
<1>4. CASE UndoKey(d)
    <2>1. MovesTyped
        BY <1>1, <1>4, GotoTyped DEF UndoKey
    <2>2. faults' \in 0..MaxFaults
        BY <1>4, BlameTypes DEF UndoKey, TypeOK
    <2>3. key' \in Files
        BY <1>2, <1>4 DEF UndoKey, TypeOK
    <2>4. QED
        BY <1>4, <2>1, <2>2, <2>3, FilesTyped DEF UndoKey, TypeOK
<1>5. CASE RedoCert(d)
    <2>1. MovesTyped
        BY <1>1, <1>5, AnswerTyped DEF RedoCert
    <2>2. faults' \in 0..MaxFaults
        BY <1>5, BlameTypes DEF RedoCert, TypeOK
    <2>3. cert' \in Files /\ gaveUp' \in BOOLEAN
        BY <1>1, <1>5 DEF RedoCert, TypeOK
    <2>4. QED
        BY <1>5, <2>1, <2>2, <2>3, FilesTyped DEF RedoCert, TypeOK
<1>6. QED
    BY <1>3, <1>4, <1>5

LEMMA ReloadTypes ==
    ASSUME TypeOK, NEW d \in Deploys,
           \/ ReloadNginx(d) \/ RestartXray(d) \/ ReloadNginxAgain(d) \/ RestartXrayAgain(d)
           \/ WsRestartXray(d)
    PROVE  TypeOK'
<1> USE StepNames
<1>1. CASE ReloadNginx(d)
    <2>1. PICK good \in BOOLEAN :
              /\ NginxLoads(good)
              /\ IF good THEN Continue(d, AfterNginx(d))
                 ELSE IF d \in HttpDeploys THEN Blamed(d, "nginx") /\ Running
                 ELSE Answer(d, "failed")
        BY <1>1 DEF ReloadNginx
    <2>2. AfterNginx(d) \in Steps
        BY NextSteps
    <2>3. MovesTyped
        BY <2>1, <2>2, ContinueTyped, BlamedTyped, AnswerTyped
    <2>4. QED
        BY <1>1, <2>1, <2>3, ServicesTyped DEF ReloadNginx
<1>2. CASE RestartXray(d)
    <2>1. MovesTyped
        BY <1>2, AnswerTyped, BlamedTyped DEF RestartXray
    <2>2. QED
        BY <1>2, <2>1, ServicesTyped DEF RestartXray
<1>3. CASE ReloadNginxAgain(d)
    <2>1. MovesTyped
        BY <1>3, AnswerTyped, GotoTyped DEF ReloadNginxAgain
    <2>2. QED
        BY <1>3, <2>1, ServicesTyped DEF ReloadNginxAgain
<1>4. CASE RestartXrayAgain(d)
    <2>1. MovesTyped
        BY <1>4, AnswerTyped DEF RestartXrayAgain
    <2>2. QED
        BY <1>4, <2>1, ServicesTyped DEF RestartXrayAgain
<1>5. CASE WsRestartXray(d)
    <2>1. MovesTyped
        BY <1>5, AnswerTyped DEF WsRestartXray
    <2>2. CASE loaded["xray"] = Stopped
        BY <1>5, <2>1, <2>2, FilesTyped DEF WsRestartXray, UnchangedFiles, TypeOK
    <2>3. CASE loaded["xray"] /= Stopped
        BY <1>5, <2>1, <2>3, ServicesTyped DEF WsRestartXray
    <2>4. QED
        BY <2>2, <2>3
<1>6. QED
    BY <1>1, <1>2, <1>3, <1>4, <1>5

LEMMA WsTypes ==
    ASSUME TypeOK, NEW d \in WsDeploys,
           \/ \E target \in SUBSET Services : WsReceive(d, target)
           \/ WsWriteCert(d) \/ WsWriteKey(d)
    PROVE  TypeOK'
<1> USE StepNames
<1>1. d \in Deploys /\ d \in Files
    BY DEF Deploys
<1>2. CASE \E target \in SUBSET Services : WsReceive(d, target)
    <2>1. PICK target \in SUBSET Services : WsReceive(d, target)
        BY <1>2
    <2>2. MovesTyped
        BY <1>1, <2>1, WsReceiveMoves DEF WsReceive, Running, Moves, MovesTyped, TypeOK
    <2>3. QED
        BY <2>1, <2>2, FilesTyped DEF WsReceive, UnchangedFiles, TypeOK
<1>3. CASE WsWriteCert(d)
    <2>1. MovesTyped
        BY <1>1, <1>3, AnswerTyped, GotoTyped DEF WsWriteCert
    <2>2. faults' \in 0..MaxFaults
        BY <1>3, BlameTypes DEF WsWriteCert, TypeOK
    <2>3. cert' \in Files
        BY <1>1, <1>3 DEF WsWriteCert, TypeOK
    <2>4. QED
        BY <1>3, <2>1, <2>2, <2>3, FilesTyped DEF WsWriteCert, TypeOK
<1>4. CASE WsWriteKey(d)
    <2>1. AfterFiles(d) \in Steps
        BY <1>1, NextSteps
    <2>2. MovesTyped
        BY <1>1, <1>4, <2>1, ContinueTyped, AnswerTyped DEF WsWriteKey
    <2>3. faults' \in 0..MaxFaults
        BY <1>4, BlameTypes DEF WsWriteKey, TypeOK
    <2>4. key' \in Files
        BY <1>1, <1>4 DEF WsWriteKey, TypeOK
    <2>5. QED
        BY <1>4, <2>2, <2>3, <2>4, FilesTyped DEF WsWriteKey, TypeOK
<1>5. QED
    BY <1>2, <1>3, <1>4

LEMMA ByHandTypes ==
    ASSUME TypeOK, StopXray \/ StartXray
    PROVE  TypeOK'
<1>1. <<cert, key>> \in Pairs
    BY DEF TypeOK, Pairs
<1>2. loaded' \in [Services -> Pairs \cup {Stopped}] /\ stoppedByHand' \in BOOLEAN
    BY <1>1 DEF StopXray, StartXray, TypeOK
<1>3. QED
    BY <1>2 DEF StopXray, StartXray, TypeOK, UnchangedFiles, Running

LEMMA TypeStep == TypeOK /\ [Next]_vars => TypeOK'
<1> SUFFICES ASSUME TypeOK, [Next]_vars PROVE TypeOK'
    OBVIOUS
<1>1. ASSUME NEW d \in HttpDeploys, HttpStep(d) PROVE TypeOK'
    <2>1. d \in Deploys
        BY DEF Deploys
    <2>2. QED
        BY <1>1, <2>1, LockTypes, WriteTypes, UndoTypes, ReloadTypes DEF HttpStep
<1>2. ASSUME NEW d \in WsDeploys, WsStep(d) PROVE TypeOK'
    <2>1. d \in Deploys
        BY DEF Deploys
    <2>2. QED
        BY <1>2, <2>1, WsTypes, ReloadTypes DEF WsStep
<1>3. CASE StopXray \/ StartXray
    BY <1>3, ByHandTypes
<1>4. CASE UNCHANGED vars
    BY <1>4 DEF TypeOK, vars
<1>5. QED
    BY <1>1, <1>2, <1>3, <1>4 DEF Next

LEMMA TypeInit == Init => TypeOK
<1> SUFFICES ASSUME Init PROVE TypeOK
    OBVIOUS
<1>1. Old \in Files /\ <<Old, Old>> \in Pairs
    BY DEF Files, Pairs
<1>2. [step |-> "idle", reload |-> {}, running |-> FALSE,
       before |-> <<Old, Old>>, blamed |-> "nginx"] \in Proc
    BY <1>1, StepNames DEF Proc, Steps
<1>3. proc \in [Deploys -> Proc]
    BY <1>2 DEF Init
<1>4. result \in [Deploys -> Results] /\ loaded \in [Services -> Pairs \cup {Stopped}]
    BY <1>1, StepNames DEF Init, Results
<1>5. faults \in 0..MaxFaults
    BY DEF Init
<1>6. stoppedByHand \in BOOLEAN /\ gaveUp \in BOOLEAN
    BY DEF Init
<1>7. QED
    BY <1>1, <1>3, <1>4, <1>5, <1>6 DEF Init, TypeOK

(* Every variable of the deployments keeps to its type.                    *)
THEOREM TypeCorrect == Spec => []TypeOK
BY TypeInit, TypeStep, PTL DEF Spec
-----------------------------------------------------------------------------
(* The mutexes: a transaction holds certDeployMu from its first step to its *)
(* answer, and inboundsMu when it is to reload Xray.                       *)

Reported == {"ok", "failed", "blocked"}

(* A step of the transaction d that neither begins nor ends it.            *)
GoesOn(d) ==
    /\ proc[d].step \in HttpSteps \ {"lock"} /\ Running
    /\ \E step \in HttpSteps \ {"lock"} : Moves(d, step)
    /\ proc'[d].reload = proc[d].reload /\ proc'[d].running = proc[d].running

Ends(d) ==
    /\ proc[d].step \in HttpSteps \ {"lock"}
    /\ \E r \in Reported : Answer(d, r)

Begins(d) ==
    \E target \in SUBSET Services, automatic \in BOOLEAN : LockDeploys(d, target, automatic)

LEMMA HttpNames ==
    \A step \in {"snapshot", "cert", "key", "restoreCert", "nginx", "xray", "undoCert",
                 "undoKey", "redoCert", "nginxAgain", "xrayAgain"} :
        step \in HttpSteps \ {"lock"} /\ step \in Steps
BY DEF HttpSteps, Steps

LEMMA GotoGoesOn ==
    ASSUME TypeOK, NEW d \in Deploys, NEW step \in HttpSteps \ {"lock"},
           proc[d].step \in HttpSteps \ {"lock"}, Goto(d, step), Running
    PROVE  GoesOn(d)
BY GotoMoves DEF GoesOn, Keeps, HttpSteps

LEMMA BlamedGoesOn ==
    ASSUME TypeOK, NEW d \in Deploys, NEW service \in Services,
           proc[d].step \in HttpSteps \ {"lock"}, Blamed(d, service), Running
    PROVE  GoesOn(d)
BY BlamedMoves, HttpNames DEF GoesOn

LEMMA ContinueGoesOn ==
    ASSUME TypeOK, NEW d \in Deploys, NEW step \in (HttpSteps \ {"lock"}) \cup {"done"},
           proc[d].step \in HttpSteps \ {"lock"}, Continue(d, step)
    PROVE  GoesOn(d) \/ Ends(d)
BY GotoGoesOn DEF Continue, Ends, Reported

LEMMA HttpClasses ==
    ASSUME TypeOK, NEW d \in HttpDeploys, HttpStep(d)
    PROVE  Begins(d) \/ LockInbounds(d) \/ GoesOn(d) \/ Ends(d)
<1> USE HttpNames
<1>0. d \in Deploys /\ "failed" \in Reported /\ "ok" \in Reported /\ "blocked" \in Reported
    BY DEF Deploys, Reported
<1>1. CASE Stage(d)
    <2>1. At(d, "snapshot") => proc[d].step \in HttpSteps \ {"lock"}
        BY DEF At
    <2>2. CASE Answer(d, "failed")
        BY <1>0, <1>1, <2>1, <2>2 DEF Stage, Ends
    <2>3. CASE /\ proc' = [proc EXCEPT ![d].step = "cert", ![d].before = <<cert, key>>]
               /\ Running
        BY <1>0, <1>1, <2>1, <2>3, StageMoves DEF Stage, GoesOn
    <2>4. QED
        BY <1>1, <2>2, <2>3 DEF Stage
<1>2. CASE ReplaceCert(d)
    <2>1. proc[d].step \in HttpSteps \ {"lock"}
        BY <1>2 DEF ReplaceCert, At
    <2>2. QED
        BY <1>0, <1>2, <2>1, GotoGoesOn DEF ReplaceCert, Ends
<1>3. CASE ReplaceKey(d)
    <2>1. proc[d].step \in HttpSteps \ {"lock"}
        BY <1>3 DEF ReplaceKey, At
    <2>2. AfterFiles(d) \in (HttpSteps \ {"lock"}) \cup {"done"}
        BY <1>0, NextSteps
    <2>3. QED
        BY <1>0, <1>3, <2>1, <2>2, GotoGoesOn, ContinueGoesOn DEF ReplaceKey
<1>4. CASE RestoreCert(d)
    BY <1>0, <1>4 DEF RestoreCert, At, Ends
<1>5. CASE ReloadNginx(d)
    <2>1. proc[d].step \in HttpSteps \ {"lock"}
        BY <1>5 DEF ReloadNginx, At
    <2>2. AfterNginx(d) \in (HttpSteps \ {"lock"}) \cup {"done"}
        BY <1>0, NextSteps
    <2>3. QED
        BY <1>0, <1>5, <2>1, <2>2, BlamedGoesOn, ContinueGoesOn, StepNames DEF ReloadNginx
<1>6. CASE RestartXray(d)
    <2>1. proc[d].step \in HttpSteps \ {"lock"}
        BY <1>6 DEF RestartXray, At
    <2>2. QED
        BY <1>0, <1>6, <2>1, BlamedGoesOn, StepNames DEF RestartXray, Ends
<1>7. CASE UndoCert(d)
    <2>1. proc[d].step \in HttpSteps \ {"lock"}
        BY <1>7 DEF UndoCert, At
    <2>2. QED
        BY <1>0, <1>7, <2>1, GotoGoesOn DEF UndoCert, Ends
<1>8. CASE UndoKey(d)
    <2>1. proc[d].step \in HttpSteps \ {"lock"}
        BY <1>8 DEF UndoKey, At
    <2>2. QED
        BY <1>0, <1>8, <2>1, GotoGoesOn DEF UndoKey
<1>9. CASE RedoCert(d)
    BY <1>0, <1>9 DEF RedoCert, At, Ends
<1>10. CASE ReloadNginxAgain(d)
    <2>1. proc[d].step \in HttpSteps \ {"lock"}
        BY <1>10 DEF ReloadNginxAgain, At
    <2>2. QED
        BY <1>0, <1>10, <2>1, GotoGoesOn DEF ReloadNginxAgain, Ends
<1>11. CASE RestartXrayAgain(d)
    BY <1>0, <1>11 DEF RestartXrayAgain, At, Ends
<1>12. QED
    BY <1>1, <1>2, <1>3, <1>4, <1>5, <1>6, <1>7, <1>8, <1>9, <1>10, <1>11
       DEF HttpStep, Begins

(* A deployment by message moves on, and holds neither mutex.              *)
LEMMA WsClasses ==
    ASSUME TypeOK, MutexesHeld, NEW d \in WsDeploys, WsStep(d)
    PROVE  /\ \E step \in WsSteps \ {"idle"} : Moves(d, step)
           /\ certDeployMu' = certDeployMu /\ inboundsMu' = inboundsMu
<1>0. /\ d \in Deploys /\ certDeployMu /= d /\ inboundsMu /= d
      /\ "wsCert" \in WsSteps \ {"idle"} /\ "wsKey" \in WsSteps \ {"idle"}
      /\ "done" \in WsSteps \ {"idle"} /\ d \notin HttpDeploys
      /\ AfterFiles(d) \in WsSteps \ {"idle"} /\ AfterNginx(d) \in WsSteps \ {"idle"}
    BY NextSteps DEF Deploys, MutexesHeld, HoldsInbounds, WsSteps
<1>1. ASSUME NEW r \in Results, Answer(d, r)
      PROVE  /\ Moves(d, "done")
             /\ certDeployMu' = certDeployMu /\ inboundsMu' = inboundsMu
    BY <1>0, <1>1, AnswerMoves DEF Answer
<1>2. ASSUME NEW step \in WsSteps \ {"idle"}, Continue(d, step)
      PROVE  /\ Moves(d, step)
             /\ certDeployMu' = certDeployMu /\ inboundsMu' = inboundsMu
    <2>1. step \in Steps
        BY DEF WsSteps, Steps
    <2>2. CASE step = "done"
        BY <1>1, <1>2, <2>2, StepNames DEF Continue
    <2>3. CASE step /= "done"
        BY <1>0, <1>2, <2>1, <2>3, GotoMoves DEF Continue, Running
    <2>4. QED
        BY <2>2, <2>3
<1>3. CASE \E target \in SUBSET Services : WsReceive(d, target)
    BY <1>0, <1>3, WsReceiveMoves DEF WsReceive, Running
<1>4. CASE WsWriteCert(d)
    BY <1>0, <1>1, <1>4, GotoMoves, StepNames DEF WsWriteCert, Running
<1>5. CASE WsWriteKey(d)
    BY <1>0, <1>1, <1>2, <1>5, StepNames DEF WsWriteKey
<1>6. CASE ReloadNginx(d)
    BY <1>0, <1>1, <1>2, <1>6, StepNames DEF ReloadNginx
<1>7. CASE WsRestartXray(d)
    BY <1>0, <1>1, <1>7, StepNames DEF WsRestartXray
<1>8. QED
    BY <1>3, <1>4, <1>5, <1>6, <1>7 DEF WsStep

(* Nobody else is in a transaction while d is.                             *)
LEMMA OneAtATime ==
    ASSUME MutexesHeld, NEW d \in HttpDeploys, proc[d].step \in HttpSteps
    PROVE  /\ certDeployMu = d
           /\ \A e \in HttpDeploys \ {d} : proc[e].step \notin HttpSteps
BY DEF MutexesHeld

LEMMA HttpMutexes ==
    ASSUME TypeOK, MutexesHeld, NEW d \in HttpDeploys, HttpStep(d)
    PROVE  MutexesHeld'
<1>0. d \in Deploys /\ "lock" \in HttpSteps /\ "snapshot" \in HttpSteps \ {"lock"}
    BY DEF Deploys, HttpSteps, Steps
<1>1. CASE Begins(d)
    <2>1. /\ proc[d].step = "idle" /\ certDeployMu = Nobody
          /\ certDeployMu' = d /\ inboundsMu' = inboundsMu /\ Moves(d, "lock")
        BY <1>0, <1>1, LockDeploysMoves DEF Begins, LockDeploys, At
    <2>2. "idle" \notin HttpSteps
        BY DEF HttpSteps
    <2>3. QED
        BY <1>0, <2>1, <2>2 DEF MutexesHeld, HoldsInbounds, Moves, Deploys
<1>2. CASE LockInbounds(d)
    <2>1. /\ proc[d].step = "lock" /\ certDeployMu' = certDeployMu
          /\ Moves(d, "snapshot") /\ proc'[d].reload = proc[d].reload
          /\ "xray" \in proc[d].reload => inboundsMu = Nobody
          /\ inboundsMu' = IF "xray" \in proc[d].reload THEN d ELSE inboundsMu
        BY <1>0, <1>2, LockInboundsMoves DEF LockInbounds, At
    <2>2. QED
        BY <1>0, <2>1 DEF MutexesHeld, HoldsInbounds, Moves, Deploys
<1>3. CASE GoesOn(d)
    <2>1. PICK step \in HttpSteps \ {"lock"} : Moves(d, step)
        BY <1>3 DEF GoesOn
    <2>2. /\ proc[d].step \in HttpSteps \ {"lock"} /\ proc'[d].reload = proc[d].reload
          /\ certDeployMu' = certDeployMu /\ inboundsMu' = inboundsMu
        BY <1>3 DEF GoesOn, Running
    <2>3. QED
        BY <1>0, <2>1, <2>2 DEF MutexesHeld, HoldsInbounds, Moves, Deploys
<1>4. CASE Ends(d)
    <2>1. PICK r \in Reported : Answer(d, r)
        BY <1>4 DEF Ends
    <2>2. r \in Results
        BY DEF Reported, Results
    <2>3. Moves(d, "done") /\ certDeployMu = d
        BY <1>0, <1>4, <2>1, <2>2, AnswerMoves, OneAtATime DEF Ends
    <2>4. certDeployMu' = Nobody /\ inboundsMu' = IF inboundsMu = d THEN Nobody ELSE inboundsMu
        BY <2>1, <2>3 DEF Answer
    <2>5. "done" \notin HttpSteps
        BY DEF HttpSteps
    <2>6. QED
        BY <1>0, <1>4, <2>3, <2>4, <2>5 DEF MutexesHeld, HoldsInbounds, Moves, Deploys, Ends
<1>5. QED
    BY <1>1, <1>2, <1>3, <1>4, HttpClasses

LEMMA MutexStep ==
    ASSUME TypeOK, MutexesHeld, [Next]_vars
    PROVE  MutexesHeld'
<1>1. ASSUME NEW d \in WsDeploys, WsStep(d) PROVE MutexesHeld'
    <2>1. PICK step \in WsSteps \ {"idle"} : Moves(d, step)
        BY <1>1, WsClasses
    <2>2. certDeployMu' = certDeployMu /\ inboundsMu' = inboundsMu
        BY <1>1, WsClasses
    <2>3. d \in Deploys /\ d \notin HttpDeploys
        BY DEF Deploys
    <2>4. QED
        BY <2>1, <2>2, <2>3 DEF MutexesHeld, HoldsInbounds, Moves, Deploys
<1>2. CASE StopXray \/ StartXray \/ UNCHANGED vars
    BY <1>2 DEF StopXray, StartXray, vars, Running, MutexesHeld, HoldsInbounds
<1>3. QED
    BY <1>1, <1>2, HttpMutexes DEF Next

LEMMA MutexInit == Init => MutexesHeld
BY DEF Init, MutexesHeld, HoldsInbounds, HttpSteps, WsSteps, Deploys
-----------------------------------------------------------------------------
(* A service is reloaded because it was asked for, and Xray because it ran. *)

AskedAt(d) ==
    LET p == proc[d] IN
    /\ p.step \in {"nginx", "nginxAgain"} => "nginx" \in p.reload
    /\ p.step \in {"xray", "xrayAgain"} => "xray" \in p.reload /\ p.running
    /\ p.step \in {"undoCert", "undoKey", "redoCert", "nginxAgain"} =>
          /\ p.blamed \in p.reload
          /\ p.blamed = "xray" => p.running

LEMMA AskedParts ==
    /\ ReloadsAsked <=> \A d \in HttpDeploys : AskedAt(d)
    /\ ReloadsAsked' <=> \A d \in HttpDeploys : AskedAt(d)'
BY DEF ReloadsAsked, AskedAt

LEMMA ContinueAsked ==
    ASSUME TypeOK, NEW d \in Deploys,
           \/ Continue(d, AfterNginx(d))
           \/ Continue(d, AfterFiles(d))
    PROVE  AskedAt(d)'
<1>1. CASE Continue(d, AfterNginx(d))
    <2>1. AfterNginx(d) \in Steps
        BY NextSteps, StepNames
    <2>2. Moves(d, AfterNginx(d)) /\ Keeps(d)
        BY <1>1, <2>1, ContinueMoves
    <2>3. QED
        BY <2>2 DEF Moves, Keeps, AskedAt, AfterNginx
<1>2. CASE Continue(d, AfterFiles(d))
    <2>1. AfterFiles(d) \in Steps
        BY NextSteps, StepNames
    <2>2. Moves(d, AfterFiles(d)) /\ Keeps(d)
        BY <1>2, <2>1, ContinueMoves
    <2>3. QED
        BY <2>2 DEF Moves, Keeps, AskedAt, AfterFiles, AfterNginx
<1>3. QED
    BY <1>1, <1>2

LEMMA AnswerAsked ==
    ASSUME TypeOK, NEW d \in Deploys, NEW r \in Results, Answer(d, r)
    PROVE  AskedAt(d)'
BY AnswerMoves DEF Moves, AskedAt

LEMMA HttpAsked ==
    ASSUME TypeOK, NEW d \in HttpDeploys, AskedAt(d), HttpStep(d)
    PROVE  AskedAt(d)'
<1> USE StepNames
<1>0. d \in Deploys
    BY DEF Deploys
<1>1. CASE Begins(d) \/ LockInbounds(d)
    BY <1>0, <1>1, LockDeploysMoves, LockInboundsMoves DEF Begins, Moves, AskedAt
<1>2. CASE Stage(d)
    BY <1>0, <1>2, StageMoves, AnswerAsked DEF Stage, Moves, AskedAt
<1>3. CASE ReplaceCert(d)
    BY <1>0, <1>3, GotoMoves, AnswerAsked DEF ReplaceCert, Moves, AskedAt
<1>4. CASE ReplaceKey(d)
    <2>1. CASE Goto(d, "restoreCert")
        BY <1>0, <2>1, GotoMoves DEF Moves, AskedAt
    <2>2. QED
        BY <1>0, <1>4, <2>1, ContinueAsked DEF ReplaceKey
<1>5. CASE RestoreCert(d) \/ RedoCert(d) \/ RestartXrayAgain(d)
    BY <1>0, <1>5, AnswerAsked DEF RestoreCert, RedoCert, RestartXrayAgain
<1>6. CASE ReloadNginx(d)
    <2>1. CASE Blamed(d, "nginx")
        BY <1>0, <1>6, <2>1, BlamedMoves DEF ReloadNginx, At, Moves, AskedAt
    <2>2. QED
        BY <1>0, <1>6, <2>1, ContinueAsked DEF ReloadNginx
<1>7. CASE RestartXray(d)
    <2>1. CASE Blamed(d, "xray")
        BY <1>0, <1>7, <2>1, BlamedMoves DEF RestartXray, At, Moves, AskedAt
    <2>2. QED
        BY <1>0, <1>7, <2>1, AnswerAsked DEF RestartXray
<1>8. CASE UndoCert(d)
    <2>1. CASE Goto(d, "undoKey")
        BY <1>0, <1>8, <2>1, GotoMoves DEF UndoCert, At, Moves, Keeps, AskedAt
    <2>2. QED
        BY <1>0, <1>8, <2>1, AnswerAsked DEF UndoCert
<1>9. CASE UndoKey(d)
    <2>1. CASE Goto(d, "redoCert")
        BY <1>0, <1>9, <2>1, GotoMoves DEF UndoKey, At, Moves, Keeps, AskedAt
    <2>2. CASE Goto(d, IF "nginx" \in proc[d].reload THEN "nginxAgain" ELSE "xrayAgain")
        <3>1. proc[d].blamed \in Services
            BY <1>0, FieldTypes
        <3>2. CASE "nginx" \in proc[d].reload
            BY <1>0, <1>9, <2>2, <3>2, GotoMoves DEF UndoKey, At, Moves, Keeps, AskedAt
        <3>3. CASE "nginx" \notin proc[d].reload
            <4>1. proc[d].blamed = "xray" /\ "xray" \in proc[d].reload /\ proc[d].running
                BY <1>9, <3>1, <3>3 DEF UndoKey, At, AskedAt, Services
            <4>2. QED
                BY <1>0, <2>2, <3>3, <4>1, GotoMoves DEF Moves, Keeps, AskedAt
        <3>4. QED
            BY <3>2, <3>3
    <2>3. QED
        BY <1>9, <2>1, <2>2 DEF UndoKey
<1>10. CASE ReloadNginxAgain(d)
    <2>1. CASE proc[d].blamed = "xray" /\ Goto(d, "xrayAgain")
        BY <1>0, <1>10, <2>1, GotoMoves DEF ReloadNginxAgain, At, Moves, Keeps, AskedAt
    <2>2. QED
        BY <1>0, <1>10, <2>1, AnswerAsked DEF ReloadNginxAgain
<1>11. QED
    BY <1>1, <1>2, <1>3, <1>4, <1>5, <1>6, <1>7, <1>8, <1>9, <1>10 DEF HttpStep, Begins

(* Nobody's step changes but that of the deployment that takes it.         *)
LEMMA OthersStay ==
    ASSUME TypeOK, MutexesHeld, NEW d \in HttpDeploys, HttpStep(d)
    PROVE  /\ \A e \in Deploys \ {d} : proc'[e] = proc[e]
           /\ \E step \in HttpSteps \cup {"done"} : Moves(d, step)
<1>0. d \in Deploys /\ "lock" \in HttpSteps /\ "snapshot" \in HttpSteps
    BY DEF Deploys, HttpSteps, Steps
<1>1. CASE Ends(d)
    <2>1. PICK r \in Reported : Answer(d, r)
        BY <1>1 DEF Ends
    <2>2. r \in Results
        BY DEF Reported, Results
    <2>3. QED
        BY <1>0, <2>1, <2>2, AnswerMoves DEF Moves
<1>2. CASE Begins(d)
    BY <1>0, <1>2, LockDeploysMoves DEF Begins, Moves
<1>3. CASE LockInbounds(d)
    BY <1>0, <1>3, LockInboundsMoves DEF Moves
<1>4. CASE GoesOn(d)
    BY <1>4 DEF GoesOn, Moves
<1>5. QED
    BY <1>1, <1>2, <1>3, <1>4, HttpClasses

LEMMA AskedStep ==
    ASSUME TypeOK, MutexesHeld, ReloadsAsked, [Next]_vars
    PROVE  ReloadsAsked'
<1>1. ASSUME NEW d \in HttpDeploys, HttpStep(d) PROVE ReloadsAsked'
    <2>1. AskedAt(d)'
        BY <1>1, HttpAsked, AskedParts
    <2>2. ASSUME NEW e \in HttpDeploys \ {d} PROVE AskedAt(e)'
        <3>1. proc'[e] = proc[e]
            BY <1>1, OthersStay DEF Deploys
        <3>2. AskedAt(e)
            BY AskedParts
        <3>3. QED
            BY <3>1, <3>2 DEF AskedAt
    <2>3. QED
        BY <2>1, <2>2, AskedParts
<1>2. ASSUME NEW d \in WsDeploys, WsStep(d) PROVE ReloadsAsked'
    <2>1. \A e \in HttpDeploys : proc'[e] = proc[e]
        BY <1>2, WsClasses DEF Moves, Deploys
    <2>2. QED
        BY <2>1 DEF ReloadsAsked
<1>3. CASE StopXray \/ StartXray \/ UNCHANGED vars
    BY <1>3 DEF StopXray, StartXray, vars, ReloadsAsked
<1>4. QED
    BY <1>1, <1>2, <1>3 DEF Next

LEMMA AskedInit == Init => ReloadsAsked
BY DEF Init, ReloadsAsked, Deploys
-----------------------------------------------------------------------------
(* Xray is as the holder of inboundsMu read it, and a stop stays a stop.    *)

LEMMA LoadedByNginx ==
    ASSUME TypeOK, NEW good \in BOOLEAN, NginxLoads(good)
    PROVE  loaded'["xray"] = loaded["xray"] /\ stoppedByHand' = stoppedByHand
BY StepNames DEF NginxLoads, TypeOK

LEMMA LoadedByXray ==
    ASSUME TypeOK, NEW good \in BOOLEAN, XrayLoads(good)
    PROVE  /\ stoppedByHand' = stoppedByHand /\ loaded'["nginx"] = loaded["nginx"]
           /\ good => loaded'["xray"] = <<cert, key>> /\ faults' = faults
BY StepNames DEF XrayLoads, TypeOK, Blame

(* Only the steps that restart Xray change what it runs.                   *)
LEMMA XrayChangedBy ==
    ASSUME TypeOK, NEW d \in HttpDeploys, HttpStep(d)
    PROVE  /\ stoppedByHand' = stoppedByHand
           /\ \/ loaded'["xray"] = loaded["xray"]
              \/ proc[d].step \in {"xray", "xrayAgain"}
<1>1. CASE ReloadNginx(d) \/ ReloadNginxAgain(d)
    BY <1>1, LoadedByNginx DEF ReloadNginx, ReloadNginxAgain
<1>2. CASE RestartXray(d)
    BY <1>2, LoadedByXray DEF RestartXray, At
<1>3. CASE RestartXrayAgain(d)
    BY <1>3, LoadedByXray DEF RestartXrayAgain, At
<1>4. QED
    BY <1>1, <1>2, <1>3 DEF HttpStep, LockDeploys, LockInbounds, Stage, ReplaceCert, ReplaceKey,
       RestoreCert, UndoCert, UndoKey, RedoCert, UnchangedServices

LEMMA HttpXray ==
    ASSUME TypeOK, MutexesHeld, MutexesHeld', ReloadsAsked, XrayAsRead,
           NEW d \in HttpDeploys, HttpStep(d)
    PROVE  XrayAsRead'
<1>0. /\ d \in Deploys /\ "lock" \in HttpSteps
      /\ \A e \in HttpDeploys \ {d} : proc'[e] = proc[e]
    BY OthersStay DEF Deploys, HttpSteps, Steps
<1>1. stoppedByHand' = stoppedByHand
    BY XrayChangedBy
<1>2. CASE proc[d].step \in {"xray", "xrayAgain"}
    <2>1. /\ "xray" \in proc[d].reload /\ proc[d].running
          /\ HoldsInbounds(d)
        BY <1>2, HttpNames DEF ReloadsAsked, HoldsInbounds
    <2>2. ~stoppedByHand
        BY <2>1 DEF XrayAsRead
    <2>3. proc'[d].running = proc[d].running
        <3>1. proc[d].step \notin {"idle", "lock"}
            BY <1>2
        <3>2. ~Begins(d) /\ ~LockInbounds(d)
            BY <3>1 DEF Begins, LockDeploys, LockInbounds, At
        <3>3. CASE Ends(d)
            <4>1. PICK r \in Reported : Answer(d, r)
                BY <3>3 DEF Ends
            <4>2. r \in Results
                BY DEF Reported, Results
            <4>3. QED
                BY <1>0, <4>1, <4>2, AnswerMoves DEF Keeps
        <3>4. QED
            BY <3>2, <3>3, HttpClasses DEF GoesOn
    <2>4. ASSUME NEW e \in HttpDeploys \ {d} PROVE ~HoldsInbounds(e)'
        <3>1. ~HoldsInbounds(e)
            BY <2>1 DEF MutexesHeld, Deploys
        <3>2. QED
            BY <1>0, <3>1 DEF HoldsInbounds
    <2>5. QED
        BY <1>1, <2>1, <2>2, <2>3, <2>4 DEF XrayAsRead
<1>3. CASE loaded'["xray"] = loaded["xray"]
    <2>1. ASSUME NEW e \in HttpDeploys \ {d}, HoldsInbounds(e)'
          PROVE  IF proc'[e].running THEN ~stoppedByHand' ELSE loaded'["xray"] = Stopped
        <3>1. HoldsInbounds(e) /\ proc'[e] = proc[e]
            BY <1>0, <2>1 DEF HoldsInbounds
        <3>2. QED
            BY <1>1, <1>3, <3>1 DEF XrayAsRead
    <2>2. ASSUME HoldsInbounds(d)'
          PROVE  IF proc'[d].running THEN ~stoppedByHand' ELSE loaded'["xray"] = Stopped
        <3>1. CASE Begins(d)
            BY <1>0, <2>2, <3>1, LockDeploysMoves DEF Begins, Moves, HoldsInbounds
        <3>2. CASE LockInbounds(d)
            <4>1. proc'[d].running = (loaded["xray"] /= Stopped)
                BY <1>0, <3>2, LockInboundsMoves
            <4>2. QED
                BY <1>1, <1>3, <4>1 DEF XrayAsRead
        <3>3. CASE GoesOn(d)
            <4>1. HoldsInbounds(d) /\ proc'[d].running = proc[d].running
                BY <2>2, <3>3 DEF GoesOn, HoldsInbounds
            <4>2. QED
                BY <1>1, <1>3, <4>1 DEF XrayAsRead
        <3>4. CASE Ends(d)
            <4>1. PICK r \in Reported : Answer(d, r)
                BY <3>4 DEF Ends
            <4>2. r \in Results
                BY DEF Reported, Results
            <4>3. proc'[d].step = "done"
                BY <1>0, <4>1, <4>2, AnswerMoves DEF Moves
            <4>4. QED
                BY <2>2, <4>3 DEF HoldsInbounds, HttpSteps
        <3>5. QED
            BY <3>1, <3>2, <3>3, <3>4, HttpClasses
    <2>3. stoppedByHand' => loaded'["xray"] = Stopped
        BY <1>1, <1>3 DEF XrayAsRead
    <2>4. QED
        BY <2>1, <2>2, <2>3 DEF XrayAsRead
<1>4. QED
    BY <1>2, <1>3, XrayChangedBy

(* The hook of the WebSocket finds inboundsMu free, and asks whether Xray   *)
(* runs; so does whoever stops or starts it.                               *)
LEMMA NobodyHolds ==
    ASSUME MutexesHeld, inboundsMu = Nobody, NEW d \in HttpDeploys
    PROVE  ~HoldsInbounds(d)
BY DEF MutexesHeld, Deploys

LEMMA XrayStep ==
    ASSUME TypeOK, MutexesHeld, MutexesHeld', ReloadsAsked, XrayAsRead, [Next]_vars
    PROVE  XrayAsRead'
<1>1. ASSUME NEW d \in WsDeploys, WsStep(d) PROVE XrayAsRead'
    <2>0. \A e \in HttpDeploys : proc'[e] = proc[e]
        BY <1>1, WsClasses DEF Moves, Deploys
    <2>1. CASE loaded'["xray"] = loaded["xray"] /\ stoppedByHand' = stoppedByHand
        BY <2>0, <2>1 DEF XrayAsRead, HoldsInbounds
    <2>2. CASE WsRestartXray(d) /\ loaded["xray"] /= Stopped
        <3>1. \A e \in HttpDeploys : ~HoldsInbounds(e)
            BY <2>2, NobodyHolds DEF WsRestartXray
        <3>2. \A e \in HttpDeploys : ~HoldsInbounds(e)'
            BY <2>0, <3>1 DEF HoldsInbounds
        <3>3. stoppedByHand' = stoppedByHand
            BY <2>2, LoadedByXray DEF WsRestartXray
        <3>4. QED
            BY <2>2, <3>2, <3>3 DEF XrayAsRead
    <2>3. CASE ReloadNginx(d)
        BY <2>1, <2>3, LoadedByNginx DEF ReloadNginx
    <2>4. CASE \/ \E target \in SUBSET Services : WsReceive(d, target)
               \/ WsWriteCert(d) \/ WsWriteKey(d)
        BY <2>1, <2>4 DEF WsReceive, WsWriteCert, WsWriteKey, UnchangedServices
    <2>5. CASE WsRestartXray(d) /\ loaded["xray"] = Stopped
        BY <2>1, <2>5 DEF WsRestartXray, UnchangedServices
    <2>6. QED
        BY <1>1, <2>2, <2>3, <2>4, <2>5 DEF WsStep
<1>2. CASE StopXray \/ StartXray
    <2>1. \A e \in HttpDeploys : ~HoldsInbounds(e)
        BY <1>2, NobodyHolds DEF StopXray, StartXray
    <2>2. \A e \in HttpDeploys : ~HoldsInbounds(e)'
        BY <1>2, <2>1 DEF StopXray, StartXray, HoldsInbounds
    <2>3. stoppedByHand' => loaded'["xray"] = Stopped
        BY <1>2, StepNames DEF StopXray, StartXray, TypeOK
    <2>4. QED
        BY <2>2, <2>3 DEF XrayAsRead
<1>3. CASE UNCHANGED vars
    BY <1>3 DEF vars, XrayAsRead, HoldsInbounds
<1>4. QED
    BY <1>1, <1>2, <1>3, HttpXray DEF Next

LEMMA XrayInit == Init => XrayAsRead
BY DEF Init, XrayAsRead, HoldsInbounds, HttpSteps, Deploys
-----------------------------------------------------------------------------
(* The pair, step by step.                                                 *)

(* What the step of d must establish; the others are in no transaction.    *)
Kept(d) ==
    /\ PairAt(d)'
    /\ ~gaveUp' => WholeBefore(d)' /\ (proc'[d].step = "done" => WholePair')

LEMMA KeptIsEnough ==
    ASSUME TypeOK, MutexesHeld, MutexesHeld', NEW d \in HttpDeploys, HttpStep(d),
           proc[d].step \in HttpSteps \/ certDeployMu = Nobody,
           NoWsYet => Kept(d)
    PROVE  TransactionsInv'
<1>0. /\ \A e \in Deploys \ {d} : proc'[e] = proc[e]
      /\ \E step \in HttpSteps \cup {"done"} : Moves(d, step)
      /\ d \in Deploys /\ d \notin WsDeploys
    BY OthersStay DEF Deploys
<1>1. NoWsYet' => NoWsYet
    BY <1>0 DEF NoWsYet, At, Deploys
<1>2. ASSUME NEW e \in HttpDeploys \ {d} PROVE proc'[e].step \notin HttpSteps
    <2>1. proc[e].step \notin HttpSteps
        BY OneAtATime DEF MutexesHeld, Deploys
    <2>2. QED
        BY <1>0, <2>1 DEF Deploys
<1>3. \A e \in HttpDeploys \ {d} : PairAt(e)' /\ WholeBefore(e)'
    BY <1>2 DEF PairAt, WholeBefore, HttpSteps, Steps
<1>4. certDeployMu' = Nobody => proc'[d].step = "done"
    BY <1>0 DEF MutexesHeld, Moves
<1>5. QED
    BY <1>1, <1>3, <1>4 DEF TransactionsInv, Kept

LEMMA EndsKept ==
    ASSUME TypeOK, NEW d \in HttpDeploys, NEW r \in Results, Answer(d, r),
           ~gaveUp' => WholePair'
    PROVE  Kept(d)
<1>1. proc'[d].step = "done"
    BY AnswerMoves DEF Moves, Deploys
<1>2. QED
    BY <1>1 DEF Kept, PairAt, WholeBefore, HttpSteps

(* The whole pairs of a transaction.                                       *)
LEMMA WholePairs ==
    ASSUME TypeOK, NEW d \in HttpDeploys
    PROVE  /\ cert = d /\ key = d => WholePair
           /\ cert' = d /\ key' = d => WholePair'
           /\ /\ WholeBefore(d) /\ proc[d].step \in HttpSteps \ {"lock", "snapshot"}
              /\ cert' = proc[d].before[1] /\ key' = proc[d].before[2]
              => WholePair'
BY DEF WholePair, WholeBefore, Deploys

LEMMA BeginsKept ==
    ASSUME TypeOK, MutexesHeld, TransactionsInv, NoWsYet, NEW d \in HttpDeploys, Begins(d)
    PROVE  Kept(d)
<1>1. /\ proc'[d].step = "lock" /\ cert' = cert /\ key' = key /\ gaveUp' = gaveUp
      /\ certDeployMu = Nobody
    BY LockDeploysMoves DEF Begins, LockDeploys, UnchangedFiles, Moves, Deploys
<1>2. ~gaveUp => WholePair
    BY <1>1 DEF TransactionsInv
<1>3. QED
    BY <1>1, <1>2 DEF Kept, PairAt, WholeBefore, WholePair

LEMMA LockInboundsKept ==
    ASSUME TypeOK, TransactionsInv, NoWsYet, NEW d \in HttpDeploys, LockInbounds(d)
    PROVE  Kept(d)
<1>1. /\ proc'[d].step = "snapshot" /\ cert' = cert /\ key' = key /\ gaveUp' = gaveUp
      /\ proc[d].step = "lock"
    BY LockInboundsMoves DEF LockInbounds, At, UnchangedFiles, Moves, Deploys
<1>2. ~gaveUp => WholePair
    BY <1>1 DEF TransactionsInv, WholeBefore
<1>3. QED
    BY <1>1, <1>2 DEF Kept, PairAt, WholeBefore, WholePair

LEMMA StageKept ==
    ASSUME TypeOK, TransactionsInv, NoWsYet, NEW d \in HttpDeploys, Stage(d)
    PROVE  Kept(d)
<1>1. /\ cert' = cert /\ key' = key /\ gaveUp' = gaveUp /\ proc[d].step = "snapshot"
      /\ d \in Deploys
    BY DEF Stage, At, UnchangedFiles, Deploys
<1>2. ~gaveUp => WholePair
    BY <1>1 DEF TransactionsInv, WholeBefore
<1>3. CASE Answer(d, "failed")
    BY <1>1, <1>2, <1>3, EndsKept, StepNames DEF WholePair
<1>4. CASE proc' = [proc EXCEPT ![d].step = "cert", ![d].before = <<cert, key>>]
    <2>1. proc'[d].step = "cert" /\ proc'[d].before = <<cert, key>>
        BY <1>1, <1>4, StageMoves DEF Moves
    <2>2. QED
        BY <1>1, <1>2, <2>1 DEF Kept, PairAt, WholeBefore, WholePair
<1>5. QED
    BY <1>3, <1>4 DEF Stage

LEMMA ReplaceCertKept ==
    ASSUME TypeOK, TransactionsInv, NoWsYet, NEW d \in HttpDeploys, ReplaceCert(d)
    PROVE  Kept(d)
<1>1. /\ key' = key /\ gaveUp' = gaveUp /\ proc[d].step = "cert" /\ d \in Deploys
      /\ proc[d].step \in HttpSteps \ {"lock", "snapshot"}
    BY DEF ReplaceCert, At, Deploys, HttpSteps, Steps
<1>2. <<cert, key>> = proc[d].before /\ (~gaveUp => WholeBefore(d))
    BY <1>1 DEF TransactionsInv, PairAt
<1>3. cert = proc[d].before[1] /\ key = proc[d].before[2]
    BY <1>2
<1>4. CASE cert' = d /\ Goto(d, "key")
    <2>1. proc'[d].step = "key" /\ proc'[d].before = proc[d].before
        BY <1>1, <1>4, GotoMoves, StepNames DEF Moves, Keeps
    <2>2. PairAt(d)'
        BY <1>1, <1>3, <1>4, <2>1 DEF PairAt
    <2>3. ~gaveUp' => WholeBefore(d)'
        BY <1>1, <1>2, <2>1 DEF WholeBefore, HttpSteps, Steps
    <2>4. QED
        BY <2>1, <2>2, <2>3 DEF Kept
<1>5. CASE Answer(d, "failed") /\ cert' = cert
    BY <1>1, <1>2, <1>3, <1>5, EndsKept, StepNames, WholePairs
<1>6. QED
    BY <1>4, <1>5 DEF ReplaceCert

(* Where the transaction goes after its last file, or after nginx.         *)
LEMMA ContinueKept ==
    ASSUME TypeOK, NEW d \in HttpDeploys, cert' = d, key' = d,
           ~gaveUp' => WholeBefore(d), proc[d].step \in HttpSteps \ {"lock", "snapshot"},
           NEW step \in {"nginx", "xray", "done"}, Continue(d, step),
           step = "xray" /\ "nginx" \in proc[d].reload => loaded'["nginx"] = <<d, d>>
    PROVE  Kept(d)
<1>1. d \in Deploys /\ step \in Steps
    BY StepNames DEF Deploys
<1>2. proc'[d].step = step /\ Keeps(d)
    BY <1>1, ContinueMoves DEF Moves
<1>3. PairAt(d)'
    BY <1>2 DEF PairAt, Keeps
<1>4. ~gaveUp' => WholeBefore(d)'
    BY <1>2 DEF WholeBefore, Keeps, HttpSteps, Steps
<1>5. QED
    BY <1>3, <1>4, WholePairs DEF Kept

LEMMA ReplaceKeyKept ==
    ASSUME TypeOK, TransactionsInv, NoWsYet, NEW d \in HttpDeploys, ReplaceKey(d)
    PROVE  Kept(d)
<1>1. /\ cert' = cert /\ gaveUp' = gaveUp /\ proc[d].step = "key" /\ d \in Deploys
      /\ proc[d].step \in HttpSteps \ {"lock", "snapshot"}
    BY DEF ReplaceKey, At, Deploys, HttpSteps, Steps
<1>2. <<cert, key>> = <<d, proc[d].before[2]>> /\ (~gaveUp => WholeBefore(d))
    BY <1>1 DEF TransactionsInv, PairAt
<1>3. cert = d /\ key = proc[d].before[2]
    BY <1>2
<1>4. CASE key' = d /\ Continue(d, AfterFiles(d))
    <2>1. AfterFiles(d) = "xray" => "nginx" \notin proc[d].reload
        BY DEF AfterFiles
    <2>2. QED
        BY <1>1, <1>2, <1>3, <1>4, <2>1, NextSteps, ContinueKept
<1>5. CASE Goto(d, "restoreCert") /\ key' = key
    <2>1. proc'[d].step = "restoreCert" /\ proc'[d].before = proc[d].before
        BY <1>1, <1>5, GotoMoves, StepNames DEF Moves, Keeps
    <2>2. PairAt(d)'
        BY <1>1, <1>3, <1>5, <2>1 DEF PairAt
    <2>3. ~gaveUp' => WholeBefore(d)'
        BY <1>1, <1>2, <2>1 DEF WholeBefore, HttpSteps, Steps
    <2>4. QED
        BY <2>1, <2>2, <2>3 DEF Kept
<1>6. QED
    BY <1>4, <1>5 DEF ReplaceKey

LEMMA RestoreCertKept ==
    ASSUME TypeOK, TransactionsInv, NoWsYet, NEW d \in HttpDeploys, RestoreCert(d)
    PROVE  Kept(d)
<1>1. /\ key' = key /\ proc[d].step = "restoreCert"
      /\ proc[d].step \in HttpSteps \ {"lock", "snapshot"}
      /\ Answer(d, "failed")
      /\ gaveUp' \/ (gaveUp' = gaveUp /\ cert' = proc[d].before[1])
    BY DEF RestoreCert, At, HttpSteps, Steps
<1>2. <<cert, key>> = <<d, proc[d].before[2]>> /\ (~gaveUp => WholeBefore(d))
    BY <1>1 DEF TransactionsInv, PairAt
<1>3. QED
    BY <1>1, <1>2, EndsKept, StepNames, WholePairs

LEMMA BlamedKept ==
    ASSUME TypeOK, NEW d \in HttpDeploys, cert' = d, key' = d,
           ~gaveUp' => WholeBefore(d), proc[d].step \in HttpSteps \ {"lock", "snapshot"},
           NEW service \in Services, Blamed(d, service)
    PROVE  Kept(d)
<1>1. proc'[d].step = "undoCert" /\ proc'[d].before = proc[d].before
    BY BlamedMoves DEF Moves, Deploys
<1>2. PairAt(d)'
    BY <1>1 DEF PairAt
<1>3. ~gaveUp' => WholeBefore(d)'
    BY <1>1 DEF WholeBefore, HttpSteps, Steps
<1>4. QED
    BY <1>1, <1>2, <1>3 DEF Kept

LEMMA ReloadNginxKept ==
    ASSUME TypeOK, TransactionsInv, NoWsYet, NEW d \in HttpDeploys, ReloadNginx(d)
    PROVE  Kept(d)
<1>1. /\ cert' = cert /\ key' = key /\ gaveUp' = gaveUp /\ proc[d].step = "nginx"
      /\ proc[d].step \in HttpSteps \ {"lock", "snapshot"} /\ d \in Deploys
    BY DEF ReloadNginx, At, UnchangedFiles, HttpSteps, Steps, Deploys
<1>2. <<cert, key>> = <<d, d>> /\ (~gaveUp => WholeBefore(d))
    BY <1>1 DEF TransactionsInv, PairAt
<1>3. cert = d /\ key = d
    BY <1>2
<1>4. PICK good \in BOOLEAN :
          /\ NginxLoads(good)
          /\ IF good THEN Continue(d, AfterNginx(d)) ELSE Blamed(d, "nginx") /\ Running
    BY DEF ReloadNginx
<1>5. CASE good
    <2>1. loaded'["nginx"] = <<d, d>>
        BY <1>3, <1>4, <1>5, StepNames DEF NginxLoads, TypeOK
    <2>2. QED
        BY <1>1, <1>2, <1>3, <1>4, <1>5, <2>1, NextSteps, ContinueKept
<1>6. CASE ~good
    BY <1>1, <1>2, <1>3, <1>4, <1>6, BlamedKept, StepNames
<1>7. QED
    BY <1>5, <1>6

LEMMA RestartXrayKept ==
    ASSUME TypeOK, TransactionsInv, NoWsYet, NEW d \in HttpDeploys, RestartXray(d)
    PROVE  Kept(d)
<1>1. /\ cert' = cert /\ key' = key /\ gaveUp' = gaveUp /\ proc[d].step = "xray"
      /\ proc[d].step \in HttpSteps \ {"lock", "snapshot"}
    BY DEF RestartXray, At, UnchangedFiles, HttpSteps, Steps
<1>2. <<cert, key>> = <<d, d>> /\ (~gaveUp => WholeBefore(d))
    BY <1>1 DEF TransactionsInv, PairAt
<1>3. cert = d /\ key = d
    BY <1>2
<1>4. CASE \E r \in {"ok", "blocked"} : Answer(d, r)
    BY <1>1, <1>3, <1>4, EndsKept, StepNames, WholePairs
<1>5. CASE Blamed(d, "xray")
    BY <1>1, <1>2, <1>3, <1>5, BlamedKept, StepNames
<1>6. QED
    BY <1>4, <1>5 DEF RestartXray

LEMMA UndoCertKept ==
    ASSUME TypeOK, TransactionsInv, NoWsYet, NEW d \in HttpDeploys, UndoCert(d)
    PROVE  Kept(d)
<1>1. /\ key' = key /\ gaveUp' = gaveUp /\ proc[d].step = "undoCert"
      /\ proc[d].step \in HttpSteps \ {"lock", "snapshot"} /\ d \in Deploys
    BY DEF UndoCert, At, HttpSteps, Steps, Deploys
<1>2. <<cert, key>> = <<d, d>> /\ (~gaveUp => WholeBefore(d))
    BY <1>1 DEF TransactionsInv, PairAt
<1>3. cert = d /\ key = d
    BY <1>2
<1>4. CASE cert' = proc[d].before[1] /\ Goto(d, "undoKey")
    <2>1. proc'[d].step = "undoKey" /\ proc'[d].before = proc[d].before
        BY <1>1, <1>4, GotoMoves, StepNames DEF Moves, Keeps
    <2>2. PairAt(d)'
        BY <1>1, <1>3, <1>4, <2>1 DEF PairAt
    <2>3. ~gaveUp' => WholeBefore(d)'
        BY <1>1, <1>2, <2>1 DEF WholeBefore, HttpSteps, Steps
    <2>4. QED
        BY <2>1, <2>2, <2>3 DEF Kept
<1>5. CASE Answer(d, "failed") /\ cert' = cert
    BY <1>1, <1>3, <1>5, EndsKept, StepNames, WholePairs
<1>6. QED
    BY <1>4, <1>5 DEF UndoCert

LEMMA UndoKeyKept ==
    ASSUME TypeOK, TransactionsInv, NoWsYet, NEW d \in HttpDeploys, UndoKey(d)
    PROVE  Kept(d)
<1> DEFINE p == proc[d]
           next == IF "nginx" \in p.reload THEN "nginxAgain" ELSE "xrayAgain"
<1>1. /\ cert' = cert /\ gaveUp' = gaveUp /\ p.step = "undoKey"
      /\ p.step \in HttpSteps \ {"lock", "snapshot"} /\ d \in Deploys
    BY DEF UndoKey, At, HttpSteps, Steps, Deploys
<1>2. <<cert, key>> = <<p.before[1], d>> /\ (~gaveUp => WholeBefore(d))
    BY <1>1 DEF TransactionsInv, PairAt
<1>3. cert = p.before[1] /\ key = d
    BY <1>2
<1>4. CASE key' = p.before[2] /\ Goto(d, next)
    <2>1. next \in {"nginxAgain", "xrayAgain"}
        OBVIOUS
    <2>2. proc'[d].step = next /\ proc'[d].before = p.before
        BY <1>1, <1>4, <2>1, GotoMoves, StepNames DEF Moves, Keeps
    <2>3. <<cert', key'>> = p.before
        BY <1>1, <1>3, <1>4, FieldTypes
    <2>4. PairAt(d)'
        BY <2>1, <2>2, <2>3 DEF PairAt
    <2>5. ~gaveUp' => WholeBefore(d)'
        BY <1>1, <1>2, <2>1, <2>2 DEF WholeBefore, HttpSteps, Steps
    <2>6. QED
        BY <2>1, <2>2, <2>4, <2>5 DEF Kept
<1>5. CASE Goto(d, "redoCert") /\ key' = key
    <2>1. proc'[d].step = "redoCert" /\ proc'[d].before = p.before
        BY <1>1, <1>5, GotoMoves, StepNames DEF Moves, Keeps
    <2>2. PairAt(d)'
        BY <1>1, <1>3, <1>5, <2>1 DEF PairAt
    <2>3. ~gaveUp' => WholeBefore(d)'
        BY <1>1, <1>2, <2>1 DEF WholeBefore, HttpSteps, Steps
    <2>4. QED
        BY <2>1, <2>2, <2>3 DEF Kept
<1>6. QED
    BY <1>4, <1>5 DEF UndoKey

LEMMA RedoCertKept ==
    ASSUME TypeOK, TransactionsInv, NoWsYet, NEW d \in HttpDeploys, RedoCert(d)
    PROVE  Kept(d)
<1>1. /\ key' = key /\ proc[d].step = "redoCert" /\ Answer(d, "failed")
      /\ gaveUp' \/ cert' = d
    BY DEF RedoCert, At
<1>2. <<cert, key>> = <<proc[d].before[1], d>>
    BY <1>1 DEF TransactionsInv, PairAt
<1>3. QED
    BY <1>1, <1>2, EndsKept, StepNames, WholePairs

LEMMA AgainKept ==
    ASSUME TypeOK, TransactionsInv, NoWsYet, NEW d \in HttpDeploys,
           ReloadNginxAgain(d) \/ RestartXrayAgain(d)
    PROVE  Kept(d)
<1>1. /\ cert' = cert /\ key' = key /\ gaveUp' = gaveUp /\ d \in Deploys
      /\ proc[d].step \in {"nginxAgain", "xrayAgain"}
      /\ proc[d].step \in HttpSteps \ {"lock", "snapshot"}
    BY DEF ReloadNginxAgain, RestartXrayAgain, At, UnchangedFiles, HttpSteps, Steps, Deploys
<1>2. <<cert, key>> = proc[d].before /\ (~gaveUp => WholeBefore(d))
    BY <1>1 DEF TransactionsInv, PairAt
<1>3. cert = proc[d].before[1] /\ key = proc[d].before[2]
    BY <1>2
<1>4. CASE Answer(d, "failed")
    BY <1>1, <1>2, <1>3, <1>4, EndsKept, StepNames, WholePairs
<1>5. CASE Goto(d, "xrayAgain")
    <2>1. proc'[d].step = "xrayAgain" /\ proc'[d].before = proc[d].before
        BY <1>1, <1>5, GotoMoves, StepNames DEF Moves, Keeps
    <2>2. PairAt(d)'
        BY <1>1, <1>2, <2>1 DEF PairAt
    <2>3. ~gaveUp' => WholeBefore(d)'
        BY <1>1, <1>2, <2>1 DEF WholeBefore, HttpSteps, Steps
    <2>4. QED
        BY <2>1, <2>2, <2>3 DEF Kept
<1>6. QED
    BY <1>4, <1>5 DEF ReloadNginxAgain, RestartXrayAgain

LEMMA TransactionStep ==
    ASSUME TypeOK, MutexesHeld, MutexesHeld', TransactionsInv, [Next]_vars
    PROVE  TransactionsInv'
<1>1. ASSUME NEW d \in HttpDeploys, HttpStep(d) PROVE TransactionsInv'
    <2>1. NoWsYet => Kept(d)
        BY <1>1, BeginsKept, LockInboundsKept, StageKept, ReplaceCertKept, ReplaceKeyKept,
           RestoreCertKept, ReloadNginxKept, RestartXrayKept, UndoCertKept, UndoKeyKept,
           RedoCertKept, AgainKept
           DEF HttpStep, Begins
    <2>2. proc[d].step \in HttpSteps \/ certDeployMu = Nobody
        <3>1. "lock" \in HttpSteps
            BY DEF HttpSteps, Steps
        <3>2. QED
            BY <1>1, <3>1, HttpClasses
               DEF Begins, LockDeploys, LockInbounds, At, GoesOn, Ends
    <2>3. QED
        BY <1>1, <2>1, <2>2, KeptIsEnough
<1>2. ASSUME NEW d \in WsDeploys, WsStep(d) PROVE TransactionsInv'
    <2>1. proc'[d].step /= "idle"
        BY <1>2, WsClasses DEF Moves
    <2>2. QED
        BY <2>1 DEF TransactionsInv, NoWsYet, At
<1>3. CASE StopXray \/ StartXray
    <2>1. loaded'["nginx"] = loaded["nginx"] /\ cert' = cert /\ key' = key
        BY <1>3 DEF StopXray, StartXray, TypeOK, UnchangedFiles, Services
    <2>2. /\ proc' = proc /\ certDeployMu' = certDeployMu /\ gaveUp' = gaveUp
        BY <1>3 DEF StopXray, StartXray, Running
    <2>3. QED
        BY <2>1, <2>2 DEF TransactionsInv, PairAt, WholeBefore, WholePair, NoWsYet, At
<1>4. CASE UNCHANGED vars
    BY <1>4 DEF vars, TransactionsInv, PairAt, WholeBefore, WholePair, NoWsYet, At
<1>5. QED
    BY <1>1, <1>2, <1>3, <1>4 DEF Next

LEMMA TransactionInit == Init => TransactionsInv
BY DEF Init, TransactionsInv, PairAt, WholeBefore, WholePair, HttpSteps, Deploys

(* At every step of every deployment: who holds the two mutexes, why the    *)
(* step is taken, that Xray is as it was read under inboundsMu, and which   *)
(* file is of which deployment while only transactions replaced them.       *)
THEOREM CertInvariant == Spec => []CertInv
<1>1. Init => CertInv
    BY MutexInit, AskedInit, XrayInit, TransactionInit DEF CertInv
<1>2. TypeOK /\ CertInv /\ [Next]_vars => CertInv'
    BY MutexStep, AskedStep, XrayStep, TransactionStep DEF CertInv
<1>3. QED
    BY <1>1, <1>2, TypeCorrect, PTL DEF Spec
-----------------------------------------------------------------------------
(* What the invariant says of the pair at rest, and of the answers.        *)

LEMMA RestIsFree == TypeOK /\ MutexesHeld /\ AtRest => certDeployMu = Nobody
<1> SUFFICES ASSUME TypeOK, MutexesHeld, AtRest, certDeployMu /= Nobody PROVE FALSE
    OBVIOUS
<1>1. PICK d \in Deploys : certDeployMu = d
    BY DEF TypeOK
<1>2. d \in HttpDeploys /\ proc[d].step \in HttpSteps
    BY <1>1 DEF MutexesHeld, Deploys
<1>3. QED
    BY <1>1, <1>2 DEF AtRest, HttpSteps

(* As long as only HTTP deployments were received, the certificate and the *)
(* key at rest are those of one deployment, whatever failed on the way and *)
(* however the deployments followed each other, unless an undo itself      *)
(* failed and said so (cert_deploy_atomic.go).                             *)
THEOREM DeployedPairsMatch == Spec => []PairMatches
<1>1. TypeOK /\ CertInv => PairMatches
    BY RestIsFree DEF CertInv, TransactionsInv, PairMatches, EntryPointsAgree
<1>2. QED
    BY <1>1, TypeCorrect, CertInvariant, PTL

(* The answer of a transaction comes from its own step.                    *)
LEMMA AnsweredByOwnStep ==
    ASSUME TypeOK, NEW d \in HttpDeploys, [Next]_vars, result'[d] /= result[d]
    PROVE  HttpStep(d) /\ Answer(d, result'[d]) /\ result'[d] \in Reported
<1>0. d \in Deploys
    BY DEF Deploys
<1>1. ASSUME NEW e \in Deploys, NEW r \in Results, Answer(e, r) PROVE e = d /\ r = result'[d]
    BY <1>0, <1>1, AnswerMoves
<1>2. ASSUME NEW e \in HttpDeploys, HttpStep(e) PROVE e = d
    <2>1. e \in Deploys /\ Reported \subseteq Results
        BY DEF Deploys, Reported, Results
    <2>2. ~(result' = result)
        OBVIOUS
    <2>3. Ends(e)
        BY <1>2, <2>2, HttpClasses DEF Begins, LockDeploys, LockInbounds, GoesOn, Running
    <2>4. QED
        BY <1>1, <2>1, <2>3 DEF Ends
<1>3. ASSUME NEW e \in WsDeploys, WsStep(e) PROVE FALSE
    <2>1. e \in Deploys /\ e /= d
        BY DEF Deploys
    <2>2. ~(result' = result)
        OBVIOUS
    <2>3. \A r \in Results : ~Answer(e, r)
        BY <1>1, <2>1
    <2>4. CASE ReloadNginx(e)
        BY <2>1, <2>2, <2>3, <2>4, StepNames DEF ReloadNginx, Continue, Running, Deploys
    <2>5. CASE \/ \E target \in SUBSET Services : WsReceive(e, target)
               \/ WsWriteCert(e) \/ WsWriteKey(e)
        BY <2>2, <2>3, <2>5, StepNames
           DEF WsReceive, WsWriteCert, WsWriteKey, Continue, Running
    <2>6. CASE WsRestartXray(e)
        BY <2>3, <2>6, StepNames DEF WsRestartXray
    <2>7. QED
        BY <1>3, <2>4, <2>5, <2>6 DEF WsStep
<1>4. CASE StopXray \/ StartXray \/ UNCHANGED vars
    BY <1>4 DEF StopXray, StartXray, vars, Running
<1>5. HttpStep(d)
    BY <1>2, <1>3, <1>4 DEF Next
<1>6. Ends(d)
    BY <1>0, <1>5, HttpClasses DEF Begins, LockDeploys, LockInbounds, GoesOn, Running
<1>7. PICK r \in Reported : Answer(d, r)
    BY <1>6 DEF Ends
<1>8. r \in Results
    BY DEF Reported, Results
<1>9. QED
    BY <1>0, <1>1, <1>5, <1>7, <1>8

LEMMA AnswerIs ==
    ASSUME TypeOK, NEW d \in HttpDeploys, NEW r \in Results, Answer(d, r)
    PROVE  result'[d] = r
BY AnswerMoves DEF Deploys

(* A transaction that goes on has not answered.                            *)
LEMMA RunningAnswersNothing ==
    ASSUME NEW d \in HttpDeploys, result'[d] /= result[d]
    PROVE  ~Running
BY DEF Running

(* A success is reported from three places, with the new pair in place.    *)
LEMMA SuccessFrom ==
    ASSUME TypeOK, NEW d \in HttpDeploys, HttpStep(d),
           result'[d] = "ok", result[d] /= "ok"
    PROVE  \/ ReplaceKey(d) /\ key' = d /\ AfterFiles(d) = "done"
           \/ ReloadNginx(d) /\ AfterNginx(d) = "done" /\ NginxLoads(TRUE)
           \/ RestartXray(d) /\ XrayLoads(TRUE)
<1>1. ~Running /\ ~Answer(d, "failed")
    BY AnswerIs, StepNames, RunningAnswersNothing
<1>2. CASE ReplaceKey(d)
    BY <1>1, <1>2 DEF ReplaceKey, Continue
<1>3. CASE ReloadNginx(d)
    BY <1>1, <1>3 DEF ReloadNginx, Continue
<1>4. CASE RestartXray(d)
    BY <1>1, <1>4 DEF RestartXray
<1>5. CASE Begins(d) \/ LockInbounds(d)
    BY <1>5 DEF Begins, LockDeploys, LockInbounds
<1>6. QED
    BY <1>1, <1>2, <1>3, <1>4, <1>5
       DEF HttpStep, Begins, Stage, ReplaceCert, RestoreCert, UndoCert, UndoKey, RedoCert,
           ReloadNginxAgain, RestartXrayAgain

LEMMA SuccessStep ==
    ASSUME TypeOK, CertInv, NEW d \in HttpDeploys, [Next]_vars,
           NoWsYet, result'[d] = "ok", result[d] /= "ok"
    PROVE  /\ <<cert', key'>> = <<d, d>>
           /\ \A s \in proc[d].reload : loaded'[s] \in {<<d, d>>, Stopped}
<1>1. HttpStep(d) /\ d \in Deploys
    BY AnsweredByOwnStep DEF Deploys
<1>2. PairAt(d) /\ ReloadsAsked /\ XrayAsRead /\ proc[d].reload \subseteq Services
    BY <1>1, FieldTypes DEF CertInv, TransactionsInv
<1>3. HoldsInbounds(d) /\ ~proc[d].running => loaded["xray"] = Stopped
    BY <1>2 DEF XrayAsRead
<1>4. CASE ReplaceKey(d) /\ key' = d /\ AfterFiles(d) = "done"
    <2>1. proc[d].step = "key" /\ cert' = cert
        BY <1>4 DEF ReplaceKey, At
    <2>2. <<cert, key>> = <<d, proc[d].before[2]>>
        BY <1>2, <2>1 DEF PairAt
    <2>3. "nginx" \notin proc[d].reload /\ ("xray" \in proc[d].reload => ~proc[d].running)
        BY <1>4 DEF AfterFiles, AfterNginx
    <2>4. "xray" \in proc[d].reload => loaded["xray"] = Stopped
        BY <1>3, <2>1, <2>3, HttpNames DEF HoldsInbounds
    <2>5. loaded' = loaded
        BY <1>4 DEF ReplaceKey, UnchangedServices
    <2>6. QED
        BY <1>2, <1>4, <2>1, <2>2, <2>3, <2>4, <2>5 DEF Services
<1>5. CASE ReloadNginx(d) /\ AfterNginx(d) = "done" /\ NginxLoads(TRUE)
    <2>1. proc[d].step = "nginx" /\ cert' = cert /\ key' = key
        BY <1>5 DEF ReloadNginx, At, UnchangedFiles
    <2>2. <<cert, key>> = <<d, d>>
        BY <1>2, <2>1 DEF PairAt
    <2>3. loaded'["nginx"] = <<d, d>> /\ loaded'["xray"] = loaded["xray"]
        BY <1>5, <2>2, StepNames DEF NginxLoads, TypeOK
    <2>4. "xray" \in proc[d].reload => ~proc[d].running
        BY <1>5 DEF AfterNginx
    <2>5. "xray" \in proc[d].reload => loaded["xray"] = Stopped
        BY <1>3, <2>1, <2>4, HttpNames DEF HoldsInbounds
    <2>6. QED
        BY <1>2, <2>1, <2>2, <2>3, <2>5 DEF Services
<1>6. CASE RestartXray(d) /\ XrayLoads(TRUE)
    <2>1. proc[d].step = "xray" /\ cert' = cert /\ key' = key
        BY <1>6 DEF RestartXray, At, UnchangedFiles
    <2>2. <<cert, key>> = <<d, d>> /\ ("nginx" \in proc[d].reload => loaded["nginx"] = <<d, d>>)
        BY <1>2, <2>1 DEF PairAt
    <2>3. loaded'["xray"] = <<d, d>> /\ loaded'["nginx"] = loaded["nginx"]
        BY <1>6, <2>2, LoadedByXray
    <2>4. QED
        BY <1>2, <2>1, <2>2, <2>3 DEF Services
<1>7. QED
    BY <1>1, <1>4, <1>5, <1>6, SuccessFrom

(* When a transaction reports success, the files are its own and every     *)
(* service it was to reload has loaded them or does not run: inboundsMu,   *)
(* held from before Xray is looked at, keeps a stopped Xray stopped.       *)
THEOREM SuccessesAreLive == Spec => SuccessIsLive
<1>1. ASSUME TypeOK, CertInv, [Next]_vars
      PROVE  [ \A d \in HttpDeploys : NoWsYet /\ result'[d] = "ok" /\ result[d] /= "ok" =>
                  /\ <<cert', key'>> = <<d, d>>
                  /\ \A s \in proc[d].reload : loaded'[s] \in {<<d, d>>, Stopped} ]_vars
    BY <1>1, SuccessStep
<1>2. QED
    BY <1>1, TypeCorrect, CertInvariant, PTL DEF Spec, SuccessIsLive

LEMMA FailureStep ==
    ASSUME TypeOK, CertInv, NEW d \in HttpDeploys, [Next]_vars,
           NoWsYet, result'[d] = "failed", result[d] /= "failed", ~gaveUp'
    PROVE  <<cert', key'>> \in {<<d, d>>, proc[d].before} \/ At(d, "snapshot")
<1>1. HttpStep(d) /\ d \in Deploys
    BY AnsweredByOwnStep DEF Deploys
<1>2. PairAt(d) /\ proc[d].before = <<proc[d].before[1], proc[d].before[2]>>
    BY <1>1, FieldTypes DEF CertInv, TransactionsInv
<1>3. ~Running /\ ~Answer(d, "ok") /\ ~Answer(d, "blocked")
    BY AnswerIs, StepNames, RunningAnswersNothing
<1>4. CASE ReplaceCert(d)
    <2>1. proc[d].step = "cert" /\ cert' = cert /\ key' = key
        BY <1>3, <1>4 DEF ReplaceCert, At
    <2>2. QED
        BY <1>2, <2>1 DEF PairAt
<1>5. CASE ReplaceKey(d)
    BY <1>3, <1>5 DEF ReplaceKey, Continue
<1>6. CASE RestoreCert(d)
    <2>1. proc[d].step = "restoreCert" /\ cert' = proc[d].before[1] /\ key' = key
        BY <1>6 DEF RestoreCert, At
    <2>2. <<cert, key>> = <<d, proc[d].before[2]>>
        BY <1>2, <2>1 DEF PairAt
    <2>3. QED
        BY <1>2, <2>1, <2>2
<1>7. CASE ReloadNginx(d) \/ RestartXray(d)
    BY <1>3, <1>7 DEF ReloadNginx, RestartXray, Continue
<1>8. CASE UndoCert(d)
    <2>1. proc[d].step = "undoCert" /\ cert' = cert /\ key' = key
        BY <1>3, <1>8 DEF UndoCert, At
    <2>2. QED
        BY <1>2, <2>1 DEF PairAt
<1>9. CASE RedoCert(d)
    <2>1. proc[d].step = "redoCert" /\ cert' = d /\ key' = key
        BY <1>9 DEF RedoCert, At
    <2>2. <<cert, key>> = <<proc[d].before[1], d>>
        BY <1>2, <2>1 DEF PairAt
    <2>3. QED
        BY <2>1, <2>2
<1>10. CASE ReloadNginxAgain(d) \/ RestartXrayAgain(d)
    <2>1. proc[d].step \in {"nginxAgain", "xrayAgain"} /\ cert' = cert /\ key' = key
        BY <1>10 DEF ReloadNginxAgain, RestartXrayAgain, At, UnchangedFiles
    <2>2. QED
        BY <1>2, <2>1 DEF PairAt
<1>11. CASE UndoKey(d) \/ Begins(d) \/ LockInbounds(d)
    BY <1>3, <1>11 DEF UndoKey, Begins, LockDeploys, LockInbounds
<1>12. QED
    BY <1>1, <1>4, <1>5, <1>6, <1>7, <1>8, <1>9, <1>10, <1>11
       DEF HttpStep, Begins, Stage

(* A transaction that reports failure leaves the pair it found or, when    *)
(* only the key could not be put back, its own pair whole; a failure that  *)
(* could not be undone is reported as one (gaveUp).                        *)
THEOREM FailuresAreClean == Spec => FailureIsClean
<1>1. ASSUME TypeOK, CertInv, [Next]_vars
      PROVE  [ \A d \in HttpDeploys :
                  NoWsYet /\ result'[d] = "failed" /\ result[d] /= "failed" /\ ~gaveUp' =>
                  <<cert', key'>> \in {<<d, d>>, proc[d].before} \/ At(d, "snapshot") ]_vars
    BY <1>1, FailureStep
<1>2. QED
    BY <1>1, TypeCorrect, CertInvariant, PTL DEF Spec, FailureIsClean

(* No deployment, of either kind and however it fails, starts an Xray that *)
(* was stopped by hand (ReloadRunningXrayForCertificate).                  *)
THEOREM StoppedXrayIsLeftAlone == Spec => NeverRevivesXray
<1>1. ASSUME CertInv, CertInv', [Next]_vars
      PROVE  [ stoppedByHand /\ stoppedByHand' => loaded'["xray"] = Stopped ]_vars
    BY <1>1 DEF CertInv, XrayAsRead
<1>2. QED
    BY <1>1, CertInvariant, PTL DEF Spec, NeverRevivesXray

===============================================================================
