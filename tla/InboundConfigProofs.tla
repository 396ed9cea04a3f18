-------------------------- MODULE InboundConfigProofs --------------------------
(***************************************************************************)
(* InboundFence, for every value of its constants: what the fence file     *)
(* says of the Xray configuration, across failed writes and crashes.       *)
(***************************************************************************)
EXTENDS InboundFenceProofs

USE ConstantsAssumption

-----------------------------------------------------------------------------
(* The effect of each step on the fence file, the configuration and the     *)
(* handler that takes it. Most steps are quiet: they touch neither file.    *)

files == <<sidecar, sidecarSynced, config, configSynced>>
record == <<seen, added, removed>>

Continues == SameRequest /\ job'.prev = job.prev /\ job'.conditional = job.conditional

(* The handler is done, or waits, starts the core or recovers: it restores  *)
(* nothing any more.                                                        *)
Leaves ==
    /\ job'.step \notin FreshSteps \cup PrevSteps
    /\ \/ Continues
       \/ job'.kind \notin {"add", "remove", "save"} /\ ~job'.conditional

LEMMA ContinueFields ==
    ASSUME job \in Job, NEW step, Goto(step)
    PROVE  Continues /\ job'.step = step /\ job'.restored = job.restored
BY DEF Goto, Job, Continues, SameRequest

LEMMA TaskMore ==
    ASSUME NEW kind, NEW t, NEW m, NEW step
    PROVE  ~Task(kind, t, m, step).conditional
BY DEF Task

LEMMA FinishLeaves == ASSUME Finish PROVE Leaves
<1>1. job'.step = "idle" /\ job'.kind = "none" /\ ~job'.conditional
    BY TaskFields, TaskMore DEF Finish, Idle
<1>2. QED
    BY <1>1 DEF Leaves, FreshSteps, PrevSteps, WorkSteps, CarryingSteps, UndoSteps

LEMMA GotoLeaves ==
    ASSUME job \in Job, NEW step, Goto(step), step \notin FreshSteps \cup PrevSteps
    PROVE  Leaves
BY ContinueFields DEF Leaves

RestSteps == {"idle", "ensure", "start", "stop", "recover", "converge", "openFirewall",
              "resolve", "authorize", "down"}

LEMMA RestStepsLeave == \A step \in RestSteps : step \notin FreshSteps \cup PrevSteps
BY DEF RestSteps, FreshSteps, PrevSteps, WorkSteps, CarryingSteps, UndoSteps

LEMMA AfterRecoveryLeaves ==
    ASSUME job \in Job, NEW good, AfterRecovery(good)
    PROVE  Leaves
<1>1. CASE job' = Grant
    <2>1. job'.step \in RestSteps /\ job'.kind = "auth" /\ ~job'.conditional
        BY <1>1, TaskFields, TaskMore DEF Grant, RestSteps
    <2>2. QED
        BY <2>1, RestStepsLeave DEF Leaves
<1>2. CASE Goto("authorize") \/ Finish
    BY <1>2, GotoLeaves, FinishLeaves, RestStepsLeave DEF RestSteps
<1>3. QED
    BY <1>1, <1>2 DEF AfterRecovery

(* Where a quiet step takes a handler that still holds what it found.       *)
Edges ==
    {<<"firewall", "undoConfig">>, <<"firewall", "activate">>, <<"firewall", "limiter">>,
     <<"activate", "undoConfig">>, <<"activate", "commit">>,
     <<"deactivate", "delete">>, <<"limiter", "complete">>, <<"limiter", "undoConfig">>,
     <<"undoRuntime", "undoFirewall">>, <<"undoFirewall", "release">>,
     <<"editRuntime", "editUndo">>, <<"saveFirewall", "saveUndo">>}

GoesOn ==
    /\ Continues
    /\ <<job.step, job'.step>> \in Edges
    /\ job.step = "firewall" => (job'.step = "limiter" => job.kind /= "add")
                                /\ (job'.step = "activate" => job.kind = "add")
    /\ job.step = "undoRuntime" => job'.restored = job.restored
    /\ job.step = "undoFirewall" => job.restored

MutationQuiet == Firewall \/ Activate \/ Deactivate \/ ClearLimiter
                 \/ UndoRuntime \/ UndoFirewall
WriterQuiet == EditRuntime \/ EditUndoRuntime \/ SaveFirewall
RestQuiet == Recover \/ Converge \/ OpenFirewall \/ Authorize \/ StartXray \/ StopXray
             \/ ReadInventory
Quiet == MutationQuiet \/ WriterQuiet \/ RestQuiet

LEMMA QuietFiles ==
    ASSUME Quiet
    PROVE  UNCHANGED files /\ UNCHANGED <<added, removed>>
           /\ (~ReadInventory => UNCHANGED seen)
<1>1. CASE MutationQuiet
    BY <1>1 DEF MutationQuiet, Firewall, Activate, Deactivate, ClearLimiter, UndoRuntime,
        UndoFirewall, files, fenceFile, configFile, history, ReconcileFirewall
<1>2. CASE WriterQuiet
    BY <1>2 DEF WriterQuiet, EditRuntime, EditUndoRuntime, SaveFirewall,
        files, fenceFile, configFile, history, ReconcileFirewall
<1>3. CASE RestQuiet
    BY <1>3 DEF RestQuiet, Recover, Converge, OpenFirewall, Authorize, StartXray, StopXray,
        ReadInventory, files, fenceFile, configFile, history, ReconcileFirewall
<1>4. QED
    BY <1>1, <1>2, <1>3 DEF Quiet

LEMMA QuietMoves ==
    ASSUME TypeOK, FenceFileInv, Quiet
    PROVE  Leaves \/ GoesOn
<1>0. job \in Job
    BY DEF TypeOK
<1>1. CASE Firewall
    <2>1. PICK good \in BOOLEAN :
            Goto(IF ~good THEN "undoConfig"
                 ELSE IF job.kind = "add" THEN "activate" ELSE "limiter")
        BY <1>1 DEF Firewall
    <2>2. job.step = "firewall" /\ Continues
        BY <1>0, <1>1, <2>1, ContinueFields DEF Firewall
    <2>3. QED
        BY <1>0, <2>1, <2>2, ContinueFields DEF GoesOn, Edges
<1>2. CASE Activate
    <2>1. job.step = "activate" /\ (Goto("undoConfig") \/ Goto("commit") \/ Finish)
        BY <1>2 DEF Activate
    <2>2. QED
        BY <1>0, <2>1, ContinueFields, FinishLeaves DEF GoesOn, Edges
<1>3. CASE Deactivate
    <2>1. job.step = "deactivate" /\ (Goto("delete") \/ Finish)
        BY <1>3 DEF Deactivate
    <2>2. QED
        BY <1>0, <2>1, ContinueFields, FinishLeaves DEF GoesOn, Edges
<1>4. CASE ClearLimiter
    <2>1. job.step = "limiter" /\ (Goto("complete") \/ Goto("undoConfig"))
        BY <1>4 DEF ClearLimiter
    <2>2. QED
        BY <1>0, <2>1, ContinueFields DEF GoesOn, Edges
<1>5. CASE UndoRuntime
    <2>1. /\ job.step = "undoRuntime" /\ job'.step = "undoFirewall"
          /\ Continues /\ job'.restored = job.restored
        BY <1>0, <1>5 DEF UndoRuntime, Job, Continues, SameRequest
    <2>2. QED
        BY <2>1 DEF GoesOn, Edges
<1>6. CASE UndoFirewall
    <2>1. job.step = "undoFirewall"
        BY <1>6 DEF UndoFirewall
    <2>2. Finish \/ Goto("recover") \/ (Goto("release") /\ job.restored)
        BY <1>6 DEF UndoFirewall, AfterUndo
    <2>3. QED
        BY <1>0, <2>1, <2>2, ContinueFields, FinishLeaves, GotoLeaves, RestStepsLeave
        DEF GoesOn, Edges, RestSteps
<1>7. CASE WriterQuiet
    <2>1. \/ Finish
          \/ job.step = "editRuntime" /\ Goto("editUndo")
          \/ job.step = "saveFirewall" /\ Goto("saveUndo")
        BY <1>7 DEF WriterQuiet, EditRuntime, EditUndoRuntime, SaveFirewall
    <2>2. QED
        BY <1>0, <2>1, ContinueFields, FinishLeaves DEF GoesOn, Edges
<1>8. CASE RestQuiet
    <2>1. \/ Finish \/ \E good : AfterRecovery(good)
          \/ \E step \in RestSteps : Goto(step)
        BY <1>8 DEF RestQuiet, Recover, Converge, OpenFirewall, Authorize, StartXray,
            StopXray, ReadInventory, RestSteps
    <2>2. QED
        BY <1>0, <2>1, FinishLeaves, AfterRecoveryLeaves, GotoLeaves, RestStepsLeave
<1>9. QED
    BY <1>1, <1>2, <1>3, <1>4, <1>5, <1>6, <1>7, <1>8 DEF Quiet, MutationQuiet

(* The resolution of what is pending, by a handler that starts or by a      *)
(* recovery.                                                                *)
LEMMA ResolutionEffect ==
    ASSUME TypeOK, FenceFileInv, Ensure \/ Resolve
    PROVE  /\ UNCHANGED <<config, configSynced, seen, added, removed>>
           /\ \/ UNCHANGED <<sidecar, sidecarSynced>>
              \/ /\ AllResolvable(sidecar)
                 /\ sidecar' \in {sidecar, Resolved(sidecar)}
                 /\ sidecarSynced' \in {sidecarSynced, Resolved(sidecar)}
           /\ \/ Leaves
              \/ /\ Continues /\ job'.step \in FreshSteps /\ ~AnyPending(sidecar')
                 /\ job'.step = "save" => job.kind = "save"
<1>0. job \in Job /\ fences = sidecar /\ fences \in [Tags -> Fence]
    BY DEF TypeOK, FenceFileInv, MemoryIsFile, Up, Ensure, Resolve
<1>1. UNCHANGED <<config, configSynced, seen, added, removed>>
    BY DEF Ensure, Resolve, configFile, history
<1>2. \/ UNCHANGED <<sidecar, sidecarSynced>>
      \/ /\ AllResolvable(sidecar)
         /\ sidecar' \in {sidecar, Resolved(sidecar)}
         /\ sidecarSynced' \in {sidecarSynced, Resolved(sidecar)}
    <2>1. \/ UNCHANGED fenceFile
          \/ AllResolvable(fences) /\ \E o \in Outcomes : PersistFences(Resolved(fences), o)
        BY DEF Ensure, Resolve
    <2>2. QED
        BY <1>0, <2>1 DEF fenceFile, PersistFences
<1>3. CASE Resolve
    <2>1. \E good : AfterRecovery(good)
        BY <1>3 DEF Resolve
    <2>2. QED
        BY <1>0, <1>1, <1>2, <2>1, AfterRecoveryLeaves
<1>4. CASE Ensure
    <2>1. Finish \/ (Goto(FirstStep(job.kind)) /\ ~AnyPending(sidecar'))
        <3>1. ASSUME NEW o \in Outcomes, PersistFences(Resolved(fences), o), o = "ok"
              PROVE  ~AnyPending(sidecar')
            BY <1>0, <3>1, ResolvedIsClear DEF PersistFences
        <3>2. UNCHANGED fenceFile /\ ~AnyPending(fences) => ~AnyPending(sidecar')
            BY <1>0 DEF fenceFile
        <3>3. QED
            BY <1>4, <3>1, <3>2 DEF Ensure
    <2>2. /\ FirstStep(job.kind) \in FreshSteps \cup {"idle"}
          /\ FirstStep(job.kind) = "save" => job.kind = "save"
        BY DEF FirstStep, FreshSteps
    <2>3. Goto(FirstStep(job.kind)) =>
            Leaves \/ /\ Continues /\ job'.step \in FreshSteps
                      /\ job'.step = "save" => job.kind = "save"
        BY <1>0, <2>2, ContinueFields, GotoLeaves, RestStepsLeave DEF RestSteps
    <2>4. QED
        BY <1>1, <1>2, <2>1, <2>3, FinishLeaves
<1>5. QED
    BY <1>3, <1>4

(* The entries of the fence files that the handlers write.                  *)
LEMMA ResolvedEntries ==
    ASSUME NEW f \in [Tags -> Fence], NEW t \in Tags
    PROVE  /\ Resolved(f)[t].canceled = f[t].canceled
           /\ Resolved(f)[t].pending = NoPending
           /\ f[t].pending = NoPending => Resolved(f)[t] = f[t]
           /\ f[t].pending /= NoPending =>
                 Resolved(f)[t].owner = IF config[t].body = f[t].pending.intended
                                        THEN f[t].pending.owner ELSE f[t].pending.prevOwner
<1>1. Resolved(f)[t] = ResolvedEntry(f, t) /\ f[t] \in Fence
    BY DEF Resolved
<1>2. QED
    BY <1>1 DEF ResolvedEntry, HasPending, Fence

LEMMA ReservedEntries ==
    ASSUME TypeOK, fences = sidecar, NEW t \in Tags, NEW m
    PROVE  /\ \A s \in Tags : s /= t => Reserved(t, m)[s] = sidecar[s]
           /\ Reserved(t, m)[t].owner = sidecar[t].owner
           /\ Reserved(t, m)[t].canceled = sidecar[t].canceled
           /\ Reserved(t, m)[t].pending =
                    [owner |-> m, intended |-> Payload[m],
                     prevOwner |-> sidecar[t].owner, prevBody |-> config[t].body]
<1>1. sidecar \in [Tags -> Fence] /\ sidecar[t] \in Fence
    BY DEF TypeOK
<1>2. QED
    BY <1>1 DEF Reserved, Fence

LEMMA CommittedEntries ==
    ASSUME TypeOK, fences = sidecar, NEW t \in Tags, NEW m
    PROVE  /\ \A s \in Tags : s /= t => Committed(t, m)[s] = sidecar[s]
           /\ Committed(t, m)[t].owner = m
           /\ Committed(t, m)[t].canceled = sidecar[t].canceled
           /\ Committed(t, m)[t].pending = NoPending
<1>1. sidecar \in [Tags -> Fence] /\ sidecar[t] \in Fence
    BY DEF TypeOK
<1>2. QED
    BY <1>1 DEF Committed, Fence

LEMMA CancelledEntries ==
    ASSUME TypeOK, fences = sidecar, NEW t \in Tags, NEW m
    PROVE  /\ \A s \in Tags : s /= t => Cancelled(t, m)[s] = sidecar[s]
           /\ Cancelled(t, m)[t].owner = sidecar[t].owner
           /\ Cancelled(t, m)[t].canceled = sidecar[t].canceled \cup {m}
           /\ Cancelled(t, m)[t].pending = sidecar[t].pending
<1>1. sidecar \in [Tags -> Fence] /\ sidecar[t] \in Fence
    BY DEF TypeOK
<1>2. QED
    BY <1>1 DEF Cancelled, Fence

LEMMA ReleasedEntries ==
    ASSUME TypeOK, fences = sidecar, NEW t \in Tags
    PROVE  /\ \A s \in Tags : s /= t => Released(t)[s] = sidecar[s]
           /\ Released(t)[t].owner = NoId
           /\ Released(t)[t].canceled = sidecar[t].canceled
           /\ Released(t)[t].pending = sidecar[t].pending
<1>1. sidecar \in [Tags -> Fence] /\ sidecar[t] \in Fence
    BY DEF TypeOK
<1>2. QED
    BY <1>1 DEF Released, Fence

LEMMA WithdrawnEntries ==
    ASSUME TypeOK, fences = sidecar
    PROVE  /\ Withdrawn[job.tag] = job.saved
           /\ \A s \in Tags : s /= job.tag => Withdrawn[s] = sidecar[s]
BY JobFields DEF TypeOK, Withdrawn

(* A handler that starts its work on the configuration it finds.            *)
Begins ==
    /\ job'.kind = job.kind /\ job'.tag = job.tag /\ job'.id = job.id
    /\ job'.conditional = job.conditional /\ job'.prev = config

FilesGet(candidate) ==
    /\ sidecar' \in {sidecar, candidate}
    /\ sidecarSynced' \in {sidecarSynced, candidate}

LEMMA ReserveEffect ==
    ASSUME TypeOK, FenceFileInv, Reserve
    PROVE  /\ UNCHANGED <<config, configSynced, seen, added, removed>>
           /\ fences = sidecar /\ job.kind = "add" /\ ~AnyPending(sidecar)
           /\ \/ Leaves /\ UNCHANGED <<sidecar, sidecarSynced>>
              \/ /\ Begins /\ (job.conditional => Expected(job.tag))
                 /\ \/ /\ job.id = NoId /\ sidecar[job.tag].owner = NoId
                       /\ job'.step = "persist"
                       /\ UNCHANGED <<sidecar, sidecarSynced>>
                    \/ /\ job.id /= NoId /\ job.id \notin sidecar[job.tag].canceled
                       /\ job'.step \in {"persist", "unreserve"}
                       /\ job'.saved = sidecar[job.tag]
                       /\ sidecar' = Reserved(job.tag, job.id)
                       /\ FilesGet(Reserved(job.tag, job.id))
<1> DEFINE begun == [job EXCEPT !.prev = config, !.saved = fences[job.tag]]
<1>0. /\ job \in Job /\ job.step = "reserve" /\ fences = sidecar /\ job.kind = "add"
      /\ ~AnyPending(sidecar)
    BY DEF TypeOK, FenceFileInv, MemoryIsFile, Up, Reserve, StepsOfKind
<1>1. UNCHANGED <<config, configSynced, seen, added, removed>>
    BY DEF Reserve, configFile, history
<1>2. ASSUME NEW step, job' = [begun EXCEPT !.step = step]
      PROVE  Begins /\ job'.step = step /\ job'.saved = sidecar[job.tag]
    BY <1>0, <1>2 DEF Begins, Job
<1>3. CASE Finish /\ UNCHANGED fenceFile
    BY <1>0, <1>1, <1>3, FinishLeaves DEF fenceFile
<1>4. CASE /\ Admitted(job.tag, job.id) /\ job.id = NoId
           /\ job' = [begun EXCEPT !.step = "persist"] /\ UNCHANGED fenceFile
    BY <1>0, <1>1, <1>2, <1>4 DEF Admitted, fenceFile
<1>5. CASE /\ Admitted(job.tag, job.id) /\ job.id /= NoId
           /\ \E o \in Outcomes :
                /\ PersistFences(Reserved(job.tag, job.id), o)
                /\ \/ o = "ok" /\ job' = [begun EXCEPT !.step = "persist"]
                   \/ o = "unsynced" /\ job' = [begun EXCEPT !.step = "unreserve"]
                   \/ o = "lost" /\ Finish
    <2>1. PICK o \in Outcomes :
            /\ PersistFences(Reserved(job.tag, job.id), o)
            /\ \/ o = "ok" /\ job' = [begun EXCEPT !.step = "persist"]
               \/ o = "unsynced" /\ job' = [begun EXCEPT !.step = "unreserve"]
               \/ o = "lost" /\ Finish
        BY <1>5
    <2>2. CASE o = "lost"
        BY <1>0, <1>1, <2>1, <2>2, FinishLeaves DEF PersistFences
    <2>3. CASE o /= "lost"
        <3>1. /\ sidecar' = Reserved(job.tag, job.id)
              /\ FilesGet(Reserved(job.tag, job.id))
            BY <2>1, <2>3 DEF PersistFences, FilesGet
        <3>2. Begins /\ job'.step \in {"persist", "unreserve"}
              /\ job'.saved = sidecar[job.tag]
            BY <1>2, <2>1, <2>3
        <3>3. (job.conditional => Expected(job.tag))
              /\ job.id \notin sidecar[job.tag].canceled
            BY <1>0, <1>5 DEF Admitted
        <3>4. QED
            BY <1>0, <1>1, <1>5, <3>1, <3>2, <3>3
    <2>4. QED
        BY <2>2, <2>3
<1>6. QED
    BY <1>3, <1>4, <1>5 DEF Reserve

LEMMA WithdrawEffect ==
    ASSUME TypeOK, FenceFileInv, Unreserve \/ Release
    PROVE  /\ UNCHANGED <<config, configSynced, seen, added, removed>>
           /\ fences = sidecar /\ job.kind = "add"
           /\ FilesGet(Withdrawn) /\ Leaves
BY FinishLeaves
DEF Unreserve, Release, FenceFileInv, MemoryIsFile, Up, StepsOfKind, configFile,
    history, PersistFences, FilesGet

LEMMA PersistEffect ==
    ASSUME TypeOK, FenceFileInv, Persist
    PROVE  LET new == [config EXCEPT ![job.tag] =
                          [by |-> job.id, body |-> Payload[job.id]]]
           IN /\ UNCHANGED <<sidecar, sidecarSynced, seen, added, removed>>
              /\ job.kind = "add" /\ job.step = "persist"
              /\ config' \in {config, new} /\ configSynced' \in {configSynced, new}
              /\ Continues /\ job'.step \in {"firewall", "undoConfig"}
              /\ job'.step = "firewall" => config' = new /\ configSynced' = new
<1>0. job \in Job /\ job.step = "persist" /\ job.kind = "add"
    BY DEF TypeOK, FenceFileInv, Persist, StepsOfKind
<1>1. UNCHANGED <<sidecar, sidecarSynced, seen, added, removed>>
    BY DEF Persist, fenceFile, history
<1>2. PICK o \in Outcomes :
        /\ WriteConfig([config EXCEPT ![job.tag] =
                            [by |-> job.id, body |-> Payload[job.id]]], o)
        /\ Goto(IF o = "ok" THEN "firewall" ELSE "undoConfig")
    BY DEF Persist
<1>3. Continues /\ job'.step = IF o = "ok" THEN "firewall" ELSE "undoConfig"
    BY <1>0, <1>2, ContinueFields
<1>4. QED
    BY <1>0, <1>1, <1>2, <1>3 DEF WriteConfig

LEMMA DeleteEffect ==
    ASSUME TypeOK, FenceFileInv, Delete
    PROVE  LET new == [config EXCEPT ![job.tag] = NoInbound]
           IN /\ UNCHANGED <<sidecar, sidecarSynced, seen, added, removed>>
              /\ job.kind = "remove" /\ job.step = "delete"
              /\ config' \in {config, new} /\ configSynced' \in {configSynced, new}
              /\ Continues /\ job'.step \in {"firewall", "undoConfig"}
              /\ job'.step = "firewall" => config' = new /\ configSynced' = new
<1>0. job \in Job /\ job.step = "delete" /\ job.kind = "remove"
    BY DEF TypeOK, FenceFileInv, Delete, StepsOfKind
<1>1. UNCHANGED <<sidecar, sidecarSynced, seen, added, removed>>
    BY DEF Delete, fenceFile, history
<1>2. PICK o \in Outcomes :
        /\ WriteConfig([config EXCEPT ![job.tag] = NoInbound], o)
        /\ Goto(IF o = "ok" THEN "firewall" ELSE "undoConfig")
    BY DEF Delete
<1>3. Continues /\ job'.step = IF o = "ok" THEN "firewall" ELSE "undoConfig"
    BY <1>0, <1>2, ContinueFields
<1>4. QED
    BY <1>0, <1>1, <1>2, <1>3 DEF WriteConfig

LEMMA CommitEffect ==
    ASSUME TypeOK, FenceFileInv, Commit
    PROVE  LET t == job.tag
               m == job.id
           IN /\ UNCHANGED <<config, configSynced, seen, removed>>
              /\ fences = sidecar /\ job.kind = "add" /\ m \in Ids /\ Leaves
              /\ job'.kind = "none"
              /\ \/ UNCHANGED <<sidecar, sidecarSynced, added>>
                 \/ /\ HasPending(sidecar, t) /\ sidecar[t].pending.owner = m
                    /\ config[t].body = sidecar[t].pending.intended
                    /\ FilesGet(Committed(t, m))
                    /\ \/ UNCHANGED added
                       \/ /\ added' = [added EXCEPT ![t] = m]
                          /\ sidecar' = Committed(t, m) /\ sidecarSynced' = sidecar'
<1>0. job \in Job /\ job.step = "commit" /\ fences = sidecar /\ job.kind = "add"
      /\ job.id \in Ids
    BY JobFields DEF TypeOK, FenceFileInv, MemoryIsFile, Up, Commit, StepsOfKind
<1>1. /\ UNCHANGED <<config, configSynced, seen, removed>>
      /\ Leaves /\ job'.kind = "none"
    BY FinishLeaves, IdleDownKind DEF Commit, configFile, Finish
<1>2. CASE UNCHANGED <<fenceFile, added>>
    BY <1>0, <1>1, <1>2 DEF fenceFile
<1>3. ASSUME NEW o \in Outcomes, PersistFences(Committed(job.tag, job.id), o),
             added' = IF Acknowledged(o) THEN [added EXCEPT ![job.tag] = job.id] ELSE added
      PROVE  /\ FilesGet(Committed(job.tag, job.id))
             /\ \/ UNCHANGED added
                \/ /\ added' = [added EXCEPT ![job.tag] = job.id]
                   /\ sidecar' = Committed(job.tag, job.id) /\ sidecarSynced' = sidecar'
    BY <1>3 DEF PersistFences, FilesGet, Acknowledged
<1>4. QED
    BY <1>0, <1>1, <1>2, <1>3 DEF Commit

LEMMA CancelEffect ==
    ASSUME TypeOK, FenceFileInv, Cancel
    PROVE  LET t == job.tag
               m == job.id
           IN /\ UNCHANGED <<config, configSynced, seen, added>>
              /\ fences = sidecar /\ job.kind = "remove" /\ ~AnyPending(sidecar)
              /\ \/ UNCHANGED <<sidecar, sidecarSynced>>
                 \/ m \in Ids /\ FilesGet(Cancelled(t, m))
              /\ Leaves \/ (Begins /\ job'.step = "deactivate")
              /\ \/ UNCHANGED removed
                 \/ /\ m \in Ids /\ sidecar' = Cancelled(t, m) /\ Leaves
                    /\ sidecar[t].owner \notin {NoId, m}
                    /\ removed' = removed \cup {<<t, m>>}
<1>0. job \in Job /\ job.step = "cancel" /\ fences = sidecar /\ job.kind = "remove"
      /\ ~AnyPending(sidecar) /\ job.id \in Ids \cup {NoId}
    BY JobFields DEF TypeOK, FenceFileInv, MemoryIsFile, Up, Cancel, StepsOfKind
<1>1. UNCHANGED <<config, configSynced, seen, added>>
    BY DEF Cancel, configFile
<1>2. job' = [job EXCEPT !.step = "deactivate", !.prev = config]
        => Begins /\ job'.step = "deactivate"
    BY <1>0 DEF Begins, Job
<1>3. CASE job.id = NoId
    BY <1>0, <1>1, <1>2, <1>3, FinishLeaves DEF Cancel, fenceFile
<1>4. CASE job.id /= NoId
    <2>1. PICK o \in Outcomes :
            /\ PersistFences(Cancelled(job.tag, job.id), o)
            /\ IF o /= "ok" THEN Finish /\ UNCHANGED removed
               ELSE IF Superseded(job.tag, job.id)
                    THEN Finish /\ removed' = removed \cup {<<job.tag, job.id>>}
                    ELSE /\ job' = [job EXCEPT !.step = "deactivate", !.prev = config]
                         /\ UNCHANGED removed
        BY <1>4 DEF Cancel
    <2>2. FilesGet(Cancelled(job.tag, job.id))
          /\ (o = "ok" => sidecar' = Cancelled(job.tag, job.id))
        BY <2>1 DEF PersistFences, FilesGet
    <2>3. QED
        BY <1>0, <1>1, <1>2, <1>4, <2>1, <2>2, FinishLeaves DEF Superseded
<1>5. QED
    BY <1>3, <1>4

LEMMA CompleteEffect ==
    ASSUME TypeOK, FenceFileInv, Complete
    PROVE  LET t == job.tag
               m == job.id
           IN /\ UNCHANGED <<config, configSynced, seen, added>>
              /\ fences = sidecar /\ job.kind = "remove" /\ job.step = "complete"
              /\ Leaves
              /\ \/ UNCHANGED <<sidecar, sidecarSynced>>
                 \/ FilesGet(Released(t))
              /\ \/ UNCHANGED removed
                 \/ /\ m \in Ids /\ removed' = removed \cup {<<t, m>>}
                    /\ \/ sidecar' = Released(t)
                       \/ sidecar' = sidecar /\ sidecar[t].owner /= m
<1>0. job \in Job /\ job.step = "complete" /\ fences = sidecar /\ job.kind = "remove"
      /\ job.id \in Ids \cup {NoId}
    BY JobFields DEF TypeOK, FenceFileInv, MemoryIsFile, Up, Complete, StepsOfKind
<1>1. UNCHANGED <<config, configSynced, seen, added>> /\ Leaves
    BY FinishLeaves DEF Complete, configFile
<1>2. CASE /\ ~(fences[job.tag].owner /= NoId /\ job.id \in {NoId, fences[job.tag].owner})
           /\ removed' = IF job.id = NoId THEN removed
                         ELSE removed \cup {<<job.tag, job.id>>}
           /\ UNCHANGED <<fenceFile, budget>>
    BY <1>0, <1>1, <1>2 DEF fenceFile
<1>3. ASSUME NEW o \in Outcomes, PersistFences(Released(job.tag), o),
             IF o = "ok" THEN removed' = IF job.id = NoId THEN removed
                                         ELSE removed \cup {<<job.tag, job.id>>}
                         ELSE UNCHANGED removed
      PROVE  /\ FilesGet(Released(job.tag))
             /\ \/ UNCHANGED removed
                \/ /\ job.id \in Ids /\ removed' = removed \cup {<<job.tag, job.id>>}
                   /\ sidecar' = Released(job.tag)
    BY <1>0, <1>3 DEF PersistFences, FilesGet
<1>4. QED
    BY <1>0, <1>1, <1>2, <1>3 DEF Complete

LEMMA RestoreEffect ==
    ASSUME TypeOK, FenceFileInv, UndoConfig \/ EditUndo \/ SaveUndo
    PROVE  /\ UNCHANGED <<sidecar, sidecarSynced, seen, added, removed>>
           /\ config' \in {config, job.prev} /\ configSynced' \in {configSynced, job.prev}
           /\ \/ Leaves
              \/ /\ Continues
                 /\ <<job.step, job'.step>> \in {<<"undoConfig", "undoRuntime">>,
                        <<"editUndo", "editUndoRuntime">>, <<"saveUndo", "saveRefirewall">>}
                 /\ job.step = "undoConfig" /\ job'.restored => config' = job.prev
           /\ job.step \in {"undoConfig", "editUndo", "saveUndo"}
<1>0. job \in Job
    BY DEF TypeOK
<1>1. UNCHANGED <<sidecar, sidecarSynced, seen, added, removed>>
    BY DEF UndoConfig, EditUndo, SaveUndo, fenceFile, history
<1>2. PICK o \in Outcomes : WriteConfig(job.prev, o)
        /\ \/ /\ job.step = "undoConfig"
              /\ job' = [job EXCEPT !.step = "undoRuntime",
                                    !.restored = (o = "ok"), !.uncertain = (o /= "ok")]
           \/ job.step = "editUndo" /\ Goto("editUndoRuntime")
           \/ job.step = "saveUndo" /\ (Goto("saveRefirewall") \/ Finish)
    BY DEF UndoConfig, EditUndo, SaveUndo
<1>3. /\ config' \in {config, job.prev} /\ configSynced' \in {configSynced, job.prev}
      /\ o = "ok" => config' = job.prev
    BY <1>2 DEF WriteConfig
<1>4. CASE /\ job.step = "undoConfig"
           /\ job' = [job EXCEPT !.step = "undoRuntime",
                                 !.restored = (o = "ok"), !.uncertain = (o /= "ok")]
    <2>1. job'.restored <=> (o = "ok")
        BY <1>0, <1>4 DEF Job
    <2>2. Continues /\ job'.step = "undoRuntime"
        BY <1>0, <1>4 DEF Job, Continues, SameRequest
    <2>3. QED
        BY <1>1, <1>3, <1>4, <2>1, <2>2
<1>5. CASE job.step = "editUndo" /\ Goto("editUndoRuntime")
    BY <1>0, <1>1, <1>3, <1>5, ContinueFields
<1>6. CASE job.step = "saveUndo" /\ (Goto("saveRefirewall") \/ Finish)
    BY <1>0, <1>1, <1>3, <1>6, ContinueFields, FinishLeaves
<1>7. QED
    BY <1>2, <1>4, <1>5, <1>6

LEMMA EditEffect ==
    ASSUME TypeOK, Edit
    PROVE  /\ UNCHANGED <<sidecar, sidecarSynced, configSynced, seen, added, removed>>
           /\ job.step = "edit"
           /\ \/ UNCHANGED config
              \/ /\ config[job.tag].body /= Absent
                 /\ \E b \in EditBodies : config' = [config EXCEPT ![job.tag].body = b]
           /\ Leaves \/ (Begins /\ job'.step = "editRuntime")
<1>0. job \in Job
    BY DEF TypeOK
<1>1. UNCHANGED <<sidecar, sidecarSynced, seen, added, removed>> /\ job.step = "edit"
    BY DEF Edit, fenceFile, history
<1>2. job' = [job EXCEPT !.step = "editRuntime", !.prev = config]
        => Begins /\ job'.step = "editRuntime"
    BY <1>0 DEF Begins, Job
<1>3. CASE Finish /\ UNCHANGED configFile
    BY <1>1, <1>3, FinishLeaves DEF configFile
<1>4. CASE /\ config[job.tag].body /= Absent
           /\ \E good \in BOOLEAN, b \in EditBodies \cup {config[job.tag].body} :
                /\ WriteConfigUnsynced([config EXCEPT ![job.tag].body = b], good)
                /\ job' = IF good THEN [job EXCEPT !.step = "editRuntime", !.prev = config]
                                  ELSE Idle
    <2>1. Finish => Leaves
        BY FinishLeaves
    <2>2. [config EXCEPT ![job.tag].body = config[job.tag].body] = config
        <3>1. config \in [Tags -> Inbound] /\ config[job.tag] \in Inbound
            BY JobFields DEF TypeOK
        <3>2. [config[job.tag] EXCEPT !.body = config[job.tag].body] = config[job.tag]
            BY <3>1 DEF Inbound
        <3>3. QED
            BY <3>1, <3>2
    <2>3. QED
        BY <1>1, <1>2, <1>4, <2>1, <2>2 DEF WriteConfigUnsynced, Finish
<1>5. QED
    BY <1>3, <1>4 DEF Edit

LEMMA SaveEffect ==
    ASSUME TypeOK, Save
    PROVE  /\ UNCHANGED <<sidecar, sidecarSynced, configSynced, seen, added, removed>>
           /\ job.step = "save"
           /\ \A t \in Tags : config'[t] = config[t] \/ config'[t].by = Operator
           /\ Leaves \/ (Begins /\ job'.step = "saveFirewall")
<1>0. job \in Job
    BY DEF TypeOK
<1>1. UNCHANGED <<sidecar, sidecarSynced, seen, added, removed>> /\ job.step = "save"
    BY DEF Save, fenceFile, history
<1>2. job' = [job EXCEPT !.step = "saveFirewall", !.prev = config]
        => Begins /\ job'.step = "saveFirewall"
    BY <1>0 DEF Begins, Job
<1>3. Finish => Leaves
    BY FinishLeaves
<1>4. PICK good \in BOOLEAN, new \in [Tags -> UNION {SavedInbounds(t) : t \in Tags}] :
        /\ \A t \in Tags : new[t] \in SavedInbounds(t)
        /\ WriteConfigUnsynced(new, good)
        /\ job' = IF good THEN [job EXCEPT !.step = "saveFirewall", !.prev = config]
                          ELSE Idle
    BY DEF Save
<1>5. \A t \in Tags : new[t] = config[t] \/ new[t].by = Operator
    BY <1>4 DEF SavedInbounds
<1>6. QED
    BY <1>1, <1>2, <1>3, <1>4, <1>5 DEF WriteConfigUnsynced, Finish

LEMMA RequestsEffect ==
    ASSUME TypeOK, Requests
    PROVE  /\ UNCHANGED files /\ UNCHANGED <<seen, removed>>
           /\ job.step = "idle" /\ job'.step \in RestSteps
           /\ job'.conditional => job'.kind = "add" /\ job'.id /= NoId
           /\ \A t \in Tags : added'[t] \in {added[t], NoId}
           /\ job'.kind \in {"add", "remove"} => added'[job'.tag] = NoId
           /\ job'.kind = "save" => \A t \in Tags : added'[t] = NoId
<1>0. added \in [Tags -> Ids \cup {NoId}]
    BY DEF TypeOK
<1>1. ASSUME NEW kind, NEW t, NEW m, NEW step, Request(kind, t, m, step)
      PROVE  /\ job = Idle /\ UNCHANGED files /\ UNCHANGED <<seen, removed>>
             /\ job'.step = step /\ job'.kind = kind /\ job'.tag = t /\ job'.id = m
             /\ job'.conditional => kind = "add" /\ m /= NoId
    <2>1. PICK c \in (IF kind = "add" /\ m /= NoId /\ "list" \in Kinds
                      THEN BOOLEAN ELSE {FALSE}) :
            job' = [Task(kind, t, m, step) EXCEPT !.conditional = c]
        BY <1>1 DEF Request
    <2>2. /\ job'.step = step /\ job'.kind = kind /\ job'.tag = t /\ job'.id = m
          /\ job'.conditional = c
        BY <2>1 DEF Task
    <2>3. QED
        BY <1>1, <2>1, <2>2 DEF Request, files, fenceFile, configFile
<1>2. CASE Submit
    <2>1. CASE \E t \in Tags, m \in Ids \cup {NoId}, kind \in {"add", "remove"} :
                 /\ Request(kind, t, m, "ensure")
                 /\ added' = [added EXCEPT ![t] = NoId]
        <3>1. PICK t \in Tags, m \in Ids \cup {NoId}, kind \in {"add", "remove"} :
                /\ Request(kind, t, m, "ensure")
                /\ added' = [added EXCEPT ![t] = NoId]
            BY <2>1
        <3>2. QED
            BY <1>0, <1>1, <3>1, IdleDownFields DEF RestSteps
    <2>2. CASE \E t \in Tags, kind \in {"edit", "list"} :
                 Request(kind, t, NoId, "ensure") /\ UNCHANGED added
        BY <1>0, <1>1, <2>2, IdleDownFields DEF RestSteps
    <2>3. CASE /\ Request("save", AnyTag, NoId, "ensure")
               /\ added' = [t \in Tags |-> NoId]
        BY <1>0, <1>1, <2>3, IdleDownFields DEF RestSteps
    <2>4. QED
        BY <1>2, <2>1, <2>2, <2>3 DEF Submit
<1>3. CASE SetAuthorization
    <2>1. PICK step \in {"recover", "authorize"} : Request("auth", AnyTag, NoId, step)
        BY <1>3 DEF SetAuthorization
    <2>2. QED
        BY <1>0, <1>1, <1>3, <2>1, IdleDownFields DEF SetAuthorization, RestSteps
<1>4. CASE SubmitStart
    <2>1. job'.step = "start" /\ job'.kind = "start" /\ ~job'.conditional
        BY <1>4, TaskFields, TaskMore DEF SubmitStart
    <2>2. job = Idle /\ UNCHANGED files /\ UNCHANGED <<seen, added, removed>>
        BY <1>4 DEF SubmitStart, files, fenceFile, configFile, history
    <2>3. QED
        BY <2>1, <2>2, IdleDownFields DEF RestSteps
<1>5. CASE SubmitStop
    BY <1>0, <1>1, <1>5, IdleDownFields DEF SubmitStop, RestSteps
<1>6. QED
    BY <1>2, <1>3, <1>4, <1>5 DEF Requests

LEMMA BootEffect ==
    ASSUME Boot
    PROVE  /\ UNCHANGED files /\ UNCHANGED record
           /\ job'.step \in RestSteps /\ job'.kind = "boot" /\ ~job'.conditional
BY TaskFields, TaskMore DEF Boot, files, record, configFile, history, RestSteps

LEMMA CrashEffect ==
    ASSUME TypeOK, Crash
    PROVE  /\ UNCHANGED record
           /\ job'.step = "down" /\ job'.kind = "none" /\ ~job'.conditional
           /\ sidecar' \in {sidecar, sidecarSynced}
           /\ sidecarSynced' \in {sidecar, sidecarSynced}
           /\ config' \in {config, configSynced} /\ configSynced' \in {config, configSynced}
           /\ ~PowerLossToo => UNCHANGED files
<1>1. job'.step = "down" /\ job'.kind = "none" /\ ~job'.conditional
    BY TaskFields, TaskMore DEF Crash, Down
<1>2. QED
    BY <1>1 DEF Crash, files, record, fenceFile, configFile, history

(* The steps that touch no file, where only the agent can crash.            *)
Calm == Quiet \/ Requests \/ Boot \/ Crash \/ CoreDies \/ OperatorStarts
        \/ UNCHANGED vars

LEMMA CalmEffect ==
    ASSUME TypeOK, FenceFileInv, Calm, ~PowerLossToo
    PROVE  /\ UNCHANGED files /\ UNCHANGED removed
           /\ \/ job' = job
              \/ job'.step \notin FreshSteps \cup PrevSteps
              \/ GoesOn
<1>1. CASE Quiet
    BY <1>1, QuietFiles, QuietMoves DEF Leaves
<1>2. CASE Requests
    BY <1>2, RequestsEffect, RestStepsLeave
<1>3. CASE Boot
    BY <1>3, BootEffect, RestStepsLeave DEF record
<1>4. CASE Crash
    BY <1>4, CrashEffect, RestStepsLeave DEF record, RestSteps
<1>5. CASE CoreDies \/ OperatorStarts
    BY <1>5 DEF CoreDies, OperatorStarts, files, fenceFile, configFile, history
<1>6. CASE UNCHANGED vars
    BY <1>6 DEF vars, files, fenceFile, configFile, history
<1>7. QED
    BY <1>1, <1>2, <1>3, <1>4, <1>5, <1>6 DEF Calm

LEMMA StepCases ==
    ASSUME [Next]_vars
    PROVE  \/ Calm
           \/ Ensure \/ Resolve
           \/ Reserve \/ Unreserve \/ Release \/ Persist \/ Commit
           \/ Cancel \/ Delete \/ Complete
           \/ UndoConfig \/ EditUndo \/ SaveUndo
           \/ Edit \/ Save
BY DEF Next, Progress, Environment, Calm, Quiet, MutationQuiet, WriterQuiet, RestQuiet

-----------------------------------------------------------------------------
(* What is pending can always be decided.                                   *)

LEMMA AllSteps ==
    /\ FreshSteps = {"reserve", "cancel", "inventory", "edit", "save"}
    /\ WorkSteps = {"deactivate", "delete", "limiter", "complete", "editRuntime",
                    "editUndo", "editUndoRuntime", "saveFirewall", "saveUndo",
                    "saveRefirewall"}
    /\ CarryingSteps = {"undoConfig", "undoRuntime", "undoFirewall", "persist",
                        "firewall", "activate", "commit"}
    /\ PrevSteps = WorkSteps \cup CarryingSteps \cup {"unreserve", "release"}
BY DEF FreshSteps, WorkSteps, CarryingSteps, PrevSteps, UndoSteps

CarriesOn ==
    \/ /\ ~AnyPending(sidecar)
       /\ job.kind = "add" => job.id = NoId /\ sidecar[job.tag].owner = NoId
    \/ /\ job.kind = "add" /\ job.id /= NoId
       /\ sidecar[job.tag].pending =
             [owner |-> job.id, intended |-> Payload[job.id],
              prevOwner |-> job.saved.owner, prevBody |-> job.prev[job.tag].body]

LEMMA PendingParts ==
    PendingIsDecidable <=>
        /\ AllResolvable(sidecar)
        /\ job.step \in FreshSteps \cup WorkSteps => ~AnyPending(sidecar)
        /\ job.step \in CarryingSteps => CarriesOn
BY DEF PendingIsDecidable, CarriesOn

LEMMA PendingPartsNext ==
    ASSUME AllResolvable(sidecar)',
           job'.step \in FreshSteps \cup WorkSteps => ~AnyPending(sidecar'),
           job'.step \in CarryingSteps => CarriesOn'
    PROVE  PendingIsDecidable'
BY DEF PendingIsDecidable, CarriesOn, AnyPending, HasPending

(* A handler that leaves, or goes on without touching a file, leaves what   *)
(* it relies on.                                                            *)
LEMMA PendingCalm ==
    ASSUME TypeOK, FenceFileInv, PendingIsDecidable, UNCHANGED <<sidecar, config>>,
           \/ job' = job
           \/ job'.step \notin FreshSteps \cup PrevSteps
           \/ GoesOn
    PROVE  PendingIsDecidable'
<1>1. AllResolvable(sidecar)'
    BY DEF PendingIsDecidable, AllResolvable, Resolvable, HasPending
<1>2. CASE job' = job
    BY <1>1, <1>2 DEF PendingIsDecidable, AnyPending, HasPending
<1>3. CASE job'.step \notin FreshSteps \cup PrevSteps
    BY <1>1, <1>3, AllSteps DEF PendingIsDecidable
<1>4. CASE GoesOn
    <2>1. CarriesOn => CarriesOn'
        BY <1>4 DEF GoesOn, Continues, SameRequest, CarriesOn, AnyPending, HasPending
    <2>2. ~AnyPending(sidecar) => ~AnyPending(sidecar')
        BY DEF AnyPending, HasPending
    <2>3. job.step = "limiter" => job.kind = "remove"
        BY DEF FenceFileInv, StepsOfKind
    <2>4. job'.kind = job.kind
        BY <1>4 DEF GoesOn, Continues, SameRequest
    <2>5. job'.step \in WorkSteps => ~AnyPending(sidecar')
        <3>1. job'.step \in WorkSteps =>
                \/ job.step \in WorkSteps
                \/ job.step = "firewall" /\ job.kind /= "add"
            BY <1>4, AllSteps DEF GoesOn, Edges
        <3>2. QED
            BY <2>2, <3>1, AllSteps, PendingParts DEF CarriesOn
    <2>6. job'.step \in CarryingSteps => CarriesOn'
        <3>1. job'.step \in CarryingSteps =>
                job.step \in CarryingSteps \/ job.step = "limiter"
            BY <1>4, AllSteps DEF GoesOn, Edges
        <3>2. CASE job.step = "limiter"
            BY <2>2, <2>3, <2>4, <3>2, AllSteps, PendingParts DEF CarriesOn
        <3>3. QED
            BY <2>1, <3>1, <3>2, PendingParts
    <2>7. job'.step \notin FreshSteps
        BY <1>4, AllSteps DEF GoesOn, Edges
    <2>8. QED
        BY <1>1, <2>5, <2>6, <2>7, PendingPartsNext
<1>5. QED
    BY <1>2, <1>3, <1>4

LEMMA PendingNothing ==
    ASSUME ~AnyPending(sidecar'), job'.step \in CarryingSteps => CarriesOn'
    PROVE  PendingIsDecidable'
<1>1. AllResolvable(sidecar)'
    BY DEF AllResolvable, AnyPending, HasPending
<1>2. QED
    BY <1>1, PendingPartsNext

LEMMA NothingWritten ==
    ASSUME TypeOK, fences = sidecar, ~AnyPending(sidecar), NEW t \in Tags, NEW m,
           \/ UNCHANGED sidecar
           \/ FilesGet(Cancelled(t, m)) \/ FilesGet(Released(t)) \/ FilesGet(Committed(t, m))
    PROVE  ~AnyPending(sidecar')
<1>1. \A s \in Tags : sidecar[s].pending = NoPending
    BY DEF AnyPending, HasPending
<1>2. \A s \in Tags :
        /\ Cancelled(t, m)[s].pending = NoPending /\ Released(t)[s].pending = NoPending
        /\ Committed(t, m)[s].pending = NoPending
    BY <1>1, CancelledEntries, ReleasedEntries, CommittedEntries
<1>3. QED
    BY <1>1, <1>2 DEF AnyPending, HasPending, FilesGet

LEMMA PendingAddSteps ==
    ASSUME TypeOK, FenceFileInv, PendingIsDecidable,
           Reserve \/ Unreserve \/ Release \/ Persist \/ Commit
    PROVE  PendingIsDecidable'
<1>0. /\ job.tag \in Tags /\ job.id \in Ids \cup {NoId} /\ job.prev \in [Tags -> Inbound]
      /\ config \in [Tags -> Inbound]
    BY JobFields DEF TypeOK
<1>1. CASE Reserve
    <2>1. CASE Leaves /\ UNCHANGED <<sidecar, sidecarSynced>>
        <3>1. UNCHANGED config
            BY <1>1, ReserveEffect
        <3>2. QED
            BY <2>1, <3>1, PendingCalm DEF Leaves
    <2>2. CASE /\ Begins /\ job.id = NoId /\ sidecar[job.tag].owner = NoId
               /\ UNCHANGED <<sidecar, sidecarSynced>>
        <3>1. ~AnyPending(sidecar') /\ CarriesOn'
            BY <1>1, <2>2, ReserveEffect DEF CarriesOn, Begins, AnyPending, HasPending
        <3>2. QED
            BY <3>1, PendingNothing
    <2>3. CASE /\ Begins /\ job.id /= NoId
               /\ job'.step \in {"persist", "unreserve"}
               /\ job'.saved = sidecar[job.tag]
               /\ sidecar' = Reserved(job.tag, job.id)
        <3>1. /\ fences = sidecar /\ ~AnyPending(sidecar) /\ job.kind = "add"
              /\ UNCHANGED config
            BY <1>1, ReserveEffect
        <3>2. /\ sidecar'[job.tag].owner = sidecar[job.tag].owner
              /\ sidecar'[job.tag].pending =
                    [owner |-> job.id, intended |-> Payload[job.id],
                     prevOwner |-> sidecar[job.tag].owner, prevBody |-> config[job.tag].body]
              /\ \A s \in Tags : s /= job.tag => sidecar'[s] = sidecar[s]
            BY <1>0, <2>3, <3>1, ReservedEntries
        <3>3. \A s \in Tags : s /= job.tag => ~HasPending(sidecar', s)
            BY <3>1, <3>2 DEF AnyPending, HasPending
        <3>4. AllResolvable(sidecar)'
            BY <3>1, <3>2, <3>3 DEF AllResolvable, Resolvable
        <3>5. CarriesOn'
            BY <2>3, <3>1, <3>2 DEF CarriesOn, Begins
        <3>6. QED
            BY <2>3, <3>4, <3>5, AllSteps, PendingPartsNext
    <2>4. QED
        BY <1>1, <2>1, <2>2, <2>3, ReserveEffect
<1>2. CASE Unreserve \/ Release
    <2>1. /\ UNCHANGED config /\ FilesGet(Withdrawn) /\ Leaves /\ fences = sidecar
          /\ job.kind = "add"
        BY <1>2, WithdrawEffect
    <2>2. CASE UNCHANGED sidecar
        BY <2>1, <2>2, PendingCalm DEF Leaves
    <2>3. CASE sidecar' = Withdrawn
        <3>1. ~AnyPending(Withdrawn)
            BY <1>2, <2>1, WithdrawnIsClear DEF FenceFileInv, Unreserve, Release
        <3>2. QED
            BY <2>1, <2>3, <3>1, AllSteps, PendingNothing DEF Leaves
    <2>4. QED
        BY <2>1, <2>2, <2>3 DEF FilesGet
<1>3. CASE Persist
    <2> DEFINE new == [config EXCEPT ![job.tag] =
                          [by |-> job.id, body |-> Payload[job.id]]]
    <2>1. /\ UNCHANGED sidecar /\ job.kind = "add" /\ job.step = "persist"
          /\ config' \in {config, new} /\ Continues
          /\ job'.step \in {"firewall", "undoConfig"}
        BY <1>3, PersistEffect
    <2>2. CarriesOn
        BY <2>1, AllSteps, PendingParts
    <2>3. CarriesOn'
        BY <2>1, <2>2 DEF CarriesOn, Continues, SameRequest, AnyPending, HasPending
    <2>4. CASE ~AnyPending(sidecar)
        BY <2>1, <2>3, <2>4, PendingNothing
    <2>5. CASE AnyPending(sidecar)
        <3>1. /\ sidecar[job.tag].pending.intended = Payload[job.id]
              /\ \A s \in Tags : HasPending(sidecar, s) => s = job.tag
            BY <2>1, <2>2, <2>5 DEF CarriesOn, FenceFileInv, AddHoldsReservation
        <3>2. new[job.tag].body = Payload[job.id]
            BY <1>0
        <3>3. AllResolvable(sidecar)'
            BY <2>1, <3>1, <3>2 DEF PendingIsDecidable, AllResolvable, Resolvable, HasPending
        <3>4. QED
            BY <2>1, <2>3, <3>3, AllSteps, PendingPartsNext
    <2>6. QED
        BY <2>4, <2>5
<1>4. CASE Commit
    <2>1. UNCHANGED config /\ fences = sidecar /\ Leaves
        BY <1>4, CommitEffect
    <2>2. CASE UNCHANGED sidecar
        BY <2>1, <2>2, PendingCalm DEF Leaves
    <2>3. CASE sidecar' = Committed(job.tag, job.id)
        <3>1. /\ \A s \in Tags : s /= job.tag => sidecar'[s] = sidecar[s]
              /\ sidecar'[job.tag].pending = NoPending
            BY <1>0, <2>1, <2>3, CommittedEntries
        <3>2. AllResolvable(sidecar)'
            BY <2>1, <3>1 DEF PendingIsDecidable, AllResolvable, Resolvable, HasPending
        <3>3. QED
            BY <2>1, <3>2, AllSteps, PendingPartsNext DEF Leaves
    <2>4. QED
        BY <1>4, <2>2, <2>3, CommitEffect DEF FilesGet
<1>5. QED
    BY <1>1, <1>2, <1>3, <1>4

LEMMA PendingOtherSteps ==
    ASSUME TypeOK, FenceFileInv, PendingIsDecidable,
           \/ Ensure \/ Resolve \/ Cancel \/ Delete \/ Complete
           \/ UndoConfig \/ EditUndo \/ SaveUndo \/ Edit \/ Save
    PROVE  PendingIsDecidable'
<1>0. /\ job.tag \in Tags /\ job.id \in Ids \cup {NoId} /\ job.prev \in [Tags -> Inbound]
      /\ config \in [Tags -> Inbound] /\ sidecar \in [Tags -> Fence]
    BY JobFields DEF TypeOK
<1>1. CASE Ensure \/ Resolve
    <2>1. /\ UNCHANGED config /\ sidecar' \in {sidecar, Resolved(sidecar)}
          /\ job'.step \notin PrevSteps
          /\ job'.step \in FreshSteps => ~AnyPending(sidecar')
        BY <1>1, ResolutionEffect, AllSteps DEF Leaves
    <2>2. CASE sidecar' = Resolved(sidecar)
        BY <1>0, <2>1, <2>2, ResolvedIsClear, AllSteps, PendingNothing
    <2>3. CASE UNCHANGED sidecar
        <3>1. AllResolvable(sidecar)'
            BY <2>1, <2>3 DEF PendingIsDecidable, AllResolvable, Resolvable, HasPending
        <3>2. QED
            BY <2>1, <3>1, AllSteps, PendingPartsNext
    <2>4. QED
        BY <2>1, <2>2, <2>3
<1>2. CASE Cancel
    <2>1. ~AnyPending(sidecar')
        BY <1>0, <1>2, CancelEffect, NothingWritten
    <2>2. job'.step \notin CarryingSteps
        BY <1>2, CancelEffect, AllSteps DEF Leaves
    <2>3. QED
        BY <2>1, <2>2, PendingNothing
<1>3. CASE Complete
    <2>1. ~AnyPending(sidecar)
        BY <1>3, CompleteEffect, AllSteps DEF PendingIsDecidable
    <2>2. ~AnyPending(sidecar')
        BY <1>0, <1>3, <2>1, CompleteEffect, NothingWritten
    <2>3. QED
        BY <1>3, <2>2, CompleteEffect, AllSteps, PendingNothing DEF Leaves
<1>4. CASE Delete
    <2>1. ~AnyPending(sidecar) /\ UNCHANGED sidecar /\ job'.kind = "remove"
        BY <1>4, DeleteEffect, AllSteps DEF PendingIsDecidable, Continues, SameRequest
    <2>2. QED
        BY <2>1, PendingNothing DEF CarriesOn
<1>5. CASE UndoConfig
    <2>1. /\ UNCHANGED sidecar /\ config' \in {config, job.prev} /\ job.step = "undoConfig"
        BY <1>5, RestoreEffect DEF UndoConfig
    <2>2. Leaves \/ (Continues /\ job'.step = "undoRuntime")
        BY <1>5, <2>1, RestoreEffect
    <2>3. CarriesOn
        BY <2>1, AllSteps, PendingParts
    <2>4. job'.step \in CarryingSteps => CarriesOn'
        BY <2>1, <2>2, <2>3, AllSteps
        DEF Leaves, CarriesOn, Continues, SameRequest, AnyPending, HasPending
    <2>5. CASE ~AnyPending(sidecar)
        BY <2>1, <2>4, <2>5, PendingNothing
    <2>6. CASE AnyPending(sidecar)
        <3>1. /\ job.kind = "add"
              /\ sidecar[job.tag].pending.prevBody = job.prev[job.tag].body
            BY <2>3, <2>6 DEF CarriesOn
        <3>2. \A s \in Tags : HasPending(sidecar, s) => s = job.tag
            BY <2>1, <3>1 DEF FenceFileInv, AddHoldsReservation, UndoSteps
        <3>3. AllResolvable(sidecar)'
            BY <2>1, <3>1, <3>2 DEF PendingIsDecidable, AllResolvable, Resolvable, HasPending
        <3>4. QED
            BY <2>2, <2>4, <3>3, AllSteps, PendingPartsNext DEF Leaves
    <2>7. QED
        BY <2>5, <2>6
<1>6. CASE EditUndo \/ SaveUndo \/ Edit \/ Save
    <2>1. UNCHANGED sidecar /\ job.step \in FreshSteps \cup WorkSteps
        BY <1>6, RestoreEffect, EditEffect, SaveEffect, AllSteps
        DEF EditUndo, SaveUndo, fenceFile
    <2>2. ~AnyPending(sidecar')
        BY <2>1 DEF PendingIsDecidable
    <2>3. job'.step \notin CarryingSteps
        <3>1. CASE EditUndo \/ SaveUndo
            BY <3>1, RestoreEffect, AllSteps DEF Leaves, EditUndo, SaveUndo
        <3>2. CASE Edit \/ Save
            BY <3>2, EditEffect, SaveEffect, AllSteps DEF Leaves
        <3>3. QED
            BY <1>6, <3>1, <3>2
    <2>4. QED
        BY <2>2, <2>3, PendingNothing
<1>7. QED
    BY <1>1, <1>2, <1>3, <1>4, <1>5, <1>6

LEMMA PendingNext ==
    ASSUME TypeOK, FenceFileInv, PendingIsDecidable, [Next]_vars, ~PowerLossToo
    PROVE  PendingIsDecidable'
<1>1. CASE Calm
    BY <1>1, CalmEffect, PendingCalm DEF files
<1>2. QED
    BY <1>1, StepCases, PendingAddSteps, PendingOtherSteps

LEMMA PendingInit == ASSUME Init PROVE PendingIsDecidable
<1>1. ~AnyPending(sidecar)
    BY NoFencePending DEF Init, AnyPending, HasPending
<1>2. job.step = "down"
    BY IdleDownFields DEF Init
<1>3. QED
    BY <1>1, <1>2, AllSteps DEF PendingIsDecidable, AllResolvable, AnyPending

(* Recovery can always decide which way an interrupted mutation went: after *)
(* any crash of the agent, and whatever writes failed, the configuration    *)
(* holds what the pending mutation intended or what it found. (A power loss *)
(* that takes back the configuration but not the fence file breaks this.)   *)
THEOREM CrashesLeaveResolvable ==
    ASSUME ~PowerLossToo
    PROVE  Spec => []CrashLeavesResolvable
<1>1. Init /\ [][Next]_vars => [](TypeOK /\ FenceFileInv /\ PendingIsDecidable)
    BY PendingInit, PendingNext, InitType, NextType, FenceFileInit, FenceFileNext, PTL
<1>2. PendingIsDecidable => CrashLeavesResolvable
    BY DEF PendingIsDecidable, CrashLeavesResolvable
<1>3. QED
    BY <1>1, <1>2, PTL DEF Spec

-----------------------------------------------------------------------------
(* Whose a definition in the configuration is                               *)

(* What a handler would restore is what it found when it began.             *)
LEMMA PrevMoves ==
    ASSUME TypeOK, FenceFileInv, [Next]_vars
    PROVE  \/ job' = job
           \/ job'.step \notin PrevSteps
           \/ Continues /\ job.step \in PrevSteps
           \/ job'.prev = config /\ job.step \in FreshSteps
<1>1. GoesOn => job.step \in PrevSteps
    BY AllSteps DEF GoesOn, Edges
<1>2. CASE Calm
    <2>1. CASE Quiet
        BY <1>1, <2>1, QuietMoves DEF GoesOn, Leaves
    <2>2. CASE Requests \/ Boot \/ Crash
        BY <2>2, RequestsEffect, BootEffect, CrashEffect, RestStepsLeave DEF RestSteps
    <2>3. CASE CoreDies \/ OperatorStarts \/ UNCHANGED vars
        BY <2>3 DEF CoreDies, OperatorStarts, vars
    <2>4. QED
        BY <1>2, <2>1, <2>2, <2>3 DEF Calm
<1>3. CASE Ensure \/ Resolve
    BY <1>3, ResolutionEffect, AllSteps DEF Leaves
<1>4. CASE Reserve \/ Unreserve \/ Release \/ Commit \/ Cancel \/ Complete \/ Edit \/ Save
    <2>1. job.step \in FreshSteps \/ Unreserve \/ Release \/ Commit \/ Complete
        BY <1>4, AllSteps DEF Reserve, Cancel, Edit, Save
    <2>2. QED
        BY <1>4, <2>1, ReserveEffect, WithdrawEffect, CommitEffect, CancelEffect,
           CompleteEffect, EditEffect, SaveEffect DEF Leaves, Begins
<1>5. CASE Persist \/ Delete
    BY <1>5, PersistEffect, DeleteEffect, AllSteps
<1>6. CASE UndoConfig \/ EditUndo \/ SaveUndo
    BY <1>6, RestoreEffect, AllSteps DEF Leaves
<1>7. QED
    BY <1>2, <1>3, <1>4, <1>5, <1>6, StepCases

(* How a step, short of a power loss, may change the configuration.         *)
LEMMA ConfigMoves ==
    ASSUME TypeOK, FenceFileInv, [Next]_vars, ~PowerLossToo
    PROVE  \/ UNCHANGED config
           \/ job.step \in PrevSteps /\ config' = job.prev
           \/ Persist /\ config' = [config EXCEPT ![job.tag] =
                                        [by |-> job.id, body |-> Payload[job.id]]]
           \/ Delete /\ config' = [config EXCEPT ![job.tag] = NoInbound]
           \/ /\ Edit /\ config[job.tag].body /= Absent
              /\ \E b \in EditBodies : config' = [config EXCEPT ![job.tag].body = b]
           \/ /\ Save
              /\ \A t \in Tags : config'[t] = config[t] \/ config'[t].by = Operator
<1>1. CASE Calm \/ Ensure \/ Resolve
    BY <1>1, CalmEffect, ResolutionEffect DEF files
<1>2. CASE Reserve \/ Unreserve \/ Release \/ Commit \/ Cancel \/ Complete
    BY <1>2, ReserveEffect, WithdrawEffect, CommitEffect, CancelEffect, CompleteEffect
<1>3. CASE Persist \/ Delete \/ Edit \/ Save
    BY <1>3, PersistEffect, DeleteEffect, EditEffect, SaveEffect
<1>4. CASE UndoConfig \/ EditUndo \/ SaveUndo
    BY <1>4, RestoreEffect, AllSteps
<1>5. QED
    BY <1>1, <1>2, <1>3, <1>4, StepCases

LEMMA WritersNext ==
    ASSUME TypeOK, FenceFileInv, WritersKnown, [Next]_vars, ~PowerLossToo
    PROVE  WritersKnown'
<1>0. /\ job.tag \in Tags /\ job.id \in Ids \cup {NoId} /\ job.prev \in [Tags -> Inbound]
      /\ config \in [Tags -> Inbound] /\ config' \in [Tags -> Inbound]
    BY JobFields, NextType DEF TypeOK
<1>1. ASSUME NEW t \in Tags PROVE WriterKnown(config'[t])
    <2>0. WriterKnown(config[t])
        BY DEF WritersKnown
    <2>1. CASE UNCHANGED config
        BY <2>0, <2>1
    <2>2. CASE job.step \in PrevSteps /\ config' = job.prev
        BY <2>2 DEF WritersKnown
    <2>3. CASE config' = [config EXCEPT ![job.tag] = [by |-> job.id, body |-> Payload[job.id]]]
        BY <1>0, <2>0, <2>3 DEF WriterKnown
    <2>4. CASE config' = [config EXCEPT ![job.tag] = NoInbound]
        BY <1>0, <2>0, <2>4 DEF WriterKnown, NoInbound
    <2>5. CASE /\ config[job.tag].body /= Absent
               /\ \E b \in EditBodies : config' = [config EXCEPT ![job.tag].body = b]
        <3>1. PICK b \in EditBodies : config' = [config EXCEPT ![job.tag].body = b]
            BY <2>5
        <3>2. CASE t = job.tag
            <4>1. config'[t].by = config[t].by /\ config'[t].body = b
                BY <1>0, <3>1, <3>2 DEF Inbound
            <4>2. config[t].by /= Nobody
                BY <2>0, <2>5, <3>2 DEF WriterKnown, NoInbound
            <4>3. QED
                BY <4>1, <4>2 DEF WriterKnown
        <3>3. QED
            BY <1>0, <2>0, <3>1, <3>2
    <2>6. CASE config'[t] = config[t] \/ config'[t].by = Operator
        BY <2>0, <2>6 DEF WriterKnown
    <2>7. QED
        BY <2>1, <2>2, <2>3, <2>4, <2>5, <2>6, ConfigMoves
<1>2. ASSUME NEW t \in Tags, job'.step \in PrevSteps PROVE WriterKnown(job'.prev[t])
    <2>1. \/ job.step \in PrevSteps /\ job'.prev = job.prev
          \/ job'.prev = config
        BY <1>2, PrevMoves DEF Continues
    <2>2. QED
        BY <2>1 DEF WritersKnown
<1>3. QED
    BY <1>1, <1>2 DEF WritersKnown

LEMMA WritersInit == ASSUME Init PROVE WritersKnown
<1>1. job.step = "down"
    BY IdleDownFields DEF Init
<1>2. \A t \in Tags : config[t] = NoInbound \/ config[t].by = Operator
    BY DEF Init
<1>3. QED
    BY <1>1, <1>2, AllSteps DEF WritersKnown, WriterKnown, NoInbound

-----------------------------------------------------------------------------
(* The owner of a tag and its inbound                                       *)

(* StandsFor, of an entry of the fence file.                                *)
Stands(i, entry) ==
    \/ entry.owner = NoId
    \/ i.by \in {entry.owner, Operator}
    \/ i.body = Payload[entry.owner]
    \/ i = NoInbound /\ entry.owner \in entry.canceled

LEMMA StandsForEntry ==
    /\ \A t, i : StandsFor(i, t) <=> Stands(i, sidecar[t])
    /\ \A t, i : StandsFor(i, t)' <=> Stands(i, sidecar'[t])
BY DEF StandsFor, Stands

(* A restored configuration is the one the handler found.                   *)
RestoredIsFound ==
    \/ job.step \in {"unreserve", "release"}
    \/ job.step \in {"undoRuntime", "undoFirewall"} /\ job.restored
    => config = job.prev

(* Intended, of an inbound and an entry.                                    *)
Meant(i, entry) == entry.pending /= NoPending /\ i.body = entry.pending.intended

LEMMA OwnersParts ==
    ASSUME OwnersStand
    PROVE  /\ \A t \in Tags :
                 /\ Meant(config[t], sidecar[t]) \/ Stands(config[t], sidecar[t])
                 /\ sidecar[t].pending = NoPending => Stands(config[t], sidecar[t])
                 /\ job.step \in PrevSteps => Stands(job.prev[t], sidecar[t])
                 /\ HasPending(sidecar, t) =>
                       sidecar[t].pending.intended = Payload[sidecar[t].pending.owner]
           /\ RestoredIsFound
BY StandsForEntry DEF OwnersStand, Intended, Meant, HasPending, RestoredIsFound

LEMMA OwnersPartsNext ==
    ASSUME RestoredIsFound',
           \A t \in Tags :
                 /\ Meant(config'[t], sidecar'[t]) \/ Stands(config'[t], sidecar'[t])
                 /\ job'.step \in PrevSteps => Stands(job'.prev[t], sidecar'[t])
                 /\ HasPending(sidecar', t) =>
                       sidecar'[t].pending.intended = Payload[sidecar'[t].pending.owner]
    PROVE  OwnersStand'
<1>1. \A t \in Tags : (Intended(t) \/ StandsFor(config[t], t))'
    BY StandsForEntry DEF StandsFor, Stands, Intended, Meant, HasPending
<1>2. QED
    BY <1>1 DEF OwnersStand, RestoredIsFound, HasPending, StandsFor, Stands

JobStays == job' = job \/ job'.step \notin PrevSteps \/ GoesOn

LEMMA OwnersCalm ==
    ASSUME OwnersStand, UNCHANGED <<sidecar, config>>, JobStays
    PROVE  OwnersStand'
<1>1. RestoredIsFound'
    <2>1. CASE job' = job \/ job'.step \notin PrevSteps
        BY <2>1, OwnersParts, AllSteps DEF RestoredIsFound
    <2>2. CASE GoesOn
        BY <2>2, OwnersParts DEF RestoredIsFound, GoesOn, Continues, Edges
    <2>3. QED
        BY <2>1, <2>2 DEF JobStays
<1>2. ASSUME NEW t \in Tags, job'.step \in PrevSteps
      PROVE  Stands(job'.prev[t], sidecar'[t])
    <2>1. job.step \in PrevSteps /\ job'.prev = job.prev
        BY <1>2, AllSteps DEF JobStays, GoesOn, Continues, Edges
    <2>2. QED
        BY <2>1, OwnersParts
<1>3. ASSUME NEW t \in Tags
      PROVE  /\ Meant(config'[t], sidecar'[t]) \/ Stands(config'[t], sidecar'[t])
             /\ HasPending(sidecar', t) =>
                   sidecar'[t].pending.intended = Payload[sidecar'[t].pending.owner]
    BY OwnersParts DEF HasPending
<1>4. QED
    BY <1>1, <1>2, <1>3, OwnersPartsNext

LEMMA OwnersReserve ==
    ASSUME TypeOK, FenceFileInv, OwnersStand, Reserve
    PROVE  OwnersStand'
<1>0. job.tag \in Tags
    BY JobFields DEF TypeOK
<1>1. UNCHANGED config /\ fences = sidecar /\ ~AnyPending(sidecar)
    BY ReserveEffect
<1>2. \A t \in Tags : Stands(config[t], sidecar[t])
    BY <1>1, OwnersParts DEF AnyPending, HasPending
<1>3. CASE Leaves /\ UNCHANGED sidecar
    BY <1>1, <1>3, OwnersCalm DEF Leaves, JobStays
<1>4. CASE Begins /\ UNCHANGED sidecar
    <2>1. RestoredIsFound'
        BY <1>1, <1>4 DEF RestoredIsFound, Begins
    <2>2. \A t \in Tags : ~HasPending(sidecar', t)
        BY <1>1, <1>4 DEF AnyPending, HasPending
    <2>3. QED
        BY <1>1, <1>2, <1>4, <2>1, <2>2, OwnersPartsNext DEF Begins
<1>5. CASE Begins /\ sidecar' = Reserved(job.tag, job.id)
    <2>1. RestoredIsFound'
        BY <1>1, <1>5 DEF RestoredIsFound, Begins
    <2>e. /\ sidecar'[job.tag].owner = sidecar[job.tag].owner
          /\ sidecar'[job.tag].canceled = sidecar[job.tag].canceled
          /\ sidecar'[job.tag].pending =
                [owner |-> job.id, intended |-> Payload[job.id],
                 prevOwner |-> sidecar[job.tag].owner, prevBody |-> config[job.tag].body]
          /\ \A s \in Tags : s /= job.tag => sidecar'[s] = sidecar[s]
        BY <1>0, <1>1, <1>5, ReservedEntries
    <2>2. \A t \in Tags : /\ sidecar'[t].owner = sidecar[t].owner
                          /\ sidecar'[t].canceled = sidecar[t].canceled
        BY <2>e
    <2>3. \A t \in Tags : HasPending(sidecar', t) =>
            sidecar'[t].pending.intended = Payload[sidecar'[t].pending.owner]
        BY <1>1, <2>e DEF AnyPending, HasPending
    <2>4. \A t \in Tags : Stands(config[t], sidecar'[t])
        BY <1>2, <2>2 DEF Stands
    <2>5. QED
        BY <1>1, <1>5, <2>1, <2>3, <2>4, OwnersPartsNext DEF Begins
<1>6. QED
    BY <1>3, <1>4, <1>5, ReserveEffect

LEMMA OwnersWithdraw ==
    ASSUME TypeOK, FenceFileInv, OwnersStand, Unreserve \/ Release
    PROVE  OwnersStand'
<1>1. UNCHANGED config /\ fences = sidecar /\ Leaves /\ FilesGet(Withdrawn)
      /\ job.kind = "add"
    BY WithdrawEffect
<1>2. CASE UNCHANGED sidecar
    BY <1>1, <1>2, OwnersCalm DEF Leaves, JobStays
<1>3. CASE sidecar' = Withdrawn
    <2>1. /\ ~AnyPending(sidecar')
          /\ \A t \in Tags : sidecar'[t].owner = sidecar[t].owner
                             /\ sidecar'[t].canceled = sidecar[t].canceled
        BY <1>1, <1>3, WithdrawnIsClear DEF FenceFileInv, Unreserve, Release
    <2>2. job.step \in PrevSteps /\ config = job.prev
        BY OwnersParts, AllSteps DEF RestoredIsFound, Unreserve, Release
    <2>3. \A t \in Tags : Stands(config'[t], sidecar'[t])
        BY <1>1, <2>1, <2>2, OwnersParts DEF Stands
    <2>4. job'.step \notin PrevSteps /\ RestoredIsFound'
        BY <1>1, AllSteps DEF Leaves, RestoredIsFound
    <2>5. QED
        BY <2>1, <2>3, <2>4, OwnersPartsNext DEF AnyPending
<1>4. QED
    BY <1>1, <1>2, <1>3 DEF FilesGet

LEMMA OwnersPersist ==
    ASSUME TypeOK, FenceFileInv, PendingIsDecidable, OwnersStand, Persist
    PROVE  OwnersStand'
<1>0. job.tag \in Tags /\ job.id \in Ids \cup {NoId} /\ config \in [Tags -> Inbound]
    BY JobFields DEF TypeOK
<1>1. UNCHANGED sidecar /\ job.step = "persist" /\ job.kind = "add" /\ Continues
      /\ job'.step \in {"firewall", "undoConfig"}
    BY PersistEffect
<1>2. RestoredIsFound'
    BY <1>1 DEF RestoredIsFound
<1>3. \A t \in Tags : Stands(job'.prev[t], sidecar'[t])
    BY <1>1, OwnersParts, AllSteps DEF Continues
<1>4. CASE UNCHANGED config
    BY <1>1, <1>2, <1>3, <1>4, OwnersParts, OwnersPartsNext DEF HasPending
<1>5. CASE config' = [config EXCEPT ![job.tag] = [by |-> job.id, body |-> Payload[job.id]]]
    <2>1. config'[job.tag].body = Payload[job.id]
          /\ \A t \in Tags : t /= job.tag => config'[t] = config[t]
        BY <1>0, <1>5
    <2>2. CarriesOn
        BY <1>1, AllSteps, PendingParts
    <2>3. Meant(config'[job.tag], sidecar'[job.tag]) \/ Stands(config'[job.tag], sidecar'[job.tag])
        <3>1. CASE job.id = NoId
            BY <1>1, <2>2, <3>1 DEF CarriesOn, Stands
        <3>2. CASE job.id /= NoId
            <4>1. sidecar[job.tag].pending =
                     [owner |-> job.id, intended |-> Payload[job.id],
                      prevOwner |-> job.saved.owner, prevBody |-> job.prev[job.tag].body]
                BY <1>1, <2>2, <3>2 DEF CarriesOn
            <4>2. sidecar[job.tag].pending /= NoPending
                  /\ sidecar[job.tag].pending.intended = Payload[job.id]
                BY <3>2, <4>1, NoFencePending
            <4>3. QED
                BY <1>1, <2>1, <4>2 DEF Meant
        <3>3. QED
            BY <3>1, <3>2
    <2>4. \A t \in Tags : Meant(config'[t], sidecar'[t]) \/ Stands(config'[t], sidecar'[t])
        BY <1>1, <2>1, <2>3, OwnersParts DEF Meant
    <2>5. QED
        BY <1>1, <1>2, <1>3, <2>4, OwnersParts, OwnersPartsNext DEF HasPending
<1>6. QED
    BY <1>4, <1>5, PersistEffect

LEMMA OwnersCommit ==
    ASSUME TypeOK, FenceFileInv, OwnersStand, Commit
    PROVE  OwnersStand'
<1>0. job.tag \in Tags
    BY JobFields DEF TypeOK
<1>1. UNCHANGED config /\ fences = sidecar /\ Leaves
    BY CommitEffect
<1>2. CASE UNCHANGED sidecar
    BY <1>1, <1>2, OwnersCalm DEF Leaves, JobStays
<1>3. CASE /\ HasPending(sidecar, job.tag) /\ sidecar[job.tag].pending.owner = job.id
           /\ config[job.tag].body = sidecar[job.tag].pending.intended
           /\ sidecar' = Committed(job.tag, job.id)
    <2>1. /\ \A t \in Tags : t /= job.tag => sidecar'[t] = sidecar[t]
          /\ sidecar'[job.tag].owner = job.id /\ sidecar'[job.tag].pending = NoPending
        BY <1>0, <1>1, <1>3, CommittedEntries
    <2>2. Stands(config'[job.tag], sidecar'[job.tag])
        BY <1>0, <1>1, <1>3, <2>1, OwnersParts DEF Stands
    <2>3. \A t \in Tags : Meant(config'[t], sidecar'[t]) \/ Stands(config'[t], sidecar'[t])
        BY <1>1, <2>1, <2>2, OwnersParts DEF Meant
    <2>4. \A t \in Tags : HasPending(sidecar', t) =>
            sidecar'[t].pending.intended = Payload[sidecar'[t].pending.owner]
        BY <2>1, OwnersParts DEF HasPending
    <2>5. job'.step \notin PrevSteps /\ RestoredIsFound'
        BY <1>1, AllSteps DEF Leaves, RestoredIsFound
    <2>6. QED
        BY <2>3, <2>4, <2>5, OwnersPartsNext
<1>4. QED
    BY <1>2, <1>3, CommitEffect DEF FilesGet

LEMMA OwnersResolution ==
    ASSUME TypeOK, FenceFileInv, OwnersStand, Ensure \/ Resolve
    PROVE  OwnersStand'
<1>0. sidecar \in [Tags -> Fence]
    BY DEF TypeOK
<1>1. UNCHANGED config /\ job'.step \notin PrevSteps
    BY ResolutionEffect, AllSteps DEF Leaves
<1>2. CASE UNCHANGED sidecar
    BY <1>1, <1>2, OwnersCalm DEF JobStays
<1>3. CASE AllResolvable(sidecar) /\ sidecar' = Resolved(sidecar)
    <2>1. \A t \in Tags : ~HasPending(sidecar', t)
        BY <1>0, <1>3, ResolvedEntries DEF HasPending
    <2>2. ASSUME NEW t \in Tags PROVE Stands(config[t], sidecar'[t])
        <3>1. CASE ~HasPending(sidecar, t)
            <4>1. sidecar'[t] = sidecar[t]
                BY <1>0, <1>3, <3>1, ResolvedEntries DEF HasPending
            <4>2. QED
                BY <3>1, <4>1, OwnersParts DEF HasPending
        <3>2. CASE HasPending(sidecar, t) /\ Meant(config[t], sidecar[t])
            <4>1. sidecar'[t].owner = sidecar[t].pending.owner
                BY <1>0, <1>3, <3>2, ResolvedEntries DEF HasPending, Meant
            <4>2. QED
                BY <3>2, <4>1, OwnersParts DEF Stands, Meant
        <3>3. CASE HasPending(sidecar, t) /\ ~Meant(config[t], sidecar[t])
            <4>1. /\ sidecar'[t].owner = sidecar[t].pending.prevOwner
                  /\ sidecar'[t].canceled = sidecar[t].canceled
                BY <1>0, <1>3, <3>3, ResolvedEntries DEF HasPending, Meant
            <4>2. sidecar[t].pending.prevOwner = sidecar[t].owner
                BY <1>3, <3>3 DEF AllResolvable, Resolvable
            <4>3. QED
                BY <3>3, <4>1, <4>2, OwnersParts DEF Stands
        <3>4. QED
            BY <3>1, <3>2, <3>3
    <2>3. RestoredIsFound'
        BY <1>1, AllSteps DEF RestoredIsFound
    <2>4. QED
        BY <1>1, <2>1, <2>2, <2>3, OwnersPartsNext
<1>4. QED
    BY <1>2, <1>3, ResolutionEffect

LEMMA OwnersRemove ==
    ASSUME TypeOK, FenceFileInv, PendingIsDecidable, OwnersStand,
           Cancel \/ Delete \/ Complete
    PROVE  OwnersStand'
<1>0. job.tag \in Tags /\ config \in [Tags -> Inbound]
    BY JobFields DEF TypeOK
<1>1. ~AnyPending(sidecar)
    BY CancelEffect, AllSteps DEF PendingIsDecidable, Delete, Complete
<1>2. \A t \in Tags : Stands(config[t], sidecar[t])
    BY <1>1, OwnersParts DEF AnyPending, HasPending
<1>3. ASSUME fences = sidecar, ~AnyPending(sidecar'), RestoredIsFound',
             \A t \in Tags : Stands(config'[t], sidecar'[t]),
             job'.step \in PrevSteps => \A t \in Tags : Stands(job'.prev[t], sidecar'[t])
      PROVE  OwnersStand'
    BY <1>3, OwnersPartsNext DEF AnyPending
<1>4. CASE Cancel
    <2>1. UNCHANGED config /\ fences = sidecar
          /\ (Leaves \/ (Begins /\ job'.step = "deactivate"))
        BY <1>4, CancelEffect
    <2>2. ~AnyPending(sidecar')
        BY <1>0, <1>1, <1>4, CancelEffect, NothingWritten
    <2>3. \A t \in Tags : /\ sidecar'[t].owner = sidecar[t].owner
                          /\ sidecar[t].canceled \subseteq sidecar'[t].canceled
        <3>1. \/ UNCHANGED sidecar
              \/ sidecar' = Cancelled(job.tag, job.id)
            BY <1>4, CancelEffect DEF FilesGet
        <3>2. QED
            BY <1>0, <2>1, <3>1, CancelledEntries
    <2>4. \A t \in Tags : Stands(config[t], sidecar'[t])
        BY <1>2, <2>3 DEF Stands
    <2>5. RestoredIsFound'
        BY <2>1, AllSteps DEF RestoredIsFound, Leaves
    <2>6. job'.step \in PrevSteps => job'.prev = config
        BY <2>1 DEF Leaves, Begins
    <2>7. QED
        BY <1>3, <2>1, <2>2, <2>4, <2>5, <2>6
<1>5. CASE Delete
    <2>1. /\ UNCHANGED sidecar /\ job.kind = "remove" /\ job.step = "delete" /\ Continues
          /\ job'.step \in {"firewall", "undoConfig"}
          /\ config' \in {config, [config EXCEPT ![job.tag] = NoInbound]}
        BY <1>5, DeleteEffect
    <2>2. fences = sidecar
        BY <2>1 DEF FenceFileInv, MemoryIsFile, Up
    <2>3. Stands(NoInbound, sidecar[job.tag])
        BY <2>1 DEF FenceFileInv, RemoveIsCancelled, Stands
    <2>4. \A t \in Tags : Stands(config'[t], sidecar'[t])
        BY <1>0, <1>2, <2>1, <2>3
    <2>5. ~AnyPending(sidecar') /\ RestoredIsFound'
        BY <1>1, <2>1 DEF RestoredIsFound
    <2>6. \A t \in Tags : Stands(job'.prev[t], sidecar'[t])
        BY <2>1, OwnersParts, AllSteps DEF Continues
    <2>7. QED
        BY <1>3, <2>2, <2>4, <2>5, <2>6
<1>6. CASE Complete
    <2>1. UNCHANGED config /\ fences = sidecar /\ Leaves
        BY <1>6, CompleteEffect
    <2>2. ~AnyPending(sidecar')
        BY <1>0, <1>1, <1>6, CompleteEffect, NothingWritten
    <2>3. \A t \in Tags : sidecar'[t] = sidecar[t] \/ sidecar'[t].owner = NoId
        <3>1. \/ UNCHANGED sidecar
              \/ sidecar' = Released(job.tag)
            BY <1>6, CompleteEffect DEF FilesGet
        <3>2. QED
            BY <1>0, <2>1, <3>1, ReleasedEntries
    <2>4. \A t \in Tags : Stands(config[t], sidecar'[t])
        BY <1>2, <2>3 DEF Stands
    <2>5. RestoredIsFound' /\ job'.step \notin PrevSteps
        BY <2>1, AllSteps DEF RestoredIsFound, Leaves
    <2>6. QED
        BY <1>3, <2>1, <2>2, <2>4, <2>5
<1>7. QED
    BY <1>4, <1>5, <1>6

LEMMA OwnersWriters ==
    ASSUME TypeOK, FenceFileInv, PendingIsDecidable, WritersKnown, OwnersStand,
           DefinitionsDiffer, UndoConfig \/ EditUndo \/ SaveUndo \/ Edit \/ Save
    PROVE  OwnersStand'
<1>0. /\ job.tag \in Tags /\ config \in [Tags -> Inbound] /\ job.prev \in [Tags -> Inbound]
      /\ sidecar \in [Tags -> Fence]
    BY JobFields DEF TypeOK
<1>1. CASE UndoConfig \/ EditUndo \/ SaveUndo
    <2>1. /\ UNCHANGED sidecar /\ job.step \in PrevSteps
          /\ config' \in {config, job.prev}
          /\ Leaves \/ (Continues /\ (job'.step = "undoRuntime" /\ job'.restored
                                       => config' = job.prev)
                                  /\ job'.step \notin {"undoFirewall", "unreserve", "release"})
        BY <1>1, RestoreEffect, AllSteps
    <2>2. RestoredIsFound'
        BY <2>1, AllSteps DEF RestoredIsFound, Leaves, Continues
    <2>3. ASSUME NEW t \in Tags
          PROVE  /\ Meant(config'[t], sidecar'[t]) \/ Stands(config'[t], sidecar'[t])
                 /\ job'.step \in PrevSteps => Stands(job'.prev[t], sidecar'[t])
                 /\ HasPending(sidecar', t) =>
                       sidecar'[t].pending.intended = Payload[sidecar'[t].pending.owner]
        <3>1. Meant(config'[t], sidecar'[t]) \/ Stands(config'[t], sidecar'[t])
            BY <2>1, OwnersParts
        <3>2. job'.step \in PrevSteps => Stands(job'.prev[t], sidecar'[t])
            BY <2>1, OwnersParts DEF Leaves, Continues
        <3>3. QED
            BY <2>1, <3>1, <3>2, OwnersParts DEF HasPending
    <2>4. QED
        BY <2>2, <2>3, OwnersPartsNext
<1>2. CASE Edit \/ Save
    <2>1. /\ UNCHANGED sidecar /\ job.step \in FreshSteps
          /\ Leaves \/ (Begins /\ job'.step \in WorkSteps)
        BY <1>2, EditEffect, SaveEffect, AllSteps
    <2>2. \A t \in Tags : ~HasPending(sidecar', t) /\ Stands(config[t], sidecar[t])
        BY <2>1, OwnersParts DEF PendingIsDecidable, AnyPending, HasPending
    <2>3. RestoredIsFound'
        BY <2>1, AllSteps DEF RestoredIsFound, Leaves
    <2>4. ASSUME NEW t \in Tags PROVE Stands(config'[t], sidecar'[t])
        <3>0. Stands(config[t], sidecar[t]) /\ WriterKnown(config[t])
              /\ sidecar[t].owner \in Ids \cup {NoId} /\ config[t].by \in Writers
            BY <1>0, <2>2 DEF WritersKnown, Fence, Inbound
        <3>1. CASE config'[t] = config[t] \/ config'[t].by = Operator
            BY <2>1, <3>0, <3>1 DEF Stands
        <3>2. CASE /\ t = job.tag /\ config[t].body /= Absent
                   /\ \E b \in EditBodies : config' = [config EXCEPT ![job.tag].body = b]
            <4>1. config'[t].by = config[t].by
                BY <1>0, <3>2 DEF Inbound
            <4>2. config[t].by \notin {Nobody}
                BY <3>0, <3>2 DEF WriterKnown, NoInbound
            <4>3. ASSUME sidecar[t].owner \in Ids, config[t].body = Payload[sidecar[t].owner]
                  PROVE  config[t].by \in {sidecar[t].owner, Operator}
                BY <3>0, <4>2, <4>3 DEF WriterKnown, DefinitionsDiffer, Writers
            <4>4. QED
                BY <2>1, <3>0, <3>2, <4>1, <4>3 DEF Stands, NoInbound
        <3>3. QED
            BY <1>0, <1>2, <3>1, <3>2, EditEffect, SaveEffect
    <2>5. job'.step \in PrevSteps => job'.prev = config
        BY <2>1 DEF Leaves, Begins
    <2>6. QED
        BY <2>1, <2>2, <2>3, <2>4, <2>5, OwnersPartsNext
<1>3. QED
    BY <1>1, <1>2

LEMMA OwnersNext ==
    ASSUME TypeOK, FenceFileInv, PendingIsDecidable, WritersKnown, OwnersStand,
           DefinitionsDiffer, ~PowerLossToo, [Next]_vars
    PROVE  OwnersStand'
<1>1. CASE Calm
    BY <1>1, CalmEffect, OwnersCalm DEF files, JobStays
<1>2. QED
    BY <1>1, StepCases, OwnersReserve, OwnersWithdraw, OwnersPersist, OwnersCommit,
       OwnersResolution, OwnersRemove, OwnersWriters

LEMMA OwnersInit == ASSUME Init PROVE OwnersStand
<1>1. job.step = "down"
    BY IdleDownFields DEF Init
<1>2. \A t \in Tags : sidecar[t].owner = NoId /\ sidecar[t].pending = NoPending
    BY NoFencePending DEF Init
<1>3. QED
    BY <1>1, <1>2, AllSteps DEF OwnersStand, StandsFor, HasPending

OwnerInv == PendingIsDecidable /\ WritersKnown /\ OwnersStand

(* Whatever was added, removed, edited and saved, and wherever writes       *)
(* failed and the agent died: an owner's inbound is in the configuration    *)
(* once nothing is pending. (Two mutations of one definition cannot be told *)
(* apart by its digest, nor one that an edit may produce; and a power loss  *)
(* can take back the configuration alone.)                                  *)
THEOREM OwnersHaveInbounds ==
    ASSUME ~PowerLossToo, DefinitionsDiffer
    PROVE  Spec => []OwnerHasInbound
<1>1. Init => OwnerInv
    BY PendingInit, WritersInit, OwnersInit DEF OwnerInv
<1>2. TypeOK /\ FenceFileInv /\ OwnerInv /\ [Next]_vars => OwnerInv'
    BY PendingNext, WritersNext, OwnersNext DEF OwnerInv
<1>3. OwnerInv => OwnerHasInbound
    <2>1. ASSUME OwnersStand, NEW t \in Tags, sidecar[t].owner /= NoId,
                 sidecar[t].pending = NoPending
          PROVE  \/ config[t].by \in {sidecar[t].owner, Operator}
                 \/ config[t].body = Payload[sidecar[t].owner]
                 \/ config[t] = NoInbound /\ sidecar[t].owner \in sidecar[t].canceled
        BY <2>1, OwnersParts DEF Stands
    <2>2. QED
        BY <2>1 DEF OwnerInv, OwnerHasInbound
<1>4. Init /\ [][Next]_vars => []OwnerInv
    BY <1>1, <1>2, InitType, NextType, FenceFileInit, FenceFileNext, PTL
<1>5. QED
    BY <1>3, <1>4, PTL DEF Spec

-----------------------------------------------------------------------------
(* What was removed stays removed                                           *)

(* How a step, short of a power loss, changes the entry of a tag: what is   *)
(* cancelled stays so, and a new owner is one that was not.                 *)
LEMMA EntryMoves ==
    ASSUME TypeOK, FenceFileInv, [Next]_vars, ~PowerLossToo, NEW t \in Tags
    PROVE  /\ sidecar[t].canceled \subseteq sidecar'[t].canceled
           /\ \/ sidecar'[t].owner \in {sidecar[t].owner, NoId}
              \/ /\ HasPending(sidecar, t) /\ sidecar'[t].owner = sidecar[t].pending.owner
                 /\ sidecar[t].pending.owner \notin sidecar[t].canceled
<1>0. /\ job.tag \in Tags /\ sidecar \in [Tags -> Fence]
      /\ HasPending(sidecar, t) => sidecar[t].pending.owner \notin sidecar[t].canceled
    BY JobFields DEF TypeOK, FenceFileInv, WellFormed
<1>1. CASE UNCHANGED sidecar
    BY <1>1
<1>2. CASE AllResolvable(sidecar) /\ sidecar' = Resolved(sidecar)
    <2>1. HasPending(sidecar, t) => sidecar[t].pending.prevOwner = sidecar[t].owner
        BY <1>2 DEF AllResolvable, Resolvable
    <2>2. /\ Resolved(sidecar)[t].canceled = sidecar[t].canceled
          /\ ~HasPending(sidecar, t) => Resolved(sidecar)[t] = sidecar[t]
          /\ HasPending(sidecar, t) => Resolved(sidecar)[t].owner \in
                {sidecar[t].pending.owner, sidecar[t].pending.prevOwner}
        BY <1>0, ResolvedEntries DEF HasPending
    <2>3. QED
        BY <1>0, <1>2, <2>1, <2>2
<1>3. CASE fences = sidecar /\ sidecar' = Reserved(job.tag, job.id)
    <2>1. /\ sidecar'[job.tag].owner = sidecar[job.tag].owner
          /\ sidecar'[job.tag].canceled = sidecar[job.tag].canceled
          /\ sidecar'[job.tag].pending =
                [owner |-> job.id, intended |-> Payload[job.id],
                 prevOwner |-> sidecar[job.tag].owner, prevBody |-> config[job.tag].body]
          /\ \A s \in Tags : s /= job.tag => sidecar'[s] = sidecar[s]
        BY <1>0, <1>3, ReservedEntries
    <2>2. QED
        BY <2>1
<1>4. CASE fences = sidecar /\ sidecar' = Cancelled(job.tag, job.id)
    BY <1>0, <1>4, CancelledEntries
<1>5. CASE fences = sidecar /\ sidecar' = Released(job.tag)
    BY <1>0, <1>5, ReleasedEntries
<1>6. CASE /\ fences = sidecar /\ HasPending(sidecar, job.tag)
           /\ sidecar[job.tag].pending.owner = job.id
           /\ sidecar' = Committed(job.tag, job.id)
    BY <1>0, <1>6, CommittedEntries
<1>7. CASE Unreserve \/ Release
    <2>1. fences = sidecar /\ FilesGet(Withdrawn) /\ job.kind = "add"
        BY <1>7, WithdrawEffect
    <2>2. \A s \in Tags : Withdrawn[s].owner = sidecar[s].owner
                          /\ Withdrawn[s].canceled = sidecar[s].canceled
        BY <1>7, <2>1, WithdrawnIsClear DEF FenceFileInv, Unreserve, Release
    <2>3. QED
        BY <2>1, <2>2 DEF FilesGet
<1>8. \/ UNCHANGED sidecar
      \/ AllResolvable(sidecar) /\ sidecar' = Resolved(sidecar)
      \/ fences = sidecar /\ sidecar' = Reserved(job.tag, job.id)
      \/ fences = sidecar /\ sidecar' = Cancelled(job.tag, job.id)
      \/ fences = sidecar /\ sidecar' = Released(job.tag)
      \/ /\ fences = sidecar /\ HasPending(sidecar, job.tag)
         /\ sidecar[job.tag].pending.owner = job.id
         /\ sidecar' = Committed(job.tag, job.id)
      \/ Unreserve \/ Release
    <2>1. CASE Calm \/ Persist \/ Delete \/ UndoConfig \/ EditUndo \/ SaveUndo
               \/ Edit \/ Save
        BY <2>1, CalmEffect, PersistEffect, DeleteEffect, RestoreEffect, EditEffect,
           SaveEffect DEF files
    <2>2. CASE Ensure \/ Resolve
        BY <2>2, ResolutionEffect
    <2>3. CASE Reserve
        BY <2>3, ReserveEffect
    <2>4. CASE Commit \/ Cancel \/ Complete
        BY <2>4, CommitEffect, CancelEffect, CompleteEffect DEF FilesGet
    <2>5. QED
        BY <2>1, <2>2, <2>3, <2>4, StepCases
<1>9. QED
    BY <1>1, <1>2, <1>3, <1>4, <1>5, <1>6, <1>7, <1>8

Gone(t, m) ==
    /\ m \in sidecar[t].canceled /\ sidecar[t].owner /= m
    /\ config[t].by /= m
    /\ job.step \in PrevSteps => job.prev[t].by /= m

RemoveFinds ==
    job.kind = "remove" /\ job.step \in {"firewall", "limiter", "complete"} =>
        config[job.tag] = NoInbound

LEMMA GoneParts ==
    RemovedIsGone <=>
        (\A t \in Tags, m \in Ids : <<t, m>> \in removed => Gone(t, m)) /\ RemoveFinds
BY DEF RemovedIsGone, Gone, RemoveFinds

(* What is gone does not come back ...                                      *)
LEMMA GoneStays ==
    ASSUME TypeOK, FenceFileInv, PendingIsDecidable, [Next]_vars, ~PowerLossToo,
           NEW t \in Tags, NEW m \in Ids, Gone(t, m)
    PROVE  Gone(t, m)'
<1>0. /\ job.tag \in Tags /\ job.id \in Ids \cup {NoId} /\ config \in [Tags -> Inbound]
      /\ sidecar \in [Tags -> Fence]
    BY JobFields DEF TypeOK
<1>1. m \in sidecar'[t].canceled /\ sidecar'[t].owner /= m
    BY EntryMoves DEF Gone
<1>2. config'[t].by /= m
    <2>1. CASE UNCHANGED config \/ (job.step \in PrevSteps /\ config' = job.prev)
        BY <2>1 DEF Gone
    <2>2. CASE Persist /\ config' = [config EXCEPT ![job.tag] =
                                        [by |-> job.id, body |-> Payload[job.id]]]
        <3>1. job.step = "persist" /\ job.kind = "add"
            BY <2>2, PersistEffect
        <3>2. CASE t = job.tag
            <4>1. CarriesOn
                BY <3>1, AllSteps, PendingParts
            <4>2. job.id \in Ids => HasPending(sidecar, t) /\ sidecar[t].pending.owner = job.id
                BY <3>1, <3>2, <4>1, NoFencePending DEF CarriesOn, HasPending
            <4>3. job.id /= m
                BY <4>2 DEF Gone, FenceFileInv, WellFormed
            <4>4. QED
                BY <1>0, <2>2, <3>2, <4>3
        <3>3. QED
            BY <1>0, <2>2, <3>2 DEF Gone
    <2>3. CASE config' = [config EXCEPT ![job.tag] = NoInbound]
        BY <1>0, <2>3 DEF Gone, NoInbound
    <2>4. CASE \E b \in EditBodies : config' = [config EXCEPT ![job.tag].body = b]
        <3>1. config'[t].by = config[t].by
            BY <1>0, <2>4 DEF Inbound
        <3>2. QED
            BY <3>1 DEF Gone
    <2>5. CASE \A s \in Tags : config'[s] = config[s] \/ config'[s].by = Operator
        BY <2>5 DEF Gone
    <2>6. QED
        BY <2>1, <2>2, <2>3, <2>4, <2>5, ConfigMoves
<1>3. ASSUME job'.step \in PrevSteps PROVE job'.prev[t].by /= m
    <2>1. \/ job.step \in PrevSteps /\ job'.prev = job.prev
          \/ job'.prev = config
        BY <1>3, PrevMoves DEF Continues
    <2>2. QED
        BY <2>1 DEF Gone
<1>4. QED
    BY <1>1, <1>2, <1>3 DEF Gone

(* ... and what a remove is acknowledged for is gone: deleted, or never     *)
(* there, since another mutation's inbound is.                              *)
LEMMA AcknowledgedIsGone ==
    ASSUME TypeOK, FenceFileInv, WritersKnown, OwnersStand, RemovedIsGone,
           DefinitionsDiffer, [Next]_vars, ~PowerLossToo,
           NEW t \in Tags, NEW m \in Ids, <<t, m>> \in removed', <<t, m>> \notin removed
    PROVE  Gone(t, m)'
<1>0. /\ job.tag \in Tags /\ job.id \in Ids \cup {NoId} /\ config \in [Tags -> Inbound]
      /\ sidecar \in [Tags -> Fence]
    BY JobFields DEF TypeOK
<1>1. Cancel \/ Complete
    <2>1. CASE Calm \/ Persist \/ Delete \/ UndoConfig \/ EditUndo \/ SaveUndo
               \/ Edit \/ Save \/ Ensure \/ Resolve
        BY <2>1, CalmEffect, PersistEffect, DeleteEffect, RestoreEffect, EditEffect,
           SaveEffect, ResolutionEffect
    <2>2. CASE Reserve \/ Unreserve \/ Release \/ Commit
        BY <2>2, ReserveEffect, WithdrawEffect, CommitEffect
    <2>3. QED
        BY <2>1, <2>2, StepCases
<1>2. CASE Cancel
    <2>1. /\ fences = sidecar /\ ~AnyPending(sidecar) /\ UNCHANGED config
          /\ t = job.tag /\ m = job.id /\ Leaves /\ sidecar' = Cancelled(t, m)
          /\ sidecar[t].owner \notin {NoId, m}
        BY <1>2, CancelEffect
    <2>2. m \in sidecar'[t].canceled /\ sidecar'[t].owner = sidecar[t].owner
        BY <1>0, <2>1, CancelledEntries
    <2>3. /\ Stands(config[t], sidecar[t]) /\ WriterKnown(config[t])
          /\ sidecar[t].owner \in Ids
        BY <1>0, <2>1, OwnersParts DEF AnyPending, HasPending, WritersKnown, Fence
    <2>4. config[t].by /= m
        <3>1. CASE config[t].by \in {sidecar[t].owner, Operator}
            BY <2>1, <3>1
        <3>2. CASE config[t].body = Payload[sidecar[t].owner]
            BY <2>1, <2>3, <3>2 DEF WriterKnown, DefinitionsDiffer
        <3>3. CASE config[t] = NoInbound
            BY <3>3 DEF NoInbound
        <3>4. QED
            BY <2>1, <2>3, <3>1, <3>2, <3>3 DEF Stands
    <2>5. QED
        BY <2>1, <2>2, <2>4 DEF Gone, Leaves
<1>3. CASE Complete
    <2>1. /\ fences = sidecar /\ UNCHANGED config /\ job.kind = "remove"
          /\ job.step = "complete" /\ t = job.tag /\ m = job.id /\ Leaves
          /\ \/ sidecar' = Released(t)
             \/ sidecar' = sidecar /\ sidecar[t].owner /= m
        BY <1>3, CompleteEffect
    <2>2. m \in sidecar[t].canceled
        BY <2>1 DEF FenceFileInv, RemoveIsCancelled
    <2>3. m \in sidecar'[t].canceled /\ sidecar'[t].owner /= m
        BY <1>0, <2>1, <2>2, ReleasedEntries
    <2>4. config[t] = NoInbound
        BY <2>1, GoneParts DEF RemoveFinds
    <2>5. QED
        BY <2>1, <2>3, <2>4 DEF Gone, Leaves, NoInbound
<1>4. QED
    BY <1>1, <1>2, <1>3

LEMMA RemoveFindsNext ==
    ASSUME TypeOK, FenceFileInv, RemoveFinds, [Next]_vars, ~PowerLossToo
    PROVE  RemoveFinds'
<1>0. job.tag \in Tags /\ config \in [Tags -> Inbound]
    BY JobFields DEF TypeOK
<1>1. CASE Calm
    <2>1. UNCHANGED config
        BY <1>1, CalmEffect DEF files
    <2>2. CASE job' = job
        BY <2>1, <2>2 DEF RemoveFinds
    <2>3. CASE GoesOn
        <3>1. job'.kind = job.kind /\ job'.tag = job.tag
            BY <2>3 DEF GoesOn, Continues, SameRequest
        <3>2. job'.step \in {"firewall", "limiter", "complete"}
                => job.step \in {"firewall", "limiter"}
            BY <2>3 DEF GoesOn, Edges
        <3>3. QED
            BY <2>1, <3>1, <3>2 DEF RemoveFinds
    <2>4. QED
        BY <1>1, <2>2, <2>3, CalmEffect, AllSteps DEF RemoveFinds
<1>2. CASE Delete
    <2>1. /\ Continues /\ job'.step \in {"firewall", "undoConfig"}
          /\ job'.step = "firewall" => config' = [config EXCEPT ![job.tag] = NoInbound]
        BY <1>2, DeleteEffect
    <2>2. QED
        BY <1>0, <2>1 DEF RemoveFinds, Continues, SameRequest
<1>3. CASE Persist
    BY <1>3, PersistEffect DEF RemoveFinds, Continues, SameRequest
<1>4. CASE \/ Ensure \/ Resolve \/ Reserve \/ Unreserve \/ Release \/ Commit
           \/ Cancel \/ Complete \/ UndoConfig \/ EditUndo \/ SaveUndo \/ Edit \/ Save
    <2>1. job'.step \notin {"firewall", "limiter", "complete"}
        <3>1. Leaves => job'.step \notin {"firewall", "limiter", "complete"}
            BY AllSteps DEF Leaves
        <3>2. CASE Ensure \/ Resolve
            BY <3>1, <3>2, ResolutionEffect, AllSteps
        <3>3. CASE Reserve \/ Unreserve \/ Release \/ Commit \/ Cancel \/ Complete
            BY <3>1, <3>3, ReserveEffect, WithdrawEffect, CommitEffect, CancelEffect,
               CompleteEffect
        <3>4. CASE UndoConfig \/ EditUndo \/ SaveUndo \/ Edit \/ Save
            BY <3>1, <3>4, RestoreEffect, EditEffect, SaveEffect
        <3>5. QED
            BY <1>4, <3>2, <3>3, <3>4
    <2>2. QED
        BY <2>1 DEF RemoveFinds
<1>5. QED
    BY <1>1, <1>2, <1>3, <1>4, StepCases

LEMMA RemovedNext ==
    ASSUME TypeOK, FenceFileInv, OwnerInv, RemovedIsGone, DefinitionsDiffer,
           ~PowerLossToo, [Next]_vars
    PROVE  RemovedIsGone'
<1>1. ASSUME NEW t \in Tags, NEW m \in Ids, <<t, m>> \in removed' PROVE Gone(t, m)'
    BY <1>1, GoneParts, GoneStays, AcknowledgedIsGone DEF OwnerInv
<1>2. RemoveFinds'
    BY GoneParts, RemoveFindsNext
<1>3. QED
    BY <1>1, <1>2 DEF RemovedIsGone, Gone, RemoveFinds

LEMMA RemovedInit == ASSUME Init PROVE RemovedIsGone
<1>1. job.step = "down" /\ removed = {}
    BY IdleDownFields DEF Init
<1>2. QED
    BY <1>1 DEF RemovedIsGone

(* A remove once acknowledged, as done or as superseded, is final: nothing  *)
(* its mutation wrote is in the configuration, owns the tag or is pending   *)
(* again, whatever is repeated, interrupted or undone afterwards.           *)
THEOREM RemovesAreFinal ==
    ASSUME ~PowerLossToo, DefinitionsDiffer
    PROVE  Spec => []RemovedStaysRemoved
<1>1. Init => OwnerInv /\ RemovedIsGone
    BY PendingInit, WritersInit, OwnersInit, RemovedInit DEF OwnerInv
<1>2. TypeOK /\ FenceFileInv /\ OwnerInv /\ [Next]_vars => OwnerInv'
    BY PendingNext, WritersNext, OwnersNext DEF OwnerInv
<1>3. TypeOK /\ FenceFileInv /\ OwnerInv /\ RemovedIsGone /\ [Next]_vars => RemovedIsGone'
    BY RemovedNext
<1>4. FenceFileInv /\ RemovedIsGone => RemovedStaysRemoved
    <2>1. ASSUME FenceFileInv, RemovedIsGone, NEW t \in Tags, NEW m \in Ids,
                 <<t, m>> \in removed
          PROVE  /\ config[t].by /= m
                 /\ sidecar[t].owner /= m /\ sidecar[t].pending.owner /= m
        <3>1. Gone(t, m)
            BY <2>1, GoneParts
        <3>2. CASE HasPending(sidecar, t)
            BY <2>1, <3>1, <3>2 DEF FenceFileInv, WellFormed, Gone
        <3>3. CASE ~HasPending(sidecar, t)
            BY <3>1, <3>3, NoFencePending DEF HasPending, Gone
        <3>4. QED
            BY <3>2, <3>3
    <2>2. QED
        BY <2>1 DEF RemovedStaysRemoved
<1>5. Init /\ [][Next]_vars => [](FenceFileInv /\ RemovedIsGone)
    BY <1>1, <1>2, <1>3, InitType, NextType, FenceFileInit, FenceFileNext, PTL
<1>6. QED
    BY <1>4, <1>5, PTL DEF Spec

-----------------------------------------------------------------------------
(* An acknowledged add, through failed writes, crashes and power losses.    *)

WritingSteps == {"persist", "firewall", "activate", "commit"}

(* Only the add's own steps take a handler from one of its writes to the    *)
(* next.                                                                    *)
LEMMA WritingMoves ==
    ASSUME TypeOK, FenceFileInv, [Next]_vars, job'.step \in WritingSteps
    PROVE  \/ Reserve /\ job'.step = "persist"
           \/ (Persist \/ Delete) /\ job'.step = "firewall"
           \/ Firewall /\ job'.step = "activate"
           \/ Activate /\ job'.step = "commit"
           \/ CoreDies \/ OperatorStarts \/ UNCHANGED vars
<1>0. WritingSteps \subseteq PrevSteps /\ WritingSteps \cap RestSteps = {}
    BY AllSteps DEF WritingSteps, RestSteps
<1>1. CASE Quiet
    <2>1. GoesOn
        BY <1>0, <1>1, QuietMoves DEF Leaves
    <2>2. \/ job.step = "firewall" /\ job'.step = "activate"
          \/ job.step = "activate" /\ job'.step = "commit"
        BY <2>1 DEF GoesOn, Edges, WritingSteps
    <2>3. ~RestQuiet /\ ~WriterQuiet
        BY <2>2 DEF RestQuiet, Recover, Converge, OpenFirewall, Authorize, StartXray,
            StopXray, ReadInventory, WriterQuiet, EditRuntime, EditUndoRuntime, SaveFirewall
    <2>4. MutationQuiet
        BY <1>1, <2>3 DEF Quiet
    <2>5. QED
        BY <2>2, <2>4 DEF MutationQuiet, Firewall, Activate, Deactivate, ClearLimiter,
            UndoRuntime, UndoFirewall
<1>2. ~(Requests \/ Boot \/ Crash)
    BY <1>0, RequestsEffect, BootEffect, CrashEffect DEF RestSteps
<1>3. ~(Ensure \/ Resolve)
    BY <1>0, ResolutionEffect DEF Leaves, WritingSteps, FreshSteps
<1>4. CASE Reserve
    BY <1>0, <1>4, ReserveEffect DEF Leaves, WritingSteps
<1>5. ~(Unreserve \/ Release \/ Commit \/ Cancel \/ Complete \/ Edit \/ Save)
    BY <1>0, WithdrawEffect, CommitEffect, CancelEffect, CompleteEffect, EditEffect,
       SaveEffect DEF Leaves, WritingSteps
<1>6. CASE Persist \/ Delete
    BY <1>6, PersistEffect, DeleteEffect DEF WritingSteps
<1>7. ~(UndoConfig \/ EditUndo \/ SaveUndo)
    BY <1>0, RestoreEffect DEF Leaves, WritingSteps
<1>8. QED
    BY <1>1, <1>2, <1>3, <1>4, <1>5, <1>6, <1>7, StepCases DEF Calm

LEMMA SameJobFields ==
    ASSUME TypeOK, CoreDies \/ OperatorStarts \/ UNCHANGED vars
    PROVE  job' = job /\ UNCHANGED files /\ UNCHANGED <<seen, added, firewallSynced>>
BY DEF CoreDies, OperatorStarts, vars, files, fenceFile, configFile, history

(* What an add wrote is in place at its following steps.                    *)
LEMMA AddWrittenInFile ==
    ASSUME TypeOK, FenceFileInv, AddIsWritten, [Next]_vars,
           job'.kind = "add", job'.step \in {"firewall", "activate", "commit"}
    PROVE  /\ config'[job'.tag] = [by |-> job'.id, body |-> Payload[job'.id]]
           /\ configSynced'[job'.tag] = config'[job'.tag]
<1>0. job \in Job /\ job.tag \in Tags /\ config \in [Tags -> Inbound]
      /\ configSynced \in [Tags -> Inbound]
    BY JobFields DEF TypeOK
<1>1. CASE Persist /\ job'.step = "firewall"
    <2>1. /\ config' = [config EXCEPT ![job.tag] = [by |-> job.id, body |-> Payload[job.id]]]
          /\ configSynced' \in {config', [configSynced EXCEPT ![job.tag] =
                                            [by |-> job.id, body |-> Payload[job.id]]]}
          /\ job'.tag = job.tag /\ job'.id = job.id
        BY <1>1, PersistEffect DEF Continues, SameRequest
    <2>2. QED
        BY <1>0, <2>1
<1>2. CASE Delete /\ job'.step = "firewall"
    BY <1>2, DeleteEffect DEF Continues, SameRequest
<1>3. CASE Firewall \/ Activate
    <2>1. UNCHANGED <<config, configSynced>> /\ job.step \in {"firewall", "activate"}
        BY <1>3, QuietFiles DEF Quiet, MutationQuiet, files, Firewall, Activate
    <2>2. job'.kind = job.kind /\ job'.tag = job.tag /\ job'.id = job.id
        BY <1>3, QuietMoves, AllSteps
        DEF Quiet, MutationQuiet, Leaves, GoesOn, Continues, SameRequest
    <2>3. QED
        BY <2>1, <2>2 DEF AddIsWritten
<1>4. CASE CoreDies \/ OperatorStarts \/ UNCHANGED vars
    BY <1>4, SameJobFields DEF AddIsWritten, files
<1>5. QED
    BY <1>1, <1>2, <1>3, <1>4, WritingMoves DEF WritingSteps

LEMMA AddWrittenNext ==
    ASSUME TypeOK, FenceFileInv, AddIsWritten, [Next]_vars
    PROVE  AddIsWritten'
<1>0. job \in Job /\ job.tag \in Tags /\ runtime \in [Tags -> Inbound]
    BY JobFields DEF TypeOK
<1>1. ASSUME job'.step \in {"activate", "commit"} PROVE firewallSynced'
    <2>1. CASE Firewall
        <3>1. PICK good \in BOOLEAN :
                /\ firewallSynced' = good
                /\ Goto(IF ~good THEN "undoConfig"
                        ELSE IF job.kind = "add" THEN "activate" ELSE "limiter")
            BY <2>1 DEF Firewall, ReconcileFirewall
        <3>2. ~good => job'.step = "undoConfig"
            BY <1>0, <3>1, GotoFields
        <3>3. QED
            BY <1>1, <3>1, <3>2
    <2>2. CASE Activate
        BY <2>2 DEF AddIsWritten, Activate, configFile
    <2>3. CASE CoreDies \/ OperatorStarts \/ UNCHANGED vars
        BY <1>1, <2>3, SameJobFields DEF AddIsWritten
    <2>4. QED
        BY <1>1, <2>1, <2>2, <2>3, WritingMoves DEF WritingSteps
<1>2. ASSUME job'.step = "commit", xrayUp' PROVE runtime'[job'.tag] = config'[job'.tag]
    <2>1. CASE Activate
        <3>1. PICK good \in BOOLEAN :
                /\ RuntimeAdd(job.tag, config[job.tag], good)
                /\ IF ~good THEN Goto("undoConfig")
                   ELSE IF job.id = NoId THEN Finish ELSE Goto("commit")
            BY <2>1 DEF Activate
        <3>2. good /\ Goto("commit")
            BY <1>0, <1>2, <3>1, GotoFields, IdleDownFields DEF Finish
        <3>3. runtime' = [runtime EXCEPT ![job.tag] = config[job.tag]]
            BY <3>1, <3>2 DEF RuntimeAdd
        <3>4. job'.tag = job.tag /\ config' = config
            BY <1>0, <2>1, <3>2, GotoFields DEF SameRequest, Activate, configFile
        <3>5. QED
            BY <1>0, <3>3, <3>4
    <2>2. CASE CoreDies
        BY <1>2, <2>2 DEF CoreDies
    <2>3. CASE OperatorStarts
        <3>1. job' = job /\ config' = config /\ runtime'[job.tag] = Loaded(config[job.tag])
            BY <1>0, <2>3 DEF OperatorStarts, configFile
        <3>2. config[job.tag].body = Payload[job.id] /\ job.id \in Ids
            BY <1>0, <1>2, <3>1 DEF AddIsWritten, FenceFileInv, StepsOfKind, Job
        <3>3. config[job.tag].body /= Absent
            BY <3>2
        <3>4. QED
            BY <3>1, <3>3 DEF Loaded
    <2>4. CASE UNCHANGED vars
        BY <1>2, <2>4 DEF AddIsWritten, vars, xray, configFile
    <2>5. QED
        BY <1>2, <2>1, <2>2, <2>3, <2>4, WritingMoves DEF WritingSteps
<1>3. QED
    BY <1>1, <1>2, AddWrittenInFile DEF AddIsWritten

(* What a step may make of the request that a handler answers.              *)
LEMMA RequestMoves ==
    ASSUME TypeOK, FenceFileInv, [Next]_vars
    PROVE  \/ Requests
           \/ /\ job'.kind = job.kind /\ job'.tag = job.tag /\ job'.id = job.id
              /\ job'.conditional = job.conditional
           \/ job'.kind \notin {"add", "remove", "save"} /\ ~job'.conditional
<1>1. CASE Quiet
    BY <1>1, QuietMoves DEF Leaves, GoesOn, Continues, SameRequest
<1>2. CASE Boot \/ Crash
    BY <1>2, BootEffect, CrashEffect
<1>3. CASE CoreDies \/ OperatorStarts \/ UNCHANGED vars
    BY <1>3, SameJobFields
<1>4. CASE Ensure \/ Resolve
    BY <1>4, ResolutionEffect DEF Leaves, Continues, SameRequest
<1>5. CASE Reserve \/ Unreserve \/ Release \/ Commit \/ Cancel \/ Complete \/ Edit \/ Save
    BY <1>5, ReserveEffect, WithdrawEffect, CommitEffect, CancelEffect, CompleteEffect,
       EditEffect, SaveEffect DEF Leaves, Begins, Continues, SameRequest
<1>6. CASE Persist \/ Delete
    BY <1>6, PersistEffect, DeleteEffect DEF Continues, SameRequest
<1>7. CASE UndoConfig \/ EditUndo \/ SaveUndo
    BY <1>7, RestoreEffect DEF Leaves, Continues, SameRequest
<1>8. QED
    BY <1>1, <1>2, <1>3, <1>4, <1>5, <1>6, <1>7, StepCases DEF Calm

(* Only an add's commit acknowledges, and only requests forget.             *)
LEMMA AddedMoves ==
    ASSUME TypeOK, FenceFileInv, [Next]_vars
    PROVE  \/ UNCHANGED added
           \/ Requests /\ \A t \in Tags : added'[t] \in {added[t], NoId}
           \/ Commit /\ added' = [added EXCEPT ![job.tag] = job.id]
<1>1. CASE Quiet \/ Boot \/ Crash \/ CoreDies \/ OperatorStarts \/ UNCHANGED vars
    BY <1>1, QuietFiles, BootEffect, CrashEffect, SameJobFields DEF record
<1>2. CASE Requests
    BY <1>2, RequestsEffect
<1>3. CASE Commit
    BY <1>3, CommitEffect
<1>4. CASE Ensure \/ Resolve \/ Reserve \/ Unreserve \/ Release \/ Cancel \/ Complete
    BY <1>4, ResolutionEffect, ReserveEffect, WithdrawEffect, CancelEffect, CompleteEffect
<1>5. CASE Persist \/ Delete \/ UndoConfig \/ EditUndo \/ SaveUndo \/ Edit \/ Save
    BY <1>5, PersistEffect, DeleteEffect, RestoreEffect, EditEffect, SaveEffect
<1>6. QED
    BY <1>1, <1>2, <1>3, <1>4, <1>5, StepCases DEF Calm

(* The files keep what was acknowledged: another tag's handler does not     *)
(* touch it, and no add or remove of its own tag is under way.              *)
LEMMA FencesKeepAdded ==
    ASSUME TypeOK, FenceFileInv, AddedIsKept, [Next]_vars,
           NEW t \in Tags, added[t] /= NoId
    PROVE  IsOwner(added[t], sidecar'[t]) /\ IsOwner(added[t], sidecarSynced'[t])
<1>0. /\ IsOwner(added[t], sidecar[t]) /\ IsOwner(added[t], sidecarSynced[t])
      /\ sidecar \in [Tags -> Fence] /\ job.tag \in Tags
    BY JobFields DEF AddedIsKept, TypeOK
<1>1. CASE UNCHANGED <<sidecar, sidecarSynced>>
    BY <1>0, <1>1
<1>2. CASE Crash
    BY <1>0, <1>2, CrashEffect
<1>3. CASE /\ sidecar' \in {sidecar, Resolved(sidecar)}
           /\ sidecarSynced' \in {sidecarSynced, Resolved(sidecar)}
    <2>1. Resolved(sidecar)[t] = sidecar[t]
        BY <1>0, ResolvedEntries DEF IsOwner
    <2>2. QED
        BY <1>0, <1>3, <2>1
<1>4. ASSUME NEW candidate, FilesGet(candidate), candidate[t] = sidecar[t]
      PROVE  IsOwner(added[t], sidecar'[t]) /\ IsOwner(added[t], sidecarSynced'[t])
    BY <1>0, <1>4 DEF FilesGet
<1>5. job.kind \in {"add", "remove"} => t /= job.tag
    BY DEF AddedIsKept
<1>6. CASE Reserve /\ FilesGet(Reserved(job.tag, job.id))
    <2>1. fences = sidecar /\ t /= job.tag
        BY <1>5, <1>6, ReserveEffect
    <2>2. Reserved(job.tag, job.id)[t] = sidecar[t]
        BY <1>0, <2>1 DEF Reserved
    <2>3. QED
        BY <1>4, <1>6, <2>2
<1>7. CASE Unreserve \/ Release
    <2>1. FilesGet(Withdrawn) /\ Withdrawn[t] = sidecar[t]
        BY <1>5, <1>7, WithdrawEffect, WithdrawnEntries
    <2>2. QED
        BY <1>4, <2>1
<1>8. CASE Commit /\ FilesGet(Committed(job.tag, job.id))
    <2>1. fences = sidecar /\ t /= job.tag
        BY <1>5, <1>8, CommitEffect
    <2>2. Committed(job.tag, job.id)[t] = sidecar[t]
        BY <1>0, <2>1 DEF Committed
    <2>3. QED
        BY <1>4, <1>8, <2>2
<1>9. CASE Cancel /\ FilesGet(Cancelled(job.tag, job.id))
    <2>1. Cancelled(job.tag, job.id)[t] = sidecar[t]
        BY <1>0, <1>5, <1>9, CancelEffect, CancelledEntries
    <2>2. QED
        BY <1>4, <1>9, <2>1
<1>10. CASE Complete /\ FilesGet(Released(job.tag))
    <2>1. Released(job.tag)[t] = sidecar[t]
        BY <1>0, <1>5, <1>10, CompleteEffect, ReleasedEntries
    <2>2. QED
        BY <1>4, <1>10, <2>1
<1>11. \/ UNCHANGED <<sidecar, sidecarSynced>>
       \/ Crash
       \/ /\ sidecar' \in {sidecar, Resolved(sidecar)}
          /\ sidecarSynced' \in {sidecarSynced, Resolved(sidecar)}
       \/ Reserve /\ FilesGet(Reserved(job.tag, job.id))
       \/ Unreserve \/ Release
       \/ Commit /\ FilesGet(Committed(job.tag, job.id))
       \/ Cancel /\ FilesGet(Cancelled(job.tag, job.id))
       \/ Complete /\ FilesGet(Released(job.tag))
    <2>1. CASE Quiet \/ Requests \/ Boot \/ CoreDies \/ OperatorStarts \/ UNCHANGED vars
        BY <2>1, QuietFiles, RequestsEffect, BootEffect, SameJobFields DEF files
    <2>2. CASE Persist \/ Delete \/ UndoConfig \/ EditUndo \/ SaveUndo \/ Edit \/ Save
        BY <2>2, PersistEffect, DeleteEffect, RestoreEffect, EditEffect, SaveEffect
    <2>3. CASE Ensure \/ Resolve
        BY <2>3, ResolutionEffect
    <2>4. CASE Reserve \/ Commit \/ Cancel \/ Complete
        BY <2>4, ReserveEffect, CommitEffect, CancelEffect, CompleteEffect
    <2>5. QED
        BY <2>1, <2>2, <2>3, <2>4, StepCases DEF Calm
<1>12. QED
    BY <1>1, <1>2, <1>3, <1>6, <1>7, <1>8, <1>9, <1>10, <1>11

LEMMA ConfigKeepsAdded ==
    ASSUME TypeOK, FenceFileInv, AddedIsKept, [Next]_vars,
           NEW t \in Tags, added[t] /= NoId
    PROVE  config'[t].by = added[t] /\ configSynced'[t].by = added[t]
<1>0. /\ config[t].by = added[t] /\ configSynced[t].by = added[t]
      /\ job.step \in PrevSteps => job.prev[t].by = added[t]
      /\ config \in [Tags -> Inbound] /\ configSynced \in [Tags -> Inbound]
      /\ job.tag \in Tags
    BY JobFields DEF AddedIsKept, TypeOK
<1>1. CASE UNCHANGED <<config, configSynced>> \/ Crash
    BY <1>0, <1>1, CrashEffect
<1>2. CASE UndoConfig \/ EditUndo \/ SaveUndo
    BY <1>0, <1>2, RestoreEffect, AllSteps
<1>3. CASE Persist \/ Delete
    <2>1. t /= job.tag
        BY <1>3, PersistEffect, DeleteEffect DEF AddedIsKept
    <2>2. \E new \in Inbound :
            /\ config' \in {config, [config EXCEPT ![job.tag] = new]}
            /\ configSynced' \in {configSynced, [config EXCEPT ![job.tag] = new]}
        <3>1. NoInbound \in Inbound
            BY NullTypes
        <3>2. [by |-> job.id, body |-> Payload[job.id]] \in Inbound
            BY JobFields DEF TypeOK, Inbound, Writers
        <3>3. QED
            BY <1>3, <3>1, <3>2, PersistEffect, DeleteEffect
    <2>3. QED
        BY <1>0, <2>1, <2>2
<1>4. CASE Edit
    <2>1. PICK b : config' \in {config, [config EXCEPT ![job.tag].body = b]}
        BY <1>4, EditEffect
    <2>2. config'[t].by = config[t].by
        BY <1>0, <2>1 DEF Inbound
    <2>3. QED
        BY <1>0, <1>4, <2>2, EditEffect
<1>5. ~Save
    BY SaveEffect DEF AddedIsKept
<1>6. UNCHANGED <<config, configSynced>> \/ Crash \/ UndoConfig \/ EditUndo \/ SaveUndo
      \/ Persist \/ Delete \/ Edit
    <2>1. CASE Quiet \/ Requests \/ Boot \/ CoreDies \/ OperatorStarts \/ UNCHANGED vars
        BY <2>1, QuietFiles, RequestsEffect, BootEffect, SameJobFields DEF files
    <2>2. CASE Ensure \/ Resolve \/ Reserve \/ Unreserve \/ Release \/ Commit \/ Cancel
               \/ Complete
        BY <2>2, ResolutionEffect, ReserveEffect, WithdrawEffect, CommitEffect,
           CancelEffect, CompleteEffect
    <2>3. QED
        BY <1>5, <2>1, <2>2, StepCases DEF Calm
<1>7. QED
    BY <1>1, <1>2, <1>3, <1>4, <1>6

(* What the commit acknowledges is in both files, in both views of them.    *)
LEMMA CommitKeepsAdded ==
    ASSUME TypeOK, FenceFileInv, AddIsWritten, Commit,
           added' = [added EXCEPT ![job.tag] = job.id], added' /= added
    PROVE  LET t == job.tag
               m == job.id
           IN /\ IsOwner(m, sidecar'[t]) /\ IsOwner(m, sidecarSynced'[t])
              /\ config'[t].by = m /\ configSynced'[t].by = m
              /\ job'.step \notin PrevSteps
<1>1. /\ sidecar' = Committed(job.tag, job.id) /\ sidecarSynced' = sidecar'
      /\ fences = sidecar /\ UNCHANGED <<config, configSynced>>
      /\ job'.step \notin PrevSteps /\ job.kind = "add"
    BY CommitEffect DEF Leaves
<1>2. IsOwner(job.id, Committed(job.tag, job.id)[job.tag])
    BY <1>1, JobFields, CommittedEntries DEF TypeOK, IsOwner
<1>3. config[job.tag].by = job.id /\ configSynced[job.tag].by = job.id
    BY <1>1 DEF Commit, AddIsWritten
<1>4. QED
    BY <1>1, <1>2, <1>3

LEMMA AddedNext ==
    ASSUME TypeOK, FenceFileInv, AddIsWritten, AddedIsKept, [Next]_vars
    PROVE  AddedIsKept'
<1>0. added \in [Tags -> Ids \cup {NoId}] /\ job.tag \in Tags /\ added' \in [Tags -> Ids \cup {NoId}]
    BY NextType, JobFields DEF TypeOK
<1>1. ASSUME NEW t \in Tags, added'[t] /= NoId
      PROVE  /\ IsOwner(added'[t], sidecar'[t]) /\ IsOwner(added'[t], sidecarSynced'[t])
             /\ config'[t].by = added'[t] /\ configSynced'[t].by = added'[t]
             /\ job'.step \in PrevSteps => job'.prev[t].by = added'[t]
    <2>1. CASE added'[t] = added[t]
        <3>1. /\ config[t].by = added[t]
              /\ job.step \in PrevSteps => job.prev[t].by = added[t]
            BY <1>1, <2>1 DEF AddedIsKept
        <3>2. job'.step \in PrevSteps => job'.prev[t].by = added[t]
            BY <3>1, PrevMoves DEF Continues
        <3>3. QED
            BY <1>1, <2>1, <3>2, FencesKeepAdded, ConfigKeepsAdded
    <2>2. CASE added'[t] /= added[t]
        <3>1. Commit /\ added' = [added EXCEPT ![job.tag] = job.id]
            BY <1>1, <2>2, AddedMoves
        <3>2. t = job.tag /\ added'[t] = job.id /\ added' /= added
            BY <1>0, <2>2, <3>1
        <3>3. QED
            BY <3>1, <3>2, CommitKeepsAdded
    <2>3. QED
        BY <2>1, <2>2
<1>2. ASSUME job'.kind \in {"add", "remove"} PROVE added'[job'.tag] = NoId
    <2>1. CASE Requests
        BY <1>2, <2>1, RequestsEffect
    <2>2. CASE ~Requests
        <3>1. UNCHANGED added
            BY <1>2, <2>2, AddedMoves, CommitEffect
        <3>2. QED
            BY <1>2, <2>2, <3>1, RequestMoves DEF AddedIsKept
    <2>3. QED
        BY <2>1, <2>2
<1>3. ASSUME job'.kind = "save", NEW t \in Tags PROVE added'[t] = NoId
    <2>1. CASE Requests
        BY <1>3, <2>1, RequestsEffect
    <2>2. CASE ~Requests
        <3>1. UNCHANGED added
            BY <1>3, <2>2, AddedMoves, CommitEffect
        <3>2. QED
            BY <1>3, <2>2, <3>1, RequestMoves DEF AddedIsKept
    <2>3. QED
        BY <2>1, <2>2
<1>4. ASSUME job'.step \in {"save", "saveFirewall", "saveUndo"} PROVE job'.kind = "save"
    <2>0. {"save", "saveFirewall", "saveUndo"} \subseteq FreshSteps \cup PrevSteps
        BY AllSteps
    <2>1. CASE Quiet
        <3>1. GoesOn
            BY <1>4, <2>0, <2>1, QuietMoves DEF Leaves
        <3>2. QED
            BY <1>4, <3>1 DEF GoesOn, Edges, AddedIsKept, Continues, SameRequest
    <2>2. ~(Requests \/ Boot \/ Crash)
        BY <1>4, <2>0, RequestsEffect, BootEffect, CrashEffect, RestStepsLeave DEF RestSteps
    <2>3. CASE CoreDies \/ OperatorStarts \/ UNCHANGED vars
        BY <1>4, <2>3, SameJobFields DEF AddedIsKept
    <2>4. CASE Ensure \/ Resolve
        <3>1. job'.step \in FreshSteps /\ (job'.step = "save" => job.kind = "save") /\ Continues
            BY <1>4, <2>0, <2>4, ResolutionEffect DEF Leaves
        <3>2. QED
            BY <1>4, <3>1, AllSteps DEF Continues, SameRequest
    <2>5. ~(Reserve \/ Unreserve \/ Release \/ Commit \/ Cancel \/ Complete \/ Edit)
        BY <1>4, <2>0, ReserveEffect, WithdrawEffect, CommitEffect, CancelEffect,
           CompleteEffect, EditEffect DEF Leaves
    <2>6. ~(Persist \/ Delete)
        BY <1>4, PersistEffect, DeleteEffect
    <2>7. ~(UndoConfig \/ EditUndo \/ SaveUndo)
        BY <1>4, <2>0, RestoreEffect DEF Leaves
    <2>8. CASE Save
        BY <1>4, <2>0, <2>8, SaveEffect DEF Leaves, Begins, AddedIsKept
    <2>9. QED
        BY <2>1, <2>2, <2>3, <2>4, <2>5, <2>6, <2>7, <2>8, StepCases DEF Calm
<1>5. QED
    BY <1>1, <1>2, <1>3, <1>4 DEF AddedIsKept, IsOwner

(* A conditional add carries on with the generation that it compared.       *)
LEMMA SeenNext ==
    ASSUME TypeOK, FenceFileInv, SeenIsReplaced, [Next]_vars
    PROVE  SeenIsReplaced'
<1>1. job'.conditional => job'.kind = "add" /\ job'.id /= NoId
    BY RequestMoves, RequestsEffect DEF SeenIsReplaced
<1>2. ASSUME job'.conditional, job'.step \in WritingSteps
      PROVE  /\ sidecar'[job'.tag].owner = seen'[job'.tag].owner
             /\ sidecar'[job'.tag].pending.prevBody = seen'[job'.tag].body
    <2>0. job.tag \in Tags /\ ~Requests
        BY <1>2, JobFields, RequestsEffect DEF TypeOK, RestSteps, WritingSteps
    <2>1. job.conditional /\ job'.tag = job.tag /\ job'.kind = job.kind
        BY <1>2, <2>0, RequestMoves
    <2>2. CASE Reserve
        <3>1. ~Leaves
            BY <1>2, AllSteps DEF Leaves, WritingSteps
        <3>2. /\ Expected(job.tag) /\ job.id /= NoId /\ fences = sidecar
              /\ sidecar' = Reserved(job.tag, job.id) /\ UNCHANGED seen
            BY <2>1, <2>2, <3>1, ReserveEffect DEF SeenIsReplaced
        <3>3. /\ sidecar'[job.tag].owner = sidecar[job.tag].owner
              /\ sidecar'[job.tag].canceled = sidecar[job.tag].canceled
              /\ sidecar'[job.tag].pending =
                    [owner |-> job.id, intended |-> Payload[job.id],
                     prevOwner |-> sidecar[job.tag].owner, prevBody |-> config[job.tag].body]
              /\ \A s \in Tags : s /= job.tag => sidecar'[s] = sidecar[s]
            BY <2>0, <3>2, ReservedEntries
        <3>4. QED
            BY <2>1, <3>2, <3>3 DEF Expected
    <2>3. CASE Persist \/ Firewall \/ Activate
        <3>1. job.step \in WritingSteps
            BY <2>3 DEF Persist, Firewall, Activate, WritingSteps
        <3>2. UNCHANGED <<sidecar, seen>>
            BY <2>3, PersistEffect DEF Firewall, Activate, fenceFile, history
        <3>3. QED
            BY <2>1, <3>1, <3>2 DEF SeenIsReplaced, WritingSteps
    <2>4. ~Delete
        BY <2>1, DeleteEffect DEF SeenIsReplaced
    <2>5. CASE CoreDies \/ OperatorStarts \/ UNCHANGED vars
        BY <1>2, <2>5, SameJobFields DEF SeenIsReplaced, WritingSteps, files
    <2>6. QED
        BY <1>2, <2>2, <2>3, <2>4, <2>5, WritingMoves
<1>3. QED
    BY <1>1, <1>2 DEF SeenIsReplaced, WritingSteps

LEMMA AddConfigInit == ASSUME Init PROVE AddConfigInv
<1>1. /\ job.step = "down" /\ job.kind = "none" /\ ~job.conditional
      /\ \A t \in Tags : added[t] = NoId
    BY IdleDownFields, IdleDownKind, TaskMore DEF Init, Down
<1>2. QED
    BY <1>1 DEF AddConfigInv, AddIsWritten, AddedIsKept, SeenIsReplaced, PrevSteps, WorkSteps,
        CarryingSteps, UndoSteps

LEMMA AddConfigCorrect == Spec => [](TypeOK /\ FenceFileInv /\ AddConfigInv)
<1>1. TypeOK /\ FenceFileInv /\ AddConfigInv /\ [Next]_vars => AddConfigInv'
    BY AddWrittenNext, AddedNext, SeenNext DEF AddConfigInv
<1>2. QED
    BY <1>1, AddConfigInit, InitType, NextType, FenceFileInit, FenceFileNext, PTL DEF Spec

(* An add that was acknowledged survives every crash and power loss: both   *)
(* files, as the disk is certain to hold them, have it.                     *)
THEOREM AcknowledgedAddsAreDurable == Spec => []AddedIsDurable
<1>1. AddConfigInv => AddedIsDurable
    BY DEF AddConfigInv, AddedIsKept, AddedIsDurable, IsOwner
<1>2. QED
    BY <1>1, AddConfigCorrect, PTL

(* An acknowledgement is given by a commit, for the add it carries out.     *)
LEMMA AcknowledgedByCommit ==
    ASSUME TypeOK, FenceFileInv, [Next]_vars, NEW t \in Tags,
           added'[t] /= added[t], added'[t] /= NoId
    PROVE  Commit /\ t = job.tag /\ added'[t] = job.id
<1>1. added \in [Tags -> Ids \cup {NoId}]
    BY DEF TypeOK
<1>2. QED
    BY <1>1, AddedMoves

(* The acknowledgement of an add is given only when the configuration holds *)
(* what it wrote, the firewall is open for it and a running core serves it. *)
THEOREM AcknowledgedAddsAreServed == Spec => AddedMeansServed
<1>1. ASSUME TypeOK, FenceFileInv, AddConfigInv, [Next]_vars, NEW t \in Tags,
             added'[t] /= added[t], added'[t] /= NoId
      PROVE  /\ config'[t] = [by |-> added'[t], body |-> Payload[added'[t]]]
             /\ firewallSynced'
             /\ xrayUp' => runtime'[t] = config'[t]
    <2>1. Commit /\ t = job.tag /\ added'[t] = job.id
        BY <1>1, AcknowledgedByCommit
    <2>2. job.step = "commit" /\ job.kind = "add" /\ UNCHANGED <<configFile, xray>>
        BY <1>1, <2>1, CommitEffect DEF Commit
    <2>3. QED
        BY <1>1, <2>1, <2>2 DEF AddConfigInv, AddIsWritten, configFile, xray
<1>2. TypeOK /\ FenceFileInv /\ AddConfigInv /\ [Next]_vars =>
        [ \A t \in Tags : added'[t] /= added[t] /\ added'[t] /= NoId =>
            /\ config'[t] = [by |-> added'[t], body |-> Payload[added'[t]]]
            /\ firewallSynced'
            /\ xrayUp' => runtime'[t] = config'[t] ]_vars
    BY <1>1
<1>3. QED
    BY <1>2, AddConfigCorrect, PTL DEF Spec, AddedMeansServed

(* However stale the inventory it was asked from, a conditional replacement *)
(* that is acknowledged replaced what the inventory showed.                 *)
THEOREM ReplacementsAreOfWhatWasSeen == Spec => ConditionalReplacesWhatWasSeen
<1>1. ASSUME TypeOK, FenceFileInv, AddConfigInv, [Next]_vars, NEW t \in Tags,
             added'[t] /= added[t], added'[t] /= NoId, job.conditional
      PROVE  /\ sidecar[t].owner = seen[t].owner
             /\ sidecar[t].pending.prevBody = seen[t].body
    <2>1. Commit /\ t = job.tag
        BY <1>1, AcknowledgedByCommit
    <2>2. QED
        BY <1>1, <2>1 DEF Commit, AddConfigInv, SeenIsReplaced
<1>2. TypeOK /\ FenceFileInv /\ AddConfigInv /\ [Next]_vars =>
        [ \A t \in Tags : added'[t] /= added[t] /\ added'[t] /= NoId /\ job.conditional =>
            /\ sidecar[t].owner = seen[t].owner
            /\ sidecar[t].pending.prevBody = seen[t].body ]_vars
    BY <1>1
<1>3. QED
    BY <1>2, AddConfigCorrect, PTL DEF Spec, ConditionalReplacesWhatWasSeen

-----------------------------------------------------------------------------
(* Whose the tag is once what is pending has been decided                   *)

(* Decided, of an inbound and an entry.                                     *)
Decides(i, entry) == IF Meant(i, entry) THEN entry.pending.owner ELSE entry.owner

LEMMA DecidedEntry ==
    /\ \A t : Decided(t) = Decides(config[t], sidecar[t])
    /\ \A t : Decided(t)' = Decides(config'[t], sidecar'[t])
BY DEF Decided, Decides, Intended, Meant, HasPending

LEMMA DecidesPlain ==
    ASSUME NEW i, NEW entry, entry.pending = NoPending
    PROVE  Decides(i, entry) = entry.owner
BY DEF Decides, Meant

DigestsTell == DefinitionsDiffer /\ OperatorDiffers

(* A definition with the digest of a mutation is that mutation's.           *)
LEMMA ByDigest ==
    ASSUME DigestsTell, NEW i \in Inbound, WriterKnown(i), OperatorKnown(i),
           NEW m \in Ids, i.body = Payload[m]
    PROVE  i.by = m
<1>1. i.by \in Ids \cup {NoId, Nobody, Operator} /\ Payload[m] \in Bodies
    BY DEF Inbound, Writers
<1>2. CASE i.by \in Ids \cup {NoId}
    BY <1>2 DEF WriterKnown, DigestsTell, DefinitionsDiffer
<1>3. CASE i.by = Nobody
    BY <1>1, <1>3 DEF WriterKnown, NoInbound
<1>4. CASE i.by = Operator
    BY <1>4 DEF OperatorKnown, DigestsTell, DefinitionsDiffer, OperatorDiffers
<1>5. QED
    BY <1>1, <1>2, <1>3, <1>4

(* So a definition that is the owner's, or what is pending, is that of      *)
(* whoever the decision names; and if it is the owner's it decides nothing  *)
(* else.                                                                    *)
LEMMA DecisionByDigest ==
    ASSUME DigestsTell, NEW i \in Inbound, WriterKnown(i), OperatorKnown(i),
           NEW entry, IsOf(i, entry.owner),
           entry.pending /= NoPending =>
               /\ entry.pending.owner \in Ids
               /\ entry.pending.intended = Payload[entry.pending.owner]
    PROVE  IsOf(i, Decides(i, entry)) /\ Decides(i, entry) = entry.owner
<1>1. CASE Meant(i, entry)
    <2>1. i.by = entry.pending.owner /\ entry.pending.owner \in Ids
        BY <1>1, ByDigest DEF Meant
    <2>2. QED
        BY <1>1, <2>1 DEF Decides, IsOf
<1>2. CASE ~Meant(i, entry)
    BY <1>2 DEF Decides
<1>3. QED
    BY <1>1, <1>2

(* What the invariants so far say of a tag.                                 *)
LEMMA EntryKnown ==
    ASSUME TypeOK, FenceFileInv, OwnerInv, ConfigIsOwners, NEW t \in Tags
    PROVE  /\ sidecar[t].pending /= NoPending =>
                 /\ sidecar[t].pending.owner \in Ids
                 /\ sidecar[t].pending.intended = Payload[sidecar[t].pending.owner]
           /\ config[t] \in Inbound /\ WriterKnown(config[t]) /\ OperatorKnown(config[t])
           /\ IsOf(config[t], Decides(config[t], sidecar[t]))
           /\ job.step \in PrevSteps =>
                 /\ job.prev[t] \in Inbound
                 /\ WriterKnown(job.prev[t]) /\ OperatorKnown(job.prev[t])
                 /\ IsOf(job.prev[t], sidecar[t].owner)
<1>1. sidecar[t].pending /= NoPending =>
          /\ sidecar[t].pending.owner \in Ids
          /\ sidecar[t].pending.intended = Payload[sidecar[t].pending.owner]
    BY OwnersParts DEF OwnerInv, FenceFileInv, WellFormed, HasPending
<1>2. config[t] \in Inbound /\ job.prev[t] \in Inbound
    BY JobFields DEF TypeOK
<1>3. QED
    BY <1>1, <1>2, DecidedEntry DEF OwnerInv, WritersKnown, ConfigIsOwners

(* Only steps at which a handler leaves change an owner.                    *)
LEMMA OwnerKept ==
    ASSUME TypeOK, FenceFileInv, ~PowerLossToo, [Next]_vars, job'.step \in PrevSteps,
           NEW t \in Tags
    PROVE  sidecar'[t].owner = sidecar[t].owner
<1>0. job.tag \in Tags
    BY JobFields DEF TypeOK
<1>1. CASE Calm \/ Persist \/ Delete \/ UndoConfig \/ EditUndo \/ SaveUndo \/ Edit \/ Save
    BY <1>1, CalmEffect, PersistEffect, DeleteEffect, RestoreEffect, EditEffect,
       SaveEffect DEF files
<1>2. CASE Ensure \/ Resolve
    BY <1>2, ResolutionEffect, AllSteps DEF Leaves
<1>3. CASE Unreserve \/ Release \/ Commit \/ Complete
    BY <1>3, WithdrawEffect, CommitEffect, CompleteEffect DEF Leaves
<1>4. CASE Reserve
    <2>0. fences = sidecar
        BY <1>4, ReserveEffect
    <2>1. UNCHANGED sidecar \/ sidecar' = Reserved(job.tag, job.id)
        BY <1>4, ReserveEffect
    <2>2. CASE sidecar' = Reserved(job.tag, job.id)
        <3>1. /\ \A s \in Tags : s /= job.tag => sidecar'[s] = sidecar[s]
              /\ sidecar'[job.tag].owner = sidecar[job.tag].owner
              /\ sidecar'[job.tag].pending =
                    [owner |-> job.id, intended |-> Payload[job.id],
                     prevOwner |-> sidecar[job.tag].owner, prevBody |-> config[job.tag].body]
            BY <1>0, <2>0, <2>2, ReservedEntries
        <3>2. QED
            BY <3>1
    <2>3. QED
        BY <2>1, <2>2
<1>5. CASE Cancel
    <2>1. fences = sidecar /\ (UNCHANGED sidecar \/ sidecar' = Cancelled(job.tag, job.id))
        BY <1>5, CancelEffect DEF FilesGet
    <2>2. QED
        BY <1>0, <2>1, CancelledEntries
<1>6. QED
    BY <1>1, <1>2, <1>3, <1>4, <1>5, StepCases

FenceKnown == TypeOK /\ FenceFileInv /\ OwnerInv /\ RemovedIsGone

(* No step moves the decision over a tag, but the end of a remove and those *)
(* in the middle of an add, or of its undo.                                 *)
LEMMA DecidedMoves ==
    ASSUME FenceKnown, ConfigIsOwners, DigestsTell, ~PowerLossToo, [Next]_vars,
           NEW t \in Tags
    PROVE  \/ Decided(t)' = Decided(t)
           \/ Complete /\ t = job.tag /\ Decided(t)' = NoId
           \/ HasPending(sidecar', t) /\ job'.step \in {"firewall", "undoConfig", "undoRuntime"}
<1>0. /\ TypeOK /\ FenceFileInv /\ OwnerInv /\ RemovedIsGone
      /\ job.tag \in Tags /\ sidecar \in [Tags -> Fence] /\ config \in [Tags -> Inbound]
    BY JobFields DEF TypeOK, FenceKnown
<1>1. Decides(config'[t], sidecar'[t]) = Decides(config[t], sidecar[t])
        => Decided(t)' = Decided(t)
    BY DecidedEntry
<1>2. ASSUME ~HasPending(sidecar, t), ~HasPending(sidecar', t),
             sidecar'[t].owner = sidecar[t].owner
      PROVE  Decided(t)' = Decided(t)
    BY <1>1, <1>2, DecidesPlain DEF HasPending
<1>3. CASE UNCHANGED <<sidecar, config>>
    BY <1>1, <1>3
<1>4. CASE Calm
    BY <1>0, <1>3, <1>4, CalmEffect DEF files
<1>5. CASE Ensure \/ Resolve
    <2>1. UNCHANGED config
          /\ (UNCHANGED sidecar \/ (AllResolvable(sidecar) /\ sidecar' = Resolved(sidecar)))
        BY <1>0, <1>5, ResolutionEffect
    <2>2. CASE AllResolvable(sidecar) /\ sidecar' = Resolved(sidecar)
        <3>1. /\ sidecar'[t].pending = NoPending
              /\ sidecar[t].pending = NoPending => sidecar'[t] = sidecar[t]
              /\ sidecar[t].pending /= NoPending =>
                    sidecar'[t].owner = IF config[t].body = sidecar[t].pending.intended
                                        THEN sidecar[t].pending.owner
                                        ELSE sidecar[t].pending.prevOwner
            BY <1>0, <2>2, ResolvedEntries
        <3>2. sidecar[t].pending /= NoPending => sidecar[t].pending.prevOwner = sidecar[t].owner
            BY <2>2 DEF AllResolvable, Resolvable, HasPending
        <3>3. sidecar'[t].owner = Decides(config[t], sidecar[t])
            BY <3>1, <3>2 DEF Decides, Meant
        <3>4. QED
            BY <1>1, <2>1, <3>1, <3>3, DecidesPlain
    <2>3. QED
        BY <1>3, <2>1, <2>2
<1>6. CASE Reserve
    <2>1. /\ UNCHANGED config /\ fences = sidecar /\ ~AnyPending(sidecar)
          /\ UNCHANGED sidecar \/ (job.id \in Ids /\ sidecar' = Reserved(job.tag, job.id))
        BY <1>0, <1>6, ReserveEffect, JobFields DEF TypeOK
    <2>2. CASE job.id \in Ids /\ sidecar' = Reserved(job.tag, job.id)
        <3>0. /\ \A s \in Tags : s /= job.tag => sidecar'[s] = sidecar[s]
              /\ sidecar'[job.tag].owner = sidecar[job.tag].owner
              /\ sidecar'[job.tag].pending =
                    [owner |-> job.id, intended |-> Payload[job.id],
                     prevOwner |-> sidecar[job.tag].owner, prevBody |-> config[job.tag].body]
            BY <1>0, <2>1, <2>2, ReservedEntries
        <3>1. /\ t /= job.tag => sidecar'[t] = sidecar[t]
              /\ sidecar'[t].owner = sidecar[t].owner
              /\ t = job.tag => sidecar'[t].pending =
                    [owner |-> job.id, intended |-> Payload[job.id],
                     prevOwner |-> sidecar[t].owner, prevBody |-> config[t].body]
            BY <3>0
        <3>2. sidecar[t].pending = NoPending
            BY <2>1 DEF AnyPending, HasPending
        <3>3. sidecar'[t].pending /= NoPending =>
                  /\ sidecar'[t].pending.owner \in Ids
                  /\ sidecar'[t].pending.intended = Payload[sidecar'[t].pending.owner]
            BY <2>2, <3>1, <3>2
        <3>4. /\ Decides(config[t], sidecar[t]) = sidecar[t].owner
              /\ WriterKnown(config[t]) /\ OperatorKnown(config[t]) /\ config[t] \in Inbound
              /\ IsOf(config[t], sidecar'[t].owner)
            BY <1>0, <3>1, <3>2, DecidesPlain, EntryKnown
        <3>5. Decides(config[t], sidecar'[t]) = sidecar'[t].owner
            BY <3>3, <3>4, DecisionByDigest
        <3>6. QED
            BY <1>1, <2>1, <3>1, <3>4, <3>5
    <2>3. QED
        BY <1>3, <2>1, <2>2
<1>7. CASE Unreserve \/ Release
    <2>1. UNCHANGED config /\ fences = sidecar /\ job.kind = "add"
          /\ (UNCHANGED sidecar \/ sidecar' = Withdrawn)
        BY <1>0, <1>7, WithdrawEffect DEF FilesGet
    <2>2. CASE sidecar' = Withdrawn
        <3>1. sidecar'[t].pending = NoPending /\ sidecar'[t].owner = sidecar[t].owner
            BY <1>0, <1>7, <2>1, <2>2, WithdrawnIsClear
            DEF FenceFileInv, Unreserve, Release, AnyPending, HasPending
        <3>2. job.step \in PrevSteps /\ config = job.prev
            BY <1>0, <1>7, OwnersParts, AllSteps
            DEF OwnerInv, RestoredIsFound, Unreserve, Release
        <3>3. Decides(config[t], sidecar[t]) = sidecar[t].owner
            BY <1>0, <3>2, EntryKnown, DecisionByDigest
        <3>4. QED
            BY <1>1, <2>1, <3>1, <3>3, DecidesPlain
    <2>3. QED
        BY <1>3, <2>1, <2>2
<1>8. CASE Commit
    <2>1. /\ UNCHANGED config /\ fences = sidecar
          /\ \/ UNCHANGED sidecar
             \/ /\ HasPending(sidecar, job.tag) /\ sidecar[job.tag].pending.owner = job.id
                /\ config[job.tag].body = sidecar[job.tag].pending.intended
                /\ sidecar' = Committed(job.tag, job.id)
        BY <1>0, <1>8, CommitEffect DEF FilesGet
    <2>2. CASE /\ HasPending(sidecar, job.tag) /\ sidecar[job.tag].pending.owner = job.id
               /\ config[job.tag].body = sidecar[job.tag].pending.intended
               /\ sidecar' = Committed(job.tag, job.id)
        <3>1. /\ t /= job.tag => sidecar'[t] = sidecar[t]
              /\ t = job.tag => sidecar'[t].owner = job.id /\ sidecar'[t].pending = NoPending
            BY <1>0, <2>1, <2>2, CommittedEntries
        <3>2. t = job.tag => Decides(config[t], sidecar[t]) = job.id
            BY <2>2 DEF Decides, Meant, HasPending
        <3>3. QED
            BY <1>1, <2>1, <3>1, <3>2, DecidesPlain
    <2>3. QED
        BY <1>3, <2>1, <2>2
<1>9. CASE Persist \/ UndoConfig
    <2>1. UNCHANGED sidecar /\ job'.step \in {"firewall", "undoConfig", "undoRuntime"}
        <3>1. CASE Persist
            BY <1>0, <3>1, PersistEffect
        <3>2. CASE UndoConfig
            BY <1>0, <3>2 DEF UndoConfig, fenceFile, TypeOK, Job
        <3>3. QED
            BY <1>9, <3>1, <3>2
    <2>2. QED
        BY <1>2, <2>1
<1>10. CASE Cancel \/ Delete \/ EditUndo \/ SaveUndo \/ Edit \/ Save
    <2>1. ~AnyPending(sidecar)
        BY <1>0, <1>10, AllSteps
        DEF OwnerInv, PendingIsDecidable, Cancel, Delete, EditUndo, SaveUndo, Edit, Save
    <2>2. CASE UNCHANGED sidecar
        BY <1>2, <2>1, <2>2 DEF AnyPending
    <2>3. CASE fences = sidecar /\ sidecar' = Cancelled(job.tag, job.id)
        <3>1. sidecar'[t].owner = sidecar[t].owner /\ sidecar'[t].pending = sidecar[t].pending
            BY <1>0, <2>3, CancelledEntries
        <3>2. QED
            BY <1>2, <2>1, <3>1 DEF AnyPending, HasPending
    <2>4. QED
        BY <1>0, <1>10, <2>2, <2>3, CancelEffect, DeleteEffect, RestoreEffect, EditEffect,
           SaveEffect DEF FilesGet
<1>11. CASE Complete
    <2>1. /\ UNCHANGED config /\ fences = sidecar
          /\ UNCHANGED sidecar \/ sidecar' = Released(job.tag)
        BY <1>0, <1>11, CompleteEffect DEF FilesGet
    <2>2. CASE sidecar' = Released(job.tag)
        <3>1. /\ t /= job.tag => sidecar'[t] = sidecar[t]
              /\ t = job.tag => sidecar'[t].owner = NoId
              /\ sidecar'[t].pending = sidecar[t].pending
            BY <1>0, <2>1, <2>2, ReleasedEntries
        <3>2. ~AnyPending(sidecar)
            BY <1>0, <1>11, AllSteps DEF OwnerInv, PendingIsDecidable, Complete
        <3>3. t = job.tag => Decided(t)' = NoId
            BY <3>1, <3>2, DecidedEntry, DecidesPlain DEF AnyPending, HasPending
        <3>4. QED
            BY <1>1, <1>11, <2>1, <3>1, <3>3
    <2>3. QED
        BY <1>3, <2>1, <2>2
<1>12. QED
    BY <1>4, <1>5, <1>6, <1>7, <1>8, <1>9, <1>10, <1>11, StepCases

-----------------------------------------------------------------------------
(* A definition in the configuration is its owner's                         *)

LEMMA SavedBodies ==
    ASSUME TypeOK, Save, NEW t \in Tags
    PROVE  \/ config'[t] = config[t]
           \/ config'[t].by = Operator /\ config'[t].body \in OperatorBodies
<1>1. PICK good \in BOOLEAN, new \in [Tags -> UNION {SavedInbounds(s) : s \in Tags}] :
        (\A s \in Tags : new[s] \in SavedInbounds(s)) /\ WriteConfigUnsynced(new, good)
    BY DEF Save
<1>2. new[t] = config[t] \/ new[t] \in [by: {Operator}, body: OperatorBodies]
    BY <1>1 DEF SavedInbounds
<1>3. QED
    BY <1>1, <1>2 DEF WriteConfigUnsynced

(* Steps that enter the middle of a mutation leave the fence file.          *)
LEMMA MiddleKeepsFile ==
    ASSUME TypeOK, FenceFileInv, ~PowerLossToo, [Next]_vars,
           job'.step \in {"firewall", "undoConfig", "undoRuntime"}
    PROVE  UNCHANGED sidecar
<1>1. CASE Calm
    BY <1>1, CalmEffect DEF files
<1>2. CASE Ensure \/ Resolve
    BY <1>2, ResolutionEffect, AllSteps DEF Leaves
<1>3. CASE Reserve \/ Unreserve \/ Release \/ Commit \/ Cancel \/ Complete \/ Edit \/ Save
    BY <1>3, ReserveEffect, WithdrawEffect, CommitEffect, CancelEffect, CompleteEffect,
       EditEffect, SaveEffect, AllSteps DEF Leaves
<1>4. CASE Persist \/ Delete \/ UndoConfig \/ EditUndo \/ SaveUndo
    BY <1>4, PersistEffect, DeleteEffect, RestoreEffect
<1>5. QED
    BY <1>1, <1>2, <1>3, <1>4, StepCases

LEMMA OperatorKnownNext ==
    ASSUME TypeOK, FenceFileInv, ConfigIsOwners, ~PowerLossToo, [Next]_vars,
           NEW t \in Tags
    PROVE  OperatorKnown(config'[t])
<1>0. /\ job.tag \in Tags /\ job.id \in Ids \cup {NoId} /\ config \in [Tags -> Inbound]
      /\ OperatorKnown(config[t])
    BY JobFields DEF TypeOK, ConfigIsOwners
<1>1. CASE UNCHANGED config
    BY <1>0, <1>1
<1>2. CASE job.step \in PrevSteps /\ config' = job.prev
    BY <1>2 DEF ConfigIsOwners
<1>3. CASE config' = [config EXCEPT ![job.tag] = [by |-> job.id, body |-> Payload[job.id]]]
    BY <1>0, <1>3 DEF OperatorKnown
<1>4. CASE config' = [config EXCEPT ![job.tag] = NoInbound]
    BY <1>0, <1>4 DEF OperatorKnown, NoInbound
<1>5. CASE \E b \in EditBodies : config' = [config EXCEPT ![job.tag].body = b]
    <2>1. PICK b \in EditBodies : config' = [config EXCEPT ![job.tag].body = b]
        BY <1>5
    <2>2. t = job.tag => config'[t].body = b
        BY <1>0, <2>1 DEF Inbound
    <2>3. t /= job.tag => config'[t] = config[t]
        BY <1>0, <2>1
    <2>4. QED
        BY <1>0, <2>2, <2>3 DEF OperatorKnown
<1>6. CASE Save
    BY <1>0, <1>6, SavedBodies DEF OperatorKnown
<1>7. QED
    BY <1>1, <1>2, <1>3, <1>4, <1>5, <1>6, ConfigMoves

LEMMA OwnedConfigNext ==
    ASSUME FenceKnown, FenceKnown', ConfigIsOwners, DigestsTell, ~PowerLossToo, [Next]_vars,
           NEW t \in Tags
    PROVE  IsOf(config'[t], Decided(t)')
<1>0. /\ TypeOK /\ FenceFileInv /\ OwnerInv /\ RemovedIsGone
      /\ job.tag \in Tags /\ job.id \in Ids \cup {NoId}
      /\ config \in [Tags -> Inbound] /\ config' \in [Tags -> Inbound]
      /\ IsOf(config[t], Decided(t))
    BY JobFields DEF TypeOK, FenceKnown, ConfigIsOwners
<1>1. config'[t].by \notin Ids => IsOf(config'[t], Decided(t)')
    BY DEF IsOf
<1>2. CASE config'[t] = config[t]
    <2>1. CASE Decided(t)' = Decided(t)
        BY <1>0, <1>2, <2>1
    <2>2. CASE Complete /\ t = job.tag
        <3>1. config[t] = NoInbound
            BY <1>0, <2>2, GoneParts, CompleteEffect DEF RemoveFinds
        <3>2. QED
            BY <1>1, <1>2, <3>1 DEF NoInbound
    <2>3. CASE job'.step \in {"firewall", "undoConfig", "undoRuntime"}
        <3>1. UNCHANGED sidecar
            BY <1>0, <2>3, MiddleKeepsFile
        <3>2. QED
            BY <1>0, <1>2, <3>1, DecidedEntry
    <2>4. QED
        BY <2>1, <2>2, <2>3, DecidedMoves
<1>3. CASE UndoConfig \/ EditUndo \/ SaveUndo
    <2>1. UNCHANGED sidecar /\ config' \in {config, job.prev} /\ job.step \in PrevSteps
        BY <1>0, <1>3, RestoreEffect, AllSteps
    <2>2. CASE config' = job.prev
        <3>1. IsOf(job.prev[t], Decides(job.prev[t], sidecar[t]))
            BY <1>0, <2>1, EntryKnown, DecisionByDigest
        <3>2. QED
            BY <2>1, <2>2, <3>1, DecidedEntry
    <2>3. QED
        BY <1>2, <2>1, <2>2
<1>4. CASE Persist /\ t = job.tag /\ config'[t] = [by |-> job.id, body |-> Payload[job.id]]
    <2>1. UNCHANGED sidecar /\ job.kind = "add" /\ job.step = "persist"
        BY <1>0, <1>4, PersistEffect
    <2>2. CASE job.id \in Ids
        <3>1. sidecar[t].pending =
                  [owner |-> job.id, intended |-> Payload[job.id],
                   prevOwner |-> job.saved.owner, prevBody |-> job.prev[job.tag].body]
            BY <1>0, <1>4, <2>1, <2>2, PendingParts, AllSteps DEF OwnerInv, CarriesOn
        <3>2. sidecar[t].pending /= NoPending /\ sidecar[t].pending.owner = job.id
              /\ sidecar[t].pending.intended = Payload[job.id]
            BY <2>2, <3>1, NoFencePending
        <3>3. Decides(config'[t], sidecar[t]) = job.id
            BY <1>4, <3>2 DEF Decides, Meant
        <3>4. QED
            BY <1>4, <2>1, <3>3, DecidedEntry DEF IsOf
    <2>3. CASE job.id = NoId
        BY <1>1, <1>4, <2>3
    <2>4. QED
        BY <1>0, <2>2, <2>3
<1>5. CASE Edit
    <2>1. UNCHANGED sidecar /\ ~AnyPending(sidecar)
        BY <1>0, <1>5, EditEffect, AllSteps DEF OwnerInv, PendingIsDecidable
    <2>2. Decided(t)' = sidecar[t].owner /\ Decided(t) = sidecar[t].owner
        BY <2>1, DecidedEntry, DecidesPlain DEF AnyPending, HasPending
    <2>3. config'[t].by = config[t].by
        <3>1. CASE \E b \in EditBodies : config' = [config EXCEPT ![job.tag].body = b]
            <4>1. PICK b \in EditBodies : config' = [config EXCEPT ![job.tag].body = b]
                BY <3>1
            <4>2. QED
                BY <1>0, <4>1 DEF Inbound
        <3>2. QED
            BY <1>0, <1>5, <3>1, EditEffect
    <2>4. QED
        BY <1>0, <2>2, <2>3 DEF IsOf
<1>6. \/ config'[t] = config[t]
      \/ config'[t].by \in {Nobody, Operator}
      \/ Persist /\ t = job.tag /\ config'[t] = [by |-> job.id, body |-> Payload[job.id]]
      \/ UndoConfig \/ EditUndo \/ SaveUndo \/ Edit
    <2>1. CASE Persist
        <3>1. config' \in {config, [config EXCEPT ![job.tag] =
                                        [by |-> job.id, body |-> Payload[job.id]]]}
            BY <1>0, <2>1, PersistEffect
        <3>2. QED
            BY <1>0, <2>1, <3>1
    <2>2. CASE Delete
        <3>1. config' \in {config, [config EXCEPT ![job.tag] = NoInbound]}
            BY <1>0, <2>2, DeleteEffect
        <3>2. QED
            BY <1>0, <3>1 DEF NoInbound
    <2>3. CASE Save
        BY <1>0, <2>3, SaveEffect
    <2>4. CASE Calm \/ Ensure \/ Resolve
        BY <1>0, <2>4, CalmEffect, ResolutionEffect DEF files
    <2>5. CASE Reserve \/ Unreserve \/ Release \/ Commit \/ Cancel \/ Complete
        BY <1>0, <2>5, ReserveEffect, WithdrawEffect, CommitEffect, CancelEffect,
           CompleteEffect
    <2>6. QED
        BY <2>1, <2>2, <2>3, <2>4, <2>5, StepCases
<1>7. QED
    BY <1>1, <1>2, <1>3, <1>4, <1>5, <1>6

LEMMA ConfigIsOwnersNext ==
    ASSUME FenceKnown, FenceKnown', ConfigIsOwners, DigestsTell, ~PowerLossToo, [Next]_vars
    PROVE  ConfigIsOwners'
<1>0. TypeOK /\ FenceFileInv /\ OwnerInv
    BY DEF FenceKnown
<1>1. ASSUME NEW t \in Tags, job'.step \in PrevSteps
      PROVE  IsOf(job'.prev[t], sidecar'[t].owner) /\ OperatorKnown(job'.prev[t])
    <2>1. sidecar'[t].owner = sidecar[t].owner
        BY <1>0, <1>1, OwnerKept
    <2>2. CASE job.step \in PrevSteps /\ job'.prev = job.prev
        BY <2>1, <2>2 DEF ConfigIsOwners
    <2>3. CASE job'.prev = config /\ job.step \in FreshSteps
        <3>1. ~AnyPending(sidecar)
            BY <1>0, <2>3 DEF OwnerInv, PendingIsDecidable
        <3>2. Decided(t) = sidecar[t].owner
            BY <3>1, DecidedEntry, DecidesPlain DEF AnyPending, HasPending
        <3>3. QED
            BY <2>1, <2>3, <3>2 DEF ConfigIsOwners
    <2>4. QED
        BY <1>0, <1>1, <2>2, <2>3, PrevMoves DEF Continues
<1>2. QED
    BY <1>0, <1>1, OperatorKnownNext, OwnedConfigNext DEF ConfigIsOwners

LEMMA ConfigIsOwnersInit == ASSUME Init PROVE ConfigIsOwners
<1>1. job.step = "down"
    BY IdleDownFields DEF Init
<1>2. \A t \in Tags : /\ config[t] = NoInbound \/ config[t] \in [by: {Operator}, body: OperatorBodies]
                      /\ sidecar[t].pending = NoPending
    BY NoFencePending DEF Init
<1>3. QED
    BY <1>1, <1>2, AllSteps DEF ConfigIsOwners, IsOf, OperatorKnown, NoInbound

-----------------------------------------------------------------------------
(* Nothing is pending while suspended, but at rest                          *)

LEMMA PendingArises ==
    ASSUME TypeOK, FenceFileInv, ~PowerLossToo, [Next]_vars, AnyPending(sidecar')
    PROVE  AnyPending(sidecar) \/ Reserve
<1>0. job.tag \in Tags /\ sidecar \in [Tags -> Fence]
    BY JobFields DEF TypeOK
<1>1. CASE Calm \/ Persist \/ Delete \/ UndoConfig \/ EditUndo \/ SaveUndo \/ Edit \/ Save
    BY <1>1, CalmEffect, PersistEffect, DeleteEffect, RestoreEffect, EditEffect,
       SaveEffect DEF files
<1>2. CASE Ensure \/ Resolve
    <2>1. sidecar' \in {sidecar, Resolved(sidecar)}
        BY <1>2, ResolutionEffect
    <2>2. QED
        BY <1>0, <2>1, ResolvedIsClear
<1>3. CASE Unreserve \/ Release
    <2>1. fences = sidecar /\ job.kind = "add" /\ sidecar' \in {sidecar, Withdrawn}
        BY <1>3, WithdrawEffect DEF FilesGet
    <2>2. ~AnyPending(Withdrawn)
        BY <1>3, <2>1, WithdrawnIsClear DEF FenceFileInv, Unreserve, Release
    <2>3. QED
        BY <2>1, <2>2
<1>4. CASE Commit \/ Cancel \/ Complete
    <2>1. /\ fences = sidecar
          /\ \/ UNCHANGED sidecar
             \/ FilesGet(Cancelled(job.tag, job.id)) \/ FilesGet(Released(job.tag))
             \/ FilesGet(Committed(job.tag, job.id))
        BY <1>4, CommitEffect, CancelEffect, CompleteEffect
    <2>2. QED
        BY <1>0, <2>1, NothingWritten
<1>5. QED
    BY <1>1, <1>2, <1>3, <1>4, StepCases

(* Where the middle of an add and a recovery are entered from.              *)
LEMMA AuthorizedEntries ==
    ASSUME TypeOK, [Next]_vars, Embedded,
           job'.step \in CarryingSteps \cup RecoverySteps
    PROVE  \/ job' = job
           \/ job.step \in CarryingSteps \cup WorkSteps \cup RecoverySteps
           \/ Reserve
           \/ SetAuthorization /\ authorized'
           \/ StartXray /\ authorized
<1>0. job \in Job /\ job'.step \notin {"idle", "ensure", "reserve", "cancel", "inventory", "edit",
             "save", "deactivate", "editRuntime", "saveFirewall", "start", "stop", "authorize",
             "down"}
    BY AllSteps DEF TypeOK, RecoverySteps
<1>1. ~Finish
    BY <1>0, IdleDownFields DEF Finish
<1>2. ~Unreserve /\ ~Release /\ ~Authorize /\ ~StopXray /\ ~ReadInventory /\ ~Commit /\ ~Complete
    BY <1>1 DEF Unreserve, Release, Authorize, StopXray, ReadInventory, Commit, Complete
<1>3. ~Ensure
    <2>1. \A kind : FirstStep(kind) \in {"reserve", "cancel", "edit", "save", "inventory", "idle"}
        BY DEF FirstStep
    <2>2. Goto(FirstStep(job.kind)) => FALSE
        BY <1>0, <2>1, ContinueFields
    <2>3. QED
        BY <1>1, <2>2 DEF Ensure
<1>4. ~Cancel
    <2>1. job' = [job EXCEPT !.step = "deactivate", !.prev = config] => FALSE
        BY <1>0 DEF Job
    <2>2. QED
        BY <1>1, <2>1 DEF Cancel
<1>5. ~Edit /\ ~Save
    <2>1. \A step \in {"editRuntime", "saveFirewall"} :
              job' /= [job EXCEPT !.step = step, !.prev = config]
        BY <1>0 DEF Job
    <2>2. job' /= Idle
        BY <1>1 DEF Finish
    <2>3. \A good, step : step \in {"editRuntime", "saveFirewall"} =>
              job' /= (IF good THEN [job EXCEPT !.step = step, !.prev = config] ELSE Idle)
        BY <2>1, <2>2
    <2>4. Edit \/ Save => \E good \in BOOLEAN, step \in {"editRuntime", "saveFirewall"} :
              job' = (IF good THEN [job EXCEPT !.step = step, !.prev = config] ELSE Idle)
        <3>1. CASE Edit /\ ~Finish
            BY <3>1 DEF Edit
        <3>2. CASE Save
            BY <3>2 DEF Save
        <3>3. QED
            BY <1>1, <3>1, <3>2
    <2>5. QED
        BY <2>3, <2>4
<1>6. CASE Persist \/ Firewall \/ Activate \/ UndoConfig \/ UndoRuntime \/ UndoFirewall
    BY <1>6, AllSteps DEF Persist, Firewall, Activate, UndoConfig, UndoRuntime, UndoFirewall
<1>7. CASE Deactivate \/ Delete \/ ClearLimiter \/ EditRuntime \/ EditUndo \/ EditUndoRuntime
           \/ SaveFirewall \/ SaveUndo
    BY <1>7, AllSteps
    DEF Deactivate, Delete, ClearLimiter, EditRuntime, EditUndo, EditUndoRuntime, SaveFirewall,
        SaveUndo
<1>8. CASE Recover \/ Converge \/ OpenFirewall \/ Resolve
    BY <1>8 DEF Recover, Converge, OpenFirewall, Resolve, RecoverySteps
<1>9. CASE StartXray
    BY <1>0, <1>1, <1>9, ContinueFields DEF StartXray
<1>10. CASE Requests
    <2>1. ~Submit /\ ~SubmitStop /\ ~SubmitStart
        BY <1>0, RequestFields, TaskFields DEF Submit, SubmitStop, SubmitStart
    <2>2. SetAuthorization => authorized'
        <3>1. ASSUME NEW a \in BOOLEAN, authorized' = a,
                     Request("auth", AnyTag, NoId,
                             IF a /\ AnyPending(fences) THEN "recover" ELSE "authorize")
              PROVE  authorized'
            BY <1>0, <3>1, RequestFields
        <3>2. QED
            BY <3>1 DEF SetAuthorization
    <2>3. QED
        BY <1>10, <2>1, <2>2 DEF Requests
<1>11. CASE Boot \/ Environment
    BY <1>0, <1>11, TaskFields, IdleDownFields
    DEF Boot, Environment, CoreDies, OperatorStarts, Crash
<1>12. CASE UNCHANGED vars
    BY <1>12 DEF vars
<1>13. QED
    BY <1>2, <1>3, <1>4, <1>5, <1>6, <1>7, <1>8, <1>9, <1>10, <1>11, <1>12
    DEF Next, Progress

LEMMA AuthorizationMoves ==
    ASSUME [Next]_vars
    PROVE  UNCHANGED authorized \/ SetAuthorization
<1>1. CASE Progress
    BY <1>1
    DEF Progress, Ensure, Reserve, Unreserve, Persist, Firewall, Activate, Commit, Cancel,
        Deactivate, Delete, ClearLimiter, Complete, UndoConfig, UndoRuntime, UndoFirewall,
        Release, Recover, Converge, OpenFirewall, Resolve, Authorize, StartXray, StopXray,
        ReadInventory, Edit, EditRuntime, EditUndo, EditUndoRuntime, Save, SaveFirewall,
        SaveUndo
<1>2. CASE Requests \/ Environment \/ Boot \/ UNCHANGED vars
    BY <1>2
    DEF Requests, Submit, SubmitStart, SubmitStop, Environment, CoreDies, OperatorStarts,
        Crash, Boot, vars
<1>3. QED
    BY <1>1, <1>2 DEF Next

LEMMA AuthorizedNext ==
    ASSUME TypeOK, FenceFileInv, PendingIsDecidable, PendingIsAuthorized, Embedded,
           ~PowerLossToo, [Next]_vars
    PROVE  PendingIsAuthorized'
<1>1. UNCHANGED authorized \/ SetAuthorization
    BY AuthorizationMoves
<1>2. ASSUME job'.step \in CarryingSteps \cup RecoverySteps, AnyPending(sidecar')
      PROVE  authorized'
    <2>1. CASE SetAuthorization
        <3>1. job.step = "idle"
            BY <2>1, IdleDownFields DEF SetAuthorization, Request
        <3>2. job.step \notin CarryingSteps \cup WorkSteps \cup RecoverySteps
            BY <3>1, AllSteps DEF RecoverySteps
        <3>3. job' /= job /\ ~Reserve /\ ~StartXray
            BY <1>2, <3>1, <3>2 DEF Reserve, StartXray
        <3>4. QED
            BY <1>2, <3>2, <3>3, AuthorizedEntries
    <2>2. CASE UNCHANGED authorized
        <3>1. CASE Reserve
            <4>1. CASE Admitted(job.tag, job.id) /\ job.id /= NoId
                BY <2>2, <4>1 DEF Admitted
            <4>2. CASE UNCHANGED fenceFile
                <5>1. ~AnyPending(sidecar)
                    BY <3>1, ReserveEffect
                <5>2. QED
                    BY <1>2, <4>2, <5>1 DEF fenceFile
            <4>3. QED
                BY <3>1, <4>1, <4>2 DEF Reserve
        <3>2. CASE AnyPending(sidecar) /\ ~Reserve
            <4>1. job.step \notin WorkSteps
                BY <3>2 DEF PendingIsDecidable
            <4>2. CASE job.step \in CarryingSteps \cup RecoverySteps
                BY <2>2, <3>2, <4>2 DEF PendingIsAuthorized
            <4>3. QED
                BY <1>2, <2>2, <3>2, <4>1, <4>2, AuthorizedEntries
        <3>3. QED
            BY <1>2, <3>1, <3>2, PendingArises
    <2>3. QED
        BY <1>1, <2>1, <2>2
<1>3. QED
    BY <1>2 DEF PendingIsAuthorized

-----------------------------------------------------------------------------
(* When the runtime follows the configuration                               *)

PausedSteps == {"idle", "ensure", "start", "stop", "authorize", "recover", "converge", "down"}

LEMMA PausedStepsCarryNothing ==
    \A step \in PausedSteps :
        step \notin CarryingSteps \cup {"unreserve", "commit", "release", "openFirewall",
                                        "resolve", "undoFirewall"}
BY AllSteps DEF PausedSteps

LEMMA NotSettled ==
    ASSUME NEW t \in Tags, HasPending(sidecar', t),
           \/ job'.step \in {"persist", "firewall", "activate", "undoConfig", "undoRuntime"}
           \/ job'.step \in PausedSteps /\ ~ready'
    PROVE  ~Settled(t)'
<1>1. CASE job'.step \in {"persist", "firewall", "activate", "undoConfig", "undoRuntime"}
    BY <1>1, AllSteps DEF Settled
<1>2. CASE job'.step \in PausedSteps /\ ~ready'
    BY <1>2, PausedStepsCarryNothing DEF Settled
<1>3. QED
    BY <1>1, <1>2

LEMMA AfterRecoverySteps ==
    ASSUME job \in Job, NEW good, AfterRecovery(good)
    PROVE  job'.step \in {"recover", "authorize", "idle"}
BY ContinueFields, TaskFields, IdleDownFields DEF AfterRecovery, Grant, Finish

LEMMA RequestSteps ==
    ASSUME Requests
    PROVE  /\ job.step = "idle" /\ job'.step \in {"ensure", "recover", "authorize", "start", "stop"}
           /\ UNCHANGED <<fenceFile, configFile, xray, ready, removed>>
<1>1. CASE Submit
    <2>1. \E kind, t, m : Request(kind, t, m, "ensure")
        BY <1>1 DEF Submit
    <2>2. PICK kind, t, m : Request(kind, t, m, "ensure")
        BY <2>1
    <2>3. job = Idle /\ job'.step = "ensure"
        BY <2>2, RequestFields
    <2>4. QED
        BY <2>2, <2>3, IdleDownFields DEF Request
<1>2. CASE SetAuthorization
    <2>1. PICK a \in BOOLEAN :
              Request("auth", AnyTag, NoId, IF a /\ AnyPending(fences) THEN "recover" ELSE "authorize")
        BY <1>2 DEF SetAuthorization
    <2>2. QED
        BY <2>1, IdleDownFields, RequestFields DEF Request
<1>3. CASE SubmitStart
    BY <1>3, IdleDownFields, TaskFields DEF SubmitStart, history
<1>4. CASE SubmitStop
    BY <1>4, IdleDownFields, RequestFields DEF SubmitStop, Request
<1>5. QED
    BY <1>1, <1>2, <1>3, <1>4 DEF Requests

(* The three steps that make the runtime follow a pending mutation again,   *)
(* and the crash that takes the runtime away.                               *)
Follows(t) ==
    \/ Activate /\ t = job.tag /\ job'.step = "commit"
    \/ UndoRuntime /\ ~job'.uncertain
    \/ Converge /\ job'.step = "openFirewall"
    \/ Crash

LEMMA MutationFollows ==
    ASSUME TypeOK, FenceFileInv, PendingIsDecidable, NEW t \in Tags, Settled(t)', ~Settled(t),
           MutationQuiet
    PROVE  Follows(t)
<1>0. /\ job \in Job /\ HasPending(sidecar, t) /\ AnyPending(sidecar)
      /\ UNCHANGED <<sidecar, config>>
    BY QuietFiles DEF TypeOK, Settled, AnyPending, Quiet, files
<1>1. HasPending(sidecar', t)
    BY <1>0
<1>2. job.step \notin WorkSteps /\ (job.step \in CarryingSteps => CarriesOn)
    BY <1>0, PendingParts
<1>3. CASE Deactivate \/ ClearLimiter
    BY <1>2, <1>3, AllSteps DEF Deactivate, ClearLimiter
<1>4. CASE Firewall
    <2>1. job.step = "firewall" /\ job.kind = "add"
        BY <1>0, <1>2, <1>4, AllSteps DEF Firewall, CarriesOn
    <2>2. job'.step \in {"undoConfig", "activate"}
        BY <1>0, <1>4, <2>1, ContinueFields DEF Firewall
    <2>3. QED
        BY <1>1, <2>2, NotSettled
<1>5. CASE Activate
    <2>1. job.step = "activate" /\ job.kind = "add" /\ job.id /= NoId
        BY <1>0, <1>2, <1>5, AllSteps DEF Activate, CarriesOn
    <2>2. t = job.tag
        BY <1>0, <2>1 DEF FenceFileInv, AddHoldsReservation
    <2>3. job'.step \in {"undoConfig", "commit"}
        BY <1>0, <1>5, <2>1, ContinueFields DEF Activate
    <2>4. QED
        BY <1>1, <1>5, <2>2, <2>3, NotSettled DEF Follows
<1>6. CASE UndoRuntime
    <2>1. job'.step = "undoFirewall"
        <3>1. PICK good \in BOOLEAN : job' = [job EXCEPT !.step = "undoFirewall",
                                                          !.uncertain = @ \/ ~good]
            BY <1>6 DEF UndoRuntime
        <3>2. QED
            BY <1>0, <3>1 DEF Job
    <2>2. ~job'.uncertain
        BY <1>1, <2>1, AllSteps DEF Settled
    <2>3. QED
        BY <1>6, <2>2 DEF Follows
<1>7. CASE UndoFirewall
    <2>1. job.step = "undoFirewall" /\ job.kind = "add" /\ job.id /= NoId
        BY <1>0, <1>2, <1>7, AllSteps DEF UndoFirewall, CarriesOn
    <2>2. job.uncertain
        BY <2>1 DEF Settled
    <2>3. job'.step = "recover" /\ ~ready'
        <3>1. ASSUME NEW u, u, AfterUndo(u) PROVE job'.step = "recover" /\ ~ready'
            BY <1>0, <2>1, <3>1, ContinueFields DEF AfterUndo
        <3>2. \E u : u /\ AfterUndo(u)
            BY <1>7, <2>2 DEF UndoFirewall
        <3>3. QED
            BY <3>1, <3>2
    <2>4. QED
        BY <1>1, <2>3, NotSettled DEF PausedSteps
<1>8. QED
    BY <1>3, <1>4, <1>5, <1>6, <1>7 DEF MutationQuiet

LEMMA RestFollows ==
    ASSUME TypeOK, FenceFileInv, PendingIsDecidable, NEW t \in Tags, Settled(t)', ~Settled(t),
           RestQuiet \/ Requests \/ Boot \/ Ensure, Embedded
    PROVE  Follows(t)
<1>0. job \in Job /\ HasPending(sidecar, t) /\ AnyPending(sidecar)
      /\ (Up => fences = sidecar)
    BY DEF TypeOK, Settled, AnyPending, FenceFileInv, MemoryIsFile
<1>1. CASE ReadInventory
    BY <1>0, <1>1, PendingParts, AllSteps DEF ReadInventory
<1>2. CASE OpenFirewall
    BY <1>2 DEF OpenFirewall, Settled
<1>3. CASE Recover
    <2>1. fences = sidecar /\ UNCHANGED sidecar
        BY <1>0, <1>3 DEF Recover, Up, fenceFile
    <2>2. ~ready'
        BY <1>0, <1>3, <2>1 DEF Recover
    <2>3. job'.step \in PausedSteps
        BY <1>0, <1>3, <2>1, ContinueFields, AfterRecoverySteps DEF Recover, PausedSteps
    <2>4. QED
        BY <1>0, <2>1, <2>2, <2>3, NotSettled
<1>4. CASE Converge \/ Authorize \/ StartXray \/ StopXray
    <2>1. job.step \in PausedSteps /\ UNCHANGED <<sidecar, ready>>
        BY <1>4 DEF Converge, Authorize, StartXray, StopXray, fenceFile, PausedSteps
    <2>2. ~ready'
        BY <2>1, PausedStepsCarryNothing DEF Settled
    <2>3. job'.step \in {"recover", "authorize", "idle"} \/ (Converge /\ job'.step = "openFirewall")
        <3>1. CASE Converge
            BY <1>0, <3>1, ContinueFields, AfterRecoverySteps DEF Converge
        <3>2. CASE Authorize \/ StopXray
            BY <3>2, IdleDownFields DEF Authorize, StopXray, Finish
        <3>3. CASE StartXray
            BY <1>0, <3>3, ContinueFields, IdleDownFields DEF StartXray, Finish
        <3>4. QED
            BY <1>4, <3>1, <3>2, <3>3
    <2>4. QED
        BY <1>0, <2>1, <2>2, <2>3, NotSettled DEF PausedSteps, Follows
<1>5. CASE Requests
    <2>1. job'.step \in PausedSteps /\ job.step \in PausedSteps /\ UNCHANGED <<sidecar, ready>>
        BY <1>5, RequestSteps DEF PausedSteps, fenceFile
    <2>2. ~ready
        BY <2>1, PausedStepsCarryNothing DEF Settled
    <2>3. QED
        BY <1>0, <2>1, <2>2, NotSettled
<1>6. CASE Boot
    <2>1. job'.step = "start" /\ ~ready' /\ UNCHANGED sidecar
        BY <1>6, TaskFields DEF Boot
    <2>2. QED
        BY <1>0, <2>1, NotSettled DEF PausedSteps
<1>7. CASE Ensure
    <2>1. job.step \in PausedSteps /\ fences = sidecar /\ UNCHANGED ready
        BY <1>0, <1>7 DEF Ensure, PausedSteps, Up
    <2>2. ~ready
        BY <2>1, PausedStepsCarryNothing DEF Settled
    <2>3. Finish /\ UNCHANGED sidecar
        BY <1>0, <1>7, <2>1, <2>2 DEF Ensure, fenceFile
    <2>4. QED
        BY <1>0, <2>1, <2>2, <2>3, IdleDownFields, NotSettled DEF Finish, PausedSteps
<1>8. QED
    BY <1>1, <1>2, <1>3, <1>4, <1>5, <1>6, <1>7 DEF RestQuiet

LEMMA SettledMoves ==
    ASSUME TypeOK, FenceFileInv, PendingIsDecidable, Embedded, ~PowerLossToo, [Next]_vars,
           NEW t \in Tags, Settled(t)', ~Settled(t)
    PROVE  HasPending(sidecar, t) /\ Follows(t)
<1>0. HasPending(sidecar, t) /\ AnyPending(sidecar)
    BY DEF Settled, AnyPending
<1>1. CASE MutationQuiet
    BY <1>0, <1>1, MutationFollows
<1>2. CASE RestQuiet \/ Requests \/ Boot \/ Ensure
    BY <1>0, <1>2, RestFollows
<1>3. CASE WriterQuiet \/ Reserve \/ Cancel \/ Delete \/ Complete \/ EditUndo \/ SaveUndo
           \/ Edit \/ Save
    BY <1>0, <1>3, AllSteps
    DEF PendingIsDecidable, WriterQuiet, EditRuntime, EditUndoRuntime, SaveFirewall, Reserve,
        Cancel, Delete, Complete, EditUndo, SaveUndo, Edit, Save
<1>4. CASE Resolve \/ Unreserve \/ Release \/ Commit
    BY <1>4 DEF Settled, Resolve, Unreserve, Release, Commit
<1>5. CASE Persist \/ UndoConfig
    <2>1. UNCHANGED sidecar /\ job'.step \in {"firewall", "undoConfig", "undoRuntime"}
        <3>1. CASE Persist
            BY <3>1, PersistEffect
        <3>2. CASE UndoConfig
            BY <3>2 DEF UndoConfig, fenceFile, TypeOK, Job
        <3>3. QED
            BY <1>5, <3>1, <3>2
    <2>2. QED
        BY <1>0, <2>1, NotSettled
<1>6. CASE Crash
    BY <1>0, <1>6 DEF Follows
<1>7. CASE CoreDies \/ OperatorStarts
    BY <1>7 DEF CoreDies, OperatorStarts
<1>8. CASE UNCHANGED vars
    BY <1>8 DEF vars, fenceFile, Settled
<1>9. QED
    BY <1>1, <1>2, <1>3, <1>4, <1>5, <1>6, <1>7, <1>8, StepCases DEF Calm, Quiet

-----------------------------------------------------------------------------
(* What a step does to the runtime                                          *)

LEMMA LoadedIs ==
    ASSUME NEW i
    PROVE  Loaded(i) \in {i, NoInbound} /\ Loaded(i).body = i.body
BY DEF Loaded, NoInbound

LEMMA NoInboundIsNobodys == \A owner : IsOf(NoInbound, owner)
BY DEF IsOf, NoInbound

LEMMA RuntimeAddMoves ==
    ASSUME TypeOK, NEW t \in Tags, NEW i, NEW good, RuntimeAdd(t, i, good)
    PROVE  /\ UNCHANGED xrayUp
           /\ \A s \in Tags : s /= t => runtime'[s] = runtime[s]
           /\ runtime'[t] \in {runtime[t], NoInbound, i}
           /\ good => xrayUp /\ runtime'[t] = i
<1>0. runtime \in [Tags -> Inbound]
    BY DEF TypeOK
<1>1. UNCHANGED xrayUp
    BY DEF RuntimeAdd
<1>2. CASE good
    BY <1>0, <1>1, <1>2 DEF RuntimeAdd
<1>3. CASE ~good
    <2>1. CASE xrayUp
        <3>1. PICK now \in {runtime[t], NoInbound, i} : runtime' = [runtime EXCEPT ![t] = now]
            BY <1>3, <2>1 DEF RuntimeAdd
        <3>2. QED
            BY <1>0, <1>1, <1>3, <3>1
    <2>2. CASE ~xrayUp
        BY <1>1, <1>3, <2>2 DEF RuntimeAdd
    <2>3. QED
        BY <2>1, <2>2
<1>4. QED
    BY <1>2, <1>3

LEMMA ReplaceRuntimeMoves ==
    ASSUME TypeOK, NEW t \in Tags, NEW i, NEW good, ReplaceRuntime(t, i, good)
    PROVE  /\ UNCHANGED xrayUp
           /\ \A s \in Tags : s /= t => runtime'[s] = runtime[s]
           /\ runtime'[t] \in {runtime[t], NoInbound, i}
           /\ KeptFromRuntime(t) => UNCHANGED runtime
           /\ good /\ ~KeptFromRuntime(t) => xrayUp /\ runtime'[t] = i
<1>1. CASE KeptFromRuntime(t)
    BY <1>1 DEF ReplaceRuntime, xray
<1>2. CASE ~KeptFromRuntime(t)
    BY <1>2, RuntimeAddMoves DEF ReplaceRuntime
<1>3. QED
    BY <1>1, <1>2

LEMMA ActivateMoves ==
    ASSUME TypeOK, Activate
    PROVE  /\ UNCHANGED <<xrayUp, authorized, fences>> /\ job.step = "activate"
           /\ \A s \in Tags : s /= job.tag => runtime'[s] = runtime[s]
           /\ runtime'[job.tag] \in {runtime[job.tag], NoInbound, config[job.tag]}
           /\ job'.step = "commit" => xrayUp /\ runtime'[job.tag] = config[job.tag]
<1>0. job \in Job /\ job.tag \in Tags
    BY JobFields DEF TypeOK
<1>1. UNCHANGED <<authorized, fences>> /\ job.step = "activate"
    BY DEF Activate, fenceFile
<1>2. PICK good \in BOOLEAN :
        /\ RuntimeAdd(job.tag, config[job.tag], good)
        /\ IF ~good THEN Goto("undoConfig")
           ELSE IF job.id = NoId THEN Finish ELSE Goto("commit")
    BY DEF Activate
<1>3. job'.step = "commit" => good
    BY <1>0, <1>2, ContinueFields
<1>4. QED
    BY <1>0, <1>1, <1>2, <1>3, RuntimeAddMoves

LEMMA DeactivateMoves ==
    ASSUME TypeOK, Deactivate
    PROVE  /\ UNCHANGED <<xrayUp, authorized, fences>> /\ job.step = "deactivate"
           /\ \A s \in Tags : s /= job.tag => runtime'[s] = runtime[s]
           /\ runtime'[job.tag] \in {runtime[job.tag], NoInbound}
           /\ \/ job' = Idle
              \/ job'.step = "delete" /\ job'.tag = job.tag /\ runtime'[job.tag] = NoInbound
<1>0. job \in Job /\ job.tag \in Tags
    BY JobFields DEF TypeOK
<1>1. UNCHANGED <<authorized, fences>> /\ job.step = "deactivate"
    BY DEF Deactivate, fenceFile
<1>2. PICK good \in BOOLEAN :
        RuntimeAdd(job.tag, NoInbound, good) /\ (IF good THEN Goto("delete") ELSE Finish)
    BY DEF Deactivate, RuntimeRemove
<1>3. good => job'.step = "delete" /\ job'.tag = job.tag
    BY <1>0, <1>2, ContinueFields DEF Continues, SameRequest
<1>4. ~good => job' = Idle
    BY <1>2 DEF Finish
<1>5. QED
    BY <1>0, <1>1, <1>2, <1>3, <1>4, RuntimeAddMoves

LEMMA UndoRuntimeMoves ==
    ASSUME TypeOK, UndoRuntime, Embedded
    PROVE  LET old == job.prev[job.tag] IN
           /\ UNCHANGED <<xrayUp, authorized, fences>> /\ job.step = "undoRuntime"
           /\ job'.step = "undoFirewall" /\ job'.restored = job.restored
           /\ \A s \in Tags : s /= job.tag => runtime'[s] = runtime[s]
           /\ runtime'[job.tag] \in {runtime[job.tag], NoInbound, old}
           /\ KeptFromRuntime(job.tag) => runtime'[job.tag] \in {runtime[job.tag], NoInbound}
           /\ job.uncertain => job'.uncertain
           /\ ~job'.uncertain /\ ~KeptFromRuntime(job.tag) => runtime'[job.tag] = Loaded(old)
<1>0. job \in Job /\ job.tag \in Tags
    BY JobFields DEF TypeOK
<1>1. UNCHANGED <<authorized, fences>> /\ job.step = "undoRuntime"
    BY DEF UndoRuntime, fenceFile
<1>2. PICK good \in BOOLEAN :
        /\ RestoreRuntime(job.tag, job.prev[job.tag], good)
        /\ job' = [job EXCEPT !.step = "undoFirewall", !.uncertain = @ \/ ~good]
    BY DEF UndoRuntime
<1>3. /\ job'.step = "undoFirewall" /\ job'.restored = job.restored
      /\ job.uncertain => job'.uncertain
      /\ ~job'.uncertain => good
    BY <1>0, <1>2 DEF Job
<1>4. CASE job.prev[job.tag].body /= Absent
    <2>1. ReplaceRuntime(job.tag, job.prev[job.tag], good)
        BY <1>2, <1>4 DEF RestoreRuntime
    <2>2. Loaded(job.prev[job.tag]) = job.prev[job.tag]
        BY <1>4 DEF Loaded
    <2>3. /\ UNCHANGED xrayUp
          /\ \A s \in Tags : s /= job.tag => runtime'[s] = runtime[s]
          /\ runtime'[job.tag] \in {runtime[job.tag], NoInbound, job.prev[job.tag]}
          /\ KeptFromRuntime(job.tag) => UNCHANGED runtime
          /\ good /\ ~KeptFromRuntime(job.tag) => runtime'[job.tag] = job.prev[job.tag]
        BY <1>0, <2>1, ReplaceRuntimeMoves
    <2>4. QED
        BY <1>0, <1>1, <1>3, <2>2, <2>3
<1>5. CASE job.prev[job.tag].body = Absent
    <2>1. RuntimeAdd(job.tag, NoInbound, good) /\ Loaded(job.prev[job.tag]) = NoInbound
        BY <1>2, <1>5 DEF RestoreRuntime, Loaded
    <2>2. QED
        BY <1>0, <1>1, <1>3, <2>1, RuntimeAddMoves
<1>6. QED
    BY <1>4, <1>5

LEMMA ConvergeMoves ==
    ASSUME TypeOK, Converge
    PROVE  /\ UNCHANGED <<xrayUp, authorized, fences>> /\ job.step = "converge"
           /\ \A s \in Tags :
                 \/ runtime'[s] = runtime[s]
                 \/ /\ runtime'[s] = Loaded(config[s])
                    /\ KeptFromRuntime(s) => config[s].body = Absent
           /\ job'.step = "openFirewall" /\ authorized =>
                 \A s \in Tags : HasPending(fences, s) => runtime'[s] = Loaded(config[s])
<1>0. job \in Job
    BY DEF TypeOK
<1>1. UNCHANGED <<xrayUp, authorized, fences>> /\ job.step = "converge"
    BY DEF Converge, fenceFile
<1>2. \A D : \A s \in Tags :
        \/ Converged(D)[s] = runtime[s]
        \/ /\ Converged(D)[s] = Loaded(config[s])
           /\ KeptFromRuntime(s) => config[s].body = Absent
    BY DEF Converged
<1>3. \A good : AfterRecovery(good) => job'.step /= "openFirewall"
    BY <1>0, AfterRecoverySteps
<1>4. CASE runtime' = Converged({s \in Tags : HasPending(fences, s)})
    <2>1. authorized => \A s \in Tags : HasPending(fences, s) => runtime'[s] = Loaded(config[s])
        BY <1>4 DEF Converged, KeptFromRuntime
    <2>2. QED
        BY <1>1, <1>2, <1>4, <2>1
<1>5. CASE /\ \E D \in SUBSET {s \in Tags : HasPending(fences, s)} :
                  runtime' = IF xrayUp THEN Converged(D) ELSE runtime
           /\ AfterRecovery(FALSE)
    BY <1>1, <1>2, <1>3, <1>5
<1>6. QED
    BY <1>4, <1>5 DEF Converge

LEMMA AuthorizeMoves ==
    ASSUME Authorize
    PROVE  /\ UNCHANGED <<xrayUp, authorized, fences>> /\ job.step = "authorize" /\ job' = Idle
           /\ \A s \in Tags :
                 \/ runtime'[s] \in {runtime[s], NoInbound} /\ (authorized => runtime'[s] = runtime[s])
                 \/ runtime'[s] = Loaded(config[s]) /\ authorized /\ ~Serves(s)
<1>1. UNCHANGED <<xrayUp, authorized, fences>> /\ job.step = "authorize" /\ job' = Idle
    BY DEF Authorize, Finish, fenceFile
<1>2. \A failed : \A s \in Tags :
         \/ /\ AuthorizedRuntime(failed)[s] \in {runtime[s], NoInbound}
            /\ authorized => AuthorizedRuntime(failed)[s] = runtime[s]
         \/ AuthorizedRuntime(failed)[s] = Loaded(config[s]) /\ authorized /\ ~Serves(s)
    BY DEF AuthorizedRuntime
<1>3. UNCHANGED runtime \/ \E failed : runtime' = AuthorizedRuntime(failed)
    BY DEF Authorize
<1>4. QED
    BY <1>1, <1>2, <1>3

LEMMA EditRuntimeMoves ==
    ASSUME TypeOK, EditRuntime
    PROVE  /\ UNCHANGED <<xrayUp, authorized, fences>> /\ job.step = "editRuntime"
           /\ \A s \in Tags : s /= job.tag => runtime'[s] = runtime[s]
           /\ runtime'[job.tag] \in {runtime[job.tag], NoInbound, config[job.tag]}
           /\ KeptFromRuntime(job.tag) => UNCHANGED runtime
<1>0. job.tag \in Tags
    BY JobFields DEF TypeOK
<1>1. UNCHANGED <<authorized, fences>> /\ job.step = "editRuntime"
    BY DEF EditRuntime, fenceFile
<1>2. PICK good \in BOOLEAN : ReplaceRuntime(job.tag, config[job.tag], good)
    BY DEF EditRuntime
<1>3. QED
    BY <1>0, <1>1, <1>2, ReplaceRuntimeMoves

LEMMA EditUndoRuntimeMoves ==
    ASSUME TypeOK, EditUndoRuntime
    PROVE  /\ UNCHANGED <<xrayUp, authorized, fences>> /\ job.step = "editUndoRuntime"
           /\ \A s \in Tags : s /= job.tag => runtime'[s] = runtime[s]
           /\ runtime'[job.tag] \in {runtime[job.tag], NoInbound, job.prev[job.tag]}
           /\ KeptFromRuntime(job.tag) => UNCHANGED runtime
<1>0. job.tag \in Tags
    BY JobFields DEF TypeOK
<1>1. UNCHANGED <<authorized, fences>> /\ job.step = "editUndoRuntime"
    BY DEF EditUndoRuntime, fenceFile
<1>2. PICK good \in BOOLEAN : ReplaceRuntime(job.tag, job.prev[job.tag], good)
    BY DEF EditUndoRuntime
<1>3. QED
    BY <1>0, <1>1, <1>2, ReplaceRuntimeMoves

LEMMA StartXrayMoves ==
    ASSUME TypeOK, StartXray, Embedded
    PROVE  /\ UNCHANGED <<authorized, fences>> /\ job.step = "start"
           /\ \/ runtime' = NoConfig /\ ~xrayUp'
              \/ \A s \in Tags : \/ runtime'[s] = NoInbound
                                 \/ runtime'[s] = Loaded(config[s]) /\ ~KeptFromRuntime(s)
           /\ \/ ~xrayUp'
              \/ authorized /\ job'.step = "recover"
              \/ ~authorized /\ job'.step = "authorize"
<1>0. job \in Job
    BY DEF TypeOK
<1>1. UNCHANGED <<authorized, fences>> /\ job.step = "start"
    BY DEF StartXray, fenceFile
<1>2. PICK good \in BOOLEAN :
        /\ xrayUp' = good
        /\ runtime' = IF good THEN LoadedRuntime ELSE NoConfig
        /\ IF good \/ job.kind = "boot"
           THEN Goto(IF authorized THEN "recover" ELSE "authorize") ELSE Finish
    BY DEF StartXray
<1>3. CASE good
    <2>1. \A s \in Tags : \/ LoadedRuntime[s] = NoInbound
                          \/ LoadedRuntime[s] = Loaded(config[s]) /\ ~KeptFromRuntime(s)
        BY DEF LoadedRuntime
    <2>2. Goto(IF authorized THEN "recover" ELSE "authorize")
        BY <1>2, <1>3
    <2>3. \/ authorized /\ job'.step = "recover"
          \/ ~authorized /\ job'.step = "authorize"
        <3>1. CASE authorized
            BY <1>0, <2>2, <3>1, ContinueFields
        <3>2. CASE ~authorized
            BY <1>0, <2>2, <3>2, ContinueFields
        <3>3. QED
            BY <3>1, <3>2
    <2>4. QED
        BY <1>1, <1>2, <1>3, <2>1, <2>3
<1>4. CASE ~good
    BY <1>1, <1>2, <1>4
<1>5. QED
    BY <1>3, <1>4

LEMMA StopMoves ==
    ASSUME StopXray \/ Crash, Embedded, ~PowerLossToo
    PROVE  UNCHANGED <<authorized, fences>> /\ runtime' = NoConfig /\ ~xrayUp'
<1>1. CASE StopXray
    BY <1>1 DEF StopXray, fenceFile
<1>2. CASE Crash
    BY <1>2 DEF Crash, fenceFile
<1>3. QED
    BY <1>1, <1>2

RuntimeSteps ==
    Activate \/ Deactivate \/ UndoRuntime \/ Converge \/ Authorize \/ StartXray \/ StopXray
    \/ EditRuntime \/ EditUndoRuntime \/ Crash

LEMMA OthersKeepRuntime ==
    ASSUME Embedded, [Next]_vars, ~RuntimeSteps
    PROVE  UNCHANGED <<runtime, xrayUp>>
<1>1. CASE Progress
    BY <1>1
    DEF RuntimeSteps, Progress, Ensure, Reserve, Unreserve, Persist, Firewall, Commit, Cancel,
        Delete, ClearLimiter, Complete, UndoConfig, UndoFirewall, Release, Recover,
        OpenFirewall, Resolve, ReadInventory, Edit, EditUndo, Save, SaveFirewall, SaveUndo, xray
<1>2. CASE Requests
    BY <1>2, RequestSteps DEF xray
<1>3. CASE Environment \/ Boot \/ UNCHANGED vars
    BY <1>3 DEF RuntimeSteps, Environment, CoreDies, OperatorStarts, Boot, vars, xray
<1>4. QED
    BY <1>1, <1>2, <1>3 DEF Next

LEMMA RuntimeStepsKeepFiles ==
    ASSUME TypeOK, RuntimeSteps, ~PowerLossToo
    PROVE  UNCHANGED files /\ UNCHANGED <<authorized, removed>>
<1>1. CASE Crash
    BY <1>1, CrashEffect DEF Crash, history
<1>2. CASE Quiet
    BY <1>2, QuietFiles
    DEF RuntimeSteps, Activate, Deactivate, UndoRuntime, Converge, Authorize, StartXray,
        StopXray, EditRuntime, EditUndoRuntime, Crash, history
<1>3. QED
    BY <1>1, <1>2 DEF RuntimeSteps, Quiet, MutationQuiet, WriterQuiet, RestQuiet

(* What a tag serves after a step is what it served, what the configuration *)
(* holds, what an undo restores, or nothing.                                *)
LEMMA RuntimeMoves ==
    ASSUME TypeOK, Embedded, ~PowerLossToo, [Next]_vars, NEW t \in Tags
    PROVE  \/ runtime'[t] = runtime[t]
           \/ /\ RuntimeSteps
              /\ runtime'[t] \in {NoInbound, config[t], Loaded(config[t])}
           \/ /\ UndoRuntime \/ EditUndoRuntime
              /\ t = job.tag /\ runtime'[t] = job.prev[t]
<1>0. job.tag \in Tags /\ NoConfig[t] = NoInbound
    BY JobFields DEF TypeOK, NoConfig
<1>1. CASE ~RuntimeSteps
    BY <1>1, OthersKeepRuntime
<1>2. CASE Activate \/ Deactivate \/ Converge \/ EditRuntime
    BY <1>0, <1>2, ActivateMoves, DeactivateMoves, ConvergeMoves, EditRuntimeMoves
    DEF RuntimeSteps
<1>3. CASE Authorize \/ StartXray \/ StopXray \/ Crash
    BY <1>0, <1>3, AuthorizeMoves, StartXrayMoves, StopMoves DEF RuntimeSteps
<1>4. CASE UndoRuntime
    BY <1>0, <1>4, UndoRuntimeMoves DEF RuntimeSteps
<1>5. CASE EditUndoRuntime
    BY <1>0, <1>5, EditUndoRuntimeMoves DEF RuntimeSteps
<1>6. QED
    BY <1>1, <1>2, <1>3, <1>4, <1>5 DEF RuntimeSteps

-----------------------------------------------------------------------------
(* What is served is its owner's                                            *)

(* A tag whose pending mutation the runtime follows again serves what the   *)
(* configuration holds, unless the core is gone.                            *)
LEMMA FollowedRuntime ==
    ASSUME TypeOK, FenceFileInv, OwnerInv, PendingIsAuthorized, RuntimeIsOwners,
           Embedded, ~PowerLossToo, [Next]_vars,
           NEW t \in Tags, HasPending(sidecar, t), Follows(t)
    PROVE  \/ runtime'[t] \in {config[t], Loaded(config[t])}
           \/ ~xrayUp' /\ runtime'[t] = NoInbound
<1>0. /\ job \in Job /\ AnyPending(sidecar) /\ job.tag \in Tags /\ (Up => fences = sidecar)
      /\ job.step \in CarryingSteps \cup RecoverySteps => authorized
    BY JobFields
    DEF TypeOK, AnyPending, FenceFileInv, MemoryIsFile, PendingIsAuthorized
<1>1. CASE Activate /\ t = job.tag /\ job'.step = "commit"
    BY <1>1, ActivateMoves
<1>2. CASE UndoRuntime /\ ~job'.uncertain
    <2>1. job.step = "undoRuntime" /\ job.step \in CarryingSteps
        BY <1>2, AllSteps DEF UndoRuntime
    <2>2. job.kind = "add"
        BY <1>0, <2>1, PendingParts DEF OwnerInv, CarriesOn
    <2>3. t = job.tag
        BY <2>1, <2>2 DEF FenceFileInv, AddHoldsReservation, UndoSteps
    <2>4. ~job.uncertain
        BY <1>2, UndoRuntimeMoves
    <2>5. job.restored
        BY <2>1, <2>4 DEF RuntimeIsOwners
    <2>6. config = job.prev
        BY <2>1, <2>5, OwnersParts DEF OwnerInv, RestoredIsFound
    <2>7. ~KeptFromRuntime(t)
        BY <1>0, <2>1 DEF KeptFromRuntime
    <2>8. QED
        BY <1>2, <2>3, <2>6, <2>7, UndoRuntimeMoves
<1>3. CASE Converge /\ job'.step = "openFirewall"
    <2>1. job.step = "converge"
        BY <1>3 DEF Converge
    <2>2. authorized /\ fences = sidecar
        BY <1>0, <2>1 DEF RecoverySteps, Up
    <2>3. QED
        BY <1>3, <2>2, ConvergeMoves
<1>4. CASE Crash
    BY <1>4, StopMoves DEF NoConfig
<1>5. QED
    BY <1>1, <1>2, <1>3, <1>4 DEF Follows

LEMMA FollowsIsRuntimeStep == ASSUME NEW t, Follows(t) PROVE RuntimeSteps
BY DEF Follows, RuntimeSteps

LEMMA OwnedRuntimeNext ==
    ASSUME FenceKnown, ConfigIsOwners, PendingIsAuthorized, RuntimeIsOwners, DigestsTell,
           Embedded, ~PowerLossToo, [Next]_vars, NEW t \in Tags, Settled(t)'
    PROVE  IsOf(runtime'[t], Decided(t)')
<1>0. /\ TypeOK /\ FenceFileInv /\ OwnerInv /\ RemovedIsGone /\ PendingIsDecidable
      /\ job.tag \in Tags /\ job \in Job
    BY JobFields DEF TypeOK, FenceKnown, OwnerInv
<1>1. IsOf(config[t], Decided(t)) /\ IsOf(Loaded(config[t]), Decided(t))
      /\ IsOf(NoInbound, Decided(t)')
    BY LoadedIs, NoInboundIsNobodys DEF ConfigIsOwners
<1>2. RuntimeSteps => Decided(t)' = Decided(t)
    BY <1>0, RuntimeStepsKeepFiles, DecidedEntry DEF files
<1>3. CASE ~Settled(t)
    <2>1. HasPending(sidecar, t) /\ Follows(t) /\ RuntimeSteps
        BY <1>0, <1>3, SettledMoves, FollowsIsRuntimeStep
    <2>2. runtime'[t] \in {config[t], Loaded(config[t]), NoInbound}
        BY <1>0, <2>1, FollowedRuntime
    <2>3. QED
        BY <1>1, <1>2, <2>1, <2>2
<1>4. CASE Settled(t) /\ runtime'[t] = runtime[t]
    <2>0. IsOf(runtime[t], Decided(t))
        BY <1>4 DEF RuntimeIsOwners
    <2>1. CASE Complete /\ t = job.tag
        <3>1. runtime[t] = NoInbound
            BY <1>0, <2>1, CompleteEffect DEF RuntimeIsOwners
        <3>2. QED
            BY <1>1, <1>4, <3>1
    <2>2. ~(HasPending(sidecar', t) /\ job'.step \in {"firewall", "undoConfig", "undoRuntime"})
        BY NotSettled
    <2>3. QED
        BY <1>4, <2>0, <2>1, <2>2, DecidedMoves
<1>5. CASE Settled(t) /\ (UndoRuntime \/ EditUndoRuntime) /\ t = job.tag
           /\ runtime'[t] = job.prev[t]
    <2>0. job.step \in PrevSteps /\ RuntimeSteps
        BY <1>5, AllSteps DEF UndoRuntime, EditUndoRuntime, RuntimeSteps
    <2>1. IsOf(job.prev[t], sidecar[t].owner)
        BY <2>0 DEF ConfigIsOwners
    <2>2. CASE ~HasPending(sidecar, t)
        <3>1. Decided(t) = sidecar[t].owner
            BY <2>2, DecidedEntry, DecidesPlain DEF HasPending
        <3>2. QED
            BY <1>2, <1>5, <2>0, <2>1, <3>1
    <2>3. CASE HasPending(sidecar, t)
        <3>1. UndoRuntime
            BY <1>0, <1>5, <2>3, AllSteps DEF PendingIsDecidable, EditUndoRuntime, AnyPending
        <3>2. HasPending(sidecar', t)
            BY <1>0, <2>0, <2>3, RuntimeStepsKeepFiles DEF files
        <3>3. job'.step = "undoFirewall"
            BY <1>0, <3>1, UndoRuntimeMoves
        <3>4. ~job'.uncertain
            BY <3>2, <3>3, AllSteps DEF Settled
        <3>5. runtime'[t] \in {config[t], Loaded(config[t]), NoInbound}
            BY <1>0, <2>3, <3>1, <3>4, FollowedRuntime DEF Follows
        <3>6. QED
            BY <1>1, <1>2, <2>0, <3>5
    <2>4. QED
        BY <2>2, <2>3
<1>6. CASE RuntimeSteps /\ runtime'[t] \in {NoInbound, config[t], Loaded(config[t])}
    BY <1>1, <1>2, <1>6
<1>7. QED
    BY <1>0, <1>3, <1>4, <1>5, <1>6, RuntimeMoves

(* A remove goes from step to step with its tag out of service.             *)
RemoveServesNothing ==
    job.kind = "remove" /\ job.step \in {"delete", "firewall", "limiter", "complete"} =>
        runtime[job.tag] = NoInbound

LEMMA RemoveServesNothingNext ==
    ASSUME TypeOK, FenceFileInv, RemoveServesNothing, Embedded, ~PowerLossToo, [Next]_vars
    PROVE  RemoveServesNothing'
<1>0. job \in Job
    BY DEF TypeOK
<1>1. SUFFICES ASSUME job'.kind = "remove",
                      job'.step \in {"delete", "firewall", "limiter", "complete"}
               PROVE  runtime'[job'.tag] = NoInbound
    BY DEF RemoveServesNothing
<1>2. job'.step \in PrevSteps /\ job'.step \notin FreshSteps \cup RestSteps
    BY <1>1, AllSteps DEF RestSteps
<1>3. CASE Deactivate
    <2>1. job' /= Idle
        BY <1>2, IdleDownFields DEF RestSteps
    <2>2. QED
        BY <1>3, <2>1, DeactivateMoves
<1>4. CASE job' = job /\ ~RuntimeSteps
    BY <1>1, <1>4, OthersKeepRuntime DEF RemoveServesNothing
<1>5. CASE /\ job'.tag = job.tag /\ job'.kind = job.kind /\ ~RuntimeSteps
           /\ job.step \in {"delete", "firewall", "limiter"}
    BY <1>1, <1>5, OthersKeepRuntime DEF RemoveServesNothing
<1>6. \/ Deactivate
      \/ job' = job /\ ~RuntimeSteps
      \/ /\ job'.tag = job.tag /\ job'.kind = job.kind /\ ~RuntimeSteps
         /\ job.step \in {"delete", "firewall", "limiter"}
    <2>1. CASE Deactivate
        BY <2>1
    <2>2. CASE RuntimeSteps /\ ~Deactivate
        <3>1. CASE Crash
            BY <1>0, <1>2, <3>1, CrashEffect DEF RestSteps
        <3>2. CASE Quiet
            <4>1. GoesOn
                BY <1>2, <3>2, QuietMoves DEF Leaves
            <4>2. job.step \in {"deactivate", "firewall", "limiter"}
                BY <1>1, <4>1 DEF GoesOn, Edges
            <4>3. QED
                BY <2>2, <3>1, <4>2
                DEF RuntimeSteps, Activate, UndoRuntime, Converge, Authorize, StartXray, StopXray,
                    EditRuntime, EditUndoRuntime
        <3>3. QED
            BY <2>2, <3>1, <3>2 DEF RuntimeSteps, Quiet, MutationQuiet, WriterQuiet, RestQuiet
    <2>3. CASE ~RuntimeSteps
        <3>1. CASE Persist \/ Delete
            BY <1>1, <2>3, <3>1, PersistEffect, DeleteEffect DEF Continues, SameRequest
        <3>2. CASE Calm
            <4>1. job' = job \/ GoesOn
                BY <1>2, <3>2, CalmEffect
            <4>2. GoesOn => job.step \in {"deactivate", "firewall", "limiter"}
                            /\ job'.tag = job.tag /\ job'.kind = job.kind
                BY <1>1 DEF GoesOn, Edges, Continues, SameRequest
            <4>3. job.step = "deactivate" => Deactivate \/ job' = job
                BY <2>3, <3>2, IdleDownFields, RequestSteps
                DEF Calm, Quiet, MutationQuiet, WriterQuiet, RestQuiet, Firewall, ClearLimiter,
                    UndoFirewall, SaveFirewall, Recover, OpenFirewall, ReadInventory,
                    RuntimeSteps, Activate, UndoRuntime, Converge, Authorize, StartXray, StopXray,
                    EditRuntime, EditUndoRuntime, Boot, CoreDies, OperatorStarts, vars
            <4>4. QED
                BY <2>3, <4>1, <4>2, <4>3
        <3>3. CASE Ensure \/ Resolve
            BY <1>1, <1>2, <3>3, ResolutionEffect, AllSteps DEF Leaves
        <3>4. CASE Reserve \/ Unreserve \/ Release \/ Commit \/ Cancel \/ Complete \/ Edit \/ Save
            BY <1>1, <1>2, <3>4, ReserveEffect, WithdrawEffect, CommitEffect, CancelEffect,
               CompleteEffect, EditEffect, SaveEffect, AllSteps DEF Leaves
        <3>5. CASE UndoConfig \/ EditUndo \/ SaveUndo
            BY <1>1, <1>2, <3>5, RestoreEffect, AllSteps DEF Leaves
        <3>6. QED
            BY <3>1, <3>2, <3>3, <3>4, <3>5, StepCases
    <2>4. QED
        BY <2>1, <2>2, <2>3
<1>7. QED
    BY <1>3, <1>4, <1>5, <1>6

(* An undo knows whether it restored the configuration.                     *)
UndoIsTold == job.step \in {"undoRuntime", "undoFirewall"} => job.restored \/ job.uncertain

LEMMA UndoIsToldNext ==
    ASSUME TypeOK, FenceFileInv, UndoIsTold, Embedded, ~PowerLossToo, [Next]_vars
    PROVE  UndoIsTold'
<1>0. job \in Job
    BY DEF TypeOK
<1>1. SUFFICES ASSUME job'.step \in {"undoRuntime", "undoFirewall"}
               PROVE  job'.restored \/ job'.uncertain
    BY DEF UndoIsTold
<1>2. job'.step \in PrevSteps /\ job'.step \notin FreshSteps \cup RestSteps
    BY <1>1, AllSteps DEF RestSteps
<1>3. CASE UndoConfig
    <2>1. PICK o \in Outcomes :
            job' = [job EXCEPT !.step = "undoRuntime",
                               !.restored = (o = "ok"), !.uncertain = (o /= "ok")]
        BY <1>3 DEF UndoConfig
    <2>2. o = "ok" => job'.restored
        BY <1>0, <2>1 DEF Job
    <2>3. o /= "ok" => job'.uncertain
        BY <1>0, <2>1 DEF Job
    <2>4. QED
        BY <2>2, <2>3
<1>4. CASE UndoRuntime
    BY <1>4, UndoRuntimeMoves DEF UndoIsTold
<1>5. CASE job' = job
    BY <1>1, <1>5 DEF UndoIsTold
<1>6. CASE Calm /\ ~UndoRuntime
    <2>1. job' = job \/ GoesOn
        BY <1>2, <1>6, CalmEffect
    <2>2. GoesOn => job.step = "undoRuntime"
        BY <1>1 DEF GoesOn, Edges
    <2>3. job.step = "undoRuntime" => job' = job \/ Crash
        BY <1>6, IdleDownFields, RequestSteps
        DEF Calm, Quiet, MutationQuiet, WriterQuiet, RestQuiet, Firewall, ClearLimiter,
            UndoFirewall, SaveFirewall, Recover, OpenFirewall, ReadInventory,
            Activate, Deactivate, Converge, Authorize, StartXray, StopXray,
            EditRuntime, EditUndoRuntime, Boot, CoreDies, OperatorStarts, vars
    <2>4. ~Crash
        BY <1>0, <1>2, CrashEffect DEF RestSteps
    <2>5. QED
        BY <1>5, <2>1, <2>2, <2>3, <2>4
<1>7. CASE Ensure \/ Resolve
    BY <1>1, <1>2, <1>7, ResolutionEffect, AllSteps DEF Leaves
<1>8. CASE Reserve \/ Unreserve \/ Release \/ Commit \/ Cancel \/ Complete \/ Edit \/ Save
    BY <1>1, <1>2, <1>8, ReserveEffect, WithdrawEffect, CommitEffect, CancelEffect,
       CompleteEffect, EditEffect, SaveEffect, AllSteps DEF Leaves
<1>9. CASE Persist \/ Delete \/ EditUndo \/ SaveUndo
    <2>1. job'.step \notin {"undoRuntime", "undoFirewall"}
        <3>1. CASE Persist \/ Delete
            BY <3>1, PersistEffect, DeleteEffect
        <3>2. CASE EditUndo \/ SaveUndo
            BY <1>2, <3>2, RestoreEffect, AllSteps DEF Leaves, EditUndo, SaveUndo
        <3>3. QED
            BY <1>9, <3>1, <3>2
    <2>2. QED
        BY <1>1, <2>1
<1>10. QED
    BY <1>3, <1>4, <1>6, <1>7, <1>8, <1>9, StepCases

LEMMA RuntimeParts ==
    RuntimeIsOwners <=>
        /\ \A t \in Tags : Settled(t) => IsOf(runtime[t], Decided(t))
        /\ RemoveServesNothing /\ UndoIsTold
BY DEF RuntimeIsOwners, RemoveServesNothing, UndoIsTold

LEMMA RuntimeIsOwnersNext ==
    ASSUME FenceKnown, ConfigIsOwners, PendingIsAuthorized, RuntimeIsOwners, DigestsTell,
           Embedded, ~PowerLossToo, [Next]_vars
    PROVE  RuntimeIsOwners'
<1>1. \A t \in Tags : Settled(t)' => IsOf(runtime'[t], Decided(t)')
    BY OwnedRuntimeNext
<1>2. RemoveServesNothing' /\ UndoIsTold'
    BY RuntimeParts, RemoveServesNothingNext, UndoIsToldNext DEF FenceKnown
<1>3. QED
    BY <1>1, <1>2 DEF RuntimeIsOwners, RemoveServesNothing, UndoIsTold, IsOf

LEMMA RuntimeIsOwnersInit == ASSUME Init, Embedded PROVE RuntimeIsOwners
<1>1. job.step = "down" /\ job.kind = "none"
    BY IdleDownFields, IdleDownKind DEF Init
<1>2. \A t \in Tags : runtime[t] = NoInbound
    BY DEF Init
<1>3. QED
    BY <1>1, <1>2, NoInboundIsNobodys DEF RuntimeIsOwners

-----------------------------------------------------------------------------
(* What a resolution would publish is served                                *)

(* While a tag's next owner is decided, served and not yet published,       *)
(* neither the fence file nor the configuration moves.                      *)
LEMMA NextOwnerWaits ==
    ASSUME FenceKnown, ConfigIsOwners, DigestsTell, ~PowerLossToo, [Next]_vars,
           NEW t \in Tags, HasPending(sidecar', t), Decided(t)' /= sidecar'[t].owner,
           Settled(t)'
    PROVE  UNCHANGED <<sidecar, config>>
<1>0. /\ TypeOK /\ FenceFileInv /\ OwnerInv /\ RemovedIsGone /\ PendingIsDecidable
      /\ job.tag \in Tags /\ sidecar \in [Tags -> Fence] /\ AnyPending(sidecar')
    BY JobFields DEF TypeOK, FenceKnown, OwnerInv, AnyPending
<1>1. CASE Calm
    BY <1>0, <1>1, CalmEffect DEF files
<1>2. CASE Ensure \/ Resolve
    BY <1>0, <1>2, ResolutionEffect, ResolvedIsClear
<1>3. CASE Reserve
    <2>1. UNCHANGED config /\ ~AnyPending(sidecar)
          /\ (UNCHANGED sidecar \/ job'.step \in {"persist", "unreserve"})
        BY <1>0, <1>3, ReserveEffect
    <2>2. job'.step \in PrevSteps
        BY <1>0, <2>1, AllSteps
    <2>3. sidecar'[t].owner = sidecar[t].owner
        BY <1>0, <2>2, OwnerKept
    <2>4. Decided(t) = sidecar[t].owner
        BY <2>1, DecidedEntry, DecidesPlain DEF AnyPending, HasPending
    <2>5. ~Complete
        BY <1>3 DEF Reserve, Complete
    <2>6. job'.step \notin {"firewall", "undoConfig", "undoRuntime"}
        BY NotSettled
    <2>7. QED
        BY <2>3, <2>4, <2>5, <2>6, DecidedMoves
<1>4. CASE Unreserve \/ Release
    <2>1. UNCHANGED config /\ fences = sidecar /\ job.kind = "add"
          /\ sidecar' \in {sidecar, Withdrawn}
        BY <1>0, <1>4, WithdrawEffect DEF FilesGet
    <2>2. ~AnyPending(Withdrawn)
        BY <1>0, <1>4, <2>1, WithdrawnIsClear DEF FenceFileInv, Unreserve, Release
    <2>3. QED
        BY <1>0, <2>1, <2>2
<1>5. CASE Commit
    <2>1. /\ UNCHANGED config /\ fences = sidecar /\ job.kind = "add" /\ job.step = "commit"
          /\ sidecar' \in {sidecar, Committed(job.tag, job.id)}
        BY <1>0, <1>5, CommitEffect DEF FilesGet, Commit
    <2>2. CASE sidecar' = Committed(job.tag, job.id)
        <3>1. /\ \A s \in Tags : s /= job.tag => sidecar'[s] = sidecar[s]
              /\ sidecar'[job.tag].pending = NoPending
            BY <1>0, <2>1, <2>2, CommittedEntries
        <3>2. HasPending(sidecar, t) => t = job.tag
            BY <1>0, <2>1 DEF FenceFileInv, AddHoldsReservation
        <3>3. QED
            BY <3>1, <3>2 DEF HasPending
    <2>3. QED
        BY <2>1, <2>2
<1>6. CASE Persist \/ UndoConfig
    <2>1. job'.step \in {"firewall", "undoConfig", "undoRuntime"}
        <3>1. CASE Persist
            BY <1>0, <3>1, PersistEffect
        <3>2. CASE UndoConfig
            BY <1>0, <3>2 DEF UndoConfig, TypeOK, Job
        <3>3. QED
            BY <1>6, <3>1, <3>2
    <2>2. QED
        BY <2>1, NotSettled
<1>7. CASE Cancel \/ Complete \/ Delete \/ EditUndo \/ SaveUndo \/ Edit \/ Save
    <2>1. ~AnyPending(sidecar) /\ ~Reserve
        BY <1>0, <1>7, AllSteps
        DEF PendingIsDecidable, Cancel, Complete, Delete, EditUndo, SaveUndo, Edit, Save, Reserve
    <2>2. QED
        BY <1>0, <2>1, PendingArises
<1>8. QED
    BY <1>1, <1>2, <1>3, <1>4, <1>5, <1>6, <1>7, StepCases

LEMMA NextOwnerIsServedNext ==
    ASSUME FenceKnown, ConfigIsOwners, PendingIsAuthorized, RuntimeIsOwners, NextOwnerIsServed,
           DigestsTell, Embedded, ~PowerLossToo, [Next]_vars
    PROVE  NextOwnerIsServed'
<1>1. SUFFICES ASSUME NEW t \in Tags, HasPending(sidecar', t), Decided(t)' /= sidecar'[t].owner,
                      Settled(t)', job'.step /= "recover", xrayUp', authorized'
               PROVE  runtime'[t].body = config'[t].body
    BY DEF NextOwnerIsServed
<1>0. /\ TypeOK /\ FenceFileInv /\ OwnerInv /\ RemovedIsGone /\ PendingIsDecidable
      /\ job \in Job /\ (Up => fences = sidecar)
    BY DEF TypeOK, FenceKnown, OwnerInv, FenceFileInv, MemoryIsFile
<1>2. UNCHANGED <<sidecar, config>> /\ HasPending(sidecar, t) /\ AnyPending(sidecar)
      /\ Decided(t) /= sidecar[t].owner
    <2>1. UNCHANGED <<sidecar, config>>
        BY <1>1, NextOwnerWaits
    <2>2. Decided(t)' = Decided(t)
        BY <2>1, DecidedEntry
    <2>3. QED
        BY <1>1, <2>1, <2>2 DEF AnyPending
<1>3. authorized
    <2>1. CASE SetAuthorization
        <3>1. PICK a \in BOOLEAN :
                /\ authorized' = a
                /\ Request("auth", AnyTag, NoId,
                           IF a /\ AnyPending(fences) THEN "recover" ELSE "authorize")
            BY <2>1 DEF SetAuthorization
        <3>2. AnyPending(fences)
            BY <1>0, <1>2, <3>1, IdleDownFields DEF Request, Up
        <3>3. QED
            BY <1>1, <3>1, <3>2, RequestFields
    <2>2. QED
        BY <1>1, <2>1, AuthorizationMoves
<1>4. ~StartXray /\ ~StopXray /\ ~Crash
    BY <1>0, <1>1, <1>3, StartXrayMoves, StopMoves
<1>5. xrayUp
    <2>1. CASE RuntimeSteps
        BY <1>0, <1>1, <1>4, <2>1, ActivateMoves, DeactivateMoves, UndoRuntimeMoves, ConvergeMoves,
           AuthorizeMoves, EditRuntimeMoves, EditUndoRuntimeMoves DEF RuntimeSteps
    <2>2. QED
        BY <1>1, <2>1, OthersKeepRuntime
<1>6. job.step /= "recover"
    <2>1. CASE Recover
        <3>1. fences = sidecar
            BY <1>0, <2>1 DEF Recover, Up
        <3>2. ~ready'
            BY <1>2, <2>1, <3>1 DEF Recover
        <3>3. job'.step \in PausedSteps
            BY <1>0, <2>1, ContinueFields, AfterRecoverySteps DEF Recover, PausedSteps
        <3>4. QED
            BY <1>1, <3>2, <3>3, NotSettled
    <2>2. CASE ~Recover /\ job.step = "recover"
        <3>1. job' = job
            BY <1>4, <2>2, IdleDownFields, RequestSteps
            DEF Next, Progress, Ensure, Reserve, Unreserve, Persist, Firewall, Activate, Commit,
                Cancel, Deactivate, Delete, ClearLimiter, Complete, UndoConfig, UndoRuntime,
                UndoFirewall, Release, Converge, OpenFirewall, Resolve, Authorize, ReadInventory,
                Edit, EditRuntime, EditUndo, EditUndoRuntime, Save, SaveFirewall, SaveUndo,
                Environment, CoreDies, OperatorStarts, Boot, vars
        <3>2. QED
            BY <1>1, <2>2, <3>1
    <2>3. QED
        BY <2>1, <2>2
<1>7. CASE ~Settled(t)
    <2>1. Follows(t)
        BY <1>0, <1>1, <1>7, SettledMoves
    <2>2. runtime'[t] \in {config[t], Loaded(config[t])}
        BY <1>0, <1>1, <1>2, <2>1, FollowedRuntime
    <2>3. QED
        BY <1>2, <2>2, LoadedIs
<1>8. CASE Settled(t)
    <2>1. runtime[t].body = config[t].body
        BY <1>2, <1>3, <1>5, <1>6, <1>8 DEF NextOwnerIsServed
    <2>2. runtime'[t] \in {runtime[t], Loaded(config[t])}
        <3>1. CASE ~RuntimeSteps
            BY <3>1, OthersKeepRuntime
        <3>2. CASE Authorize \/ Converge
            BY <1>0, <1>3, <3>2, AuthorizeMoves, ConvergeMoves
        <3>3. CASE Deactivate \/ EditRuntime \/ EditUndoRuntime
            BY <1>0, <1>2, <3>3, AllSteps
            DEF PendingIsDecidable, Deactivate, EditRuntime, EditUndoRuntime
        <3>4. CASE Activate \/ UndoRuntime
            BY <1>2, <1>8, <3>4, AllSteps DEF Settled, Activate, UndoRuntime
        <3>5. QED
            BY <1>4, <3>1, <3>2, <3>3, <3>4 DEF RuntimeSteps
    <2>3. QED
        BY <1>2, <2>1, <2>2, LoadedIs
<1>9. QED
    BY <1>7, <1>8

LEMMA NextOwnerIsServedInit == ASSUME Init PROVE NextOwnerIsServed
<1>1. \A t \in Tags : ~HasPending(sidecar, t)
    BY NoFencePending DEF Init, HasPending
<1>2. QED
    BY <1>1 DEF NextOwnerIsServed

-----------------------------------------------------------------------------
(* The theorems about the runtime                                           *)

(* But for a boot, the memory copy moves only with the file.                *)
LEMMA FencesAreWritten ==
    ASSUME [Next]_vars, fences' /= fences, job /= Down
    PROVE  Up /\ \E candidate, outcome : PersistFences(candidate, outcome)
<1>1. CASE Ensure \/ Reserve \/ Unreserve \/ Commit
    BY <1>1 DEF Ensure, Reserve, Unreserve, Commit, Up, fenceFile
<1>2. CASE Cancel \/ Complete \/ Release \/ Resolve
    BY <1>2 DEF Cancel, Complete, Release, Resolve, Up, fenceFile
<1>3. ~Boot /\ ~Requests /\ ~Environment /\ ~UNCHANGED vars
    BY RequestSteps DEF Boot, Environment, CoreDies, OperatorStarts, Crash, vars, fenceFile
<1>4. QED
    BY <1>1, <1>2, <1>3
    DEF Next, Progress, Persist, Firewall, Activate, Deactivate, Delete, ClearLimiter, UndoConfig,
        UndoRuntime, UndoFirewall, Recover, Converge, OpenFirewall, Authorize, StartXray,
        StopXray, ReadInventory, Edit, EditRuntime, EditUndo, EditUndoRuntime, Save,
        SaveFirewall, SaveUndo, fenceFile

LEMMA ServedCorrect ==
    ASSUME Embedded, ~PowerLossToo, DigestsTell
    PROVE  Spec => [](FenceKnown /\ ConfigIsOwners /\ PendingIsAuthorized /\ RuntimeIsOwners
                      /\ NextOwnerIsServed)
<1>1. DefinitionsDiffer
    BY DEF DigestsTell
<1>2. Init => /\ FenceKnown /\ ConfigIsOwners /\ PendingIsAuthorized /\ RuntimeIsOwners
              /\ NextOwnerIsServed
    <2>1. ASSUME Init PROVE PendingIsAuthorized
        BY <2>1, NoFencePending DEF Init, PendingIsAuthorized, AnyPending, HasPending
    <2>2. Init => FenceKnown
        BY InitType, FenceFileInit, PendingInit, WritersInit, OwnersInit, RemovedInit
        DEF FenceKnown, OwnerInv
    <2>3. QED
        BY <2>1, <2>2, ConfigIsOwnersInit, RuntimeIsOwnersInit, NextOwnerIsServedInit
<1>3. FenceKnown /\ [Next]_vars => FenceKnown'
    <2>1. TypeOK /\ FenceFileInv /\ OwnerInv /\ [Next]_vars => OwnerInv'
        BY <1>1, PendingNext, WritersNext, OwnersNext DEF OwnerInv
    <2>2. TypeOK /\ FenceFileInv /\ OwnerInv /\ RemovedIsGone /\ [Next]_vars => RemovedIsGone'
        BY <1>1, RemovedNext
    <2>3. QED
        BY <2>1, <2>2, NextType, FenceFileNext DEF FenceKnown
<1>4. /\ FenceKnown /\ FenceKnown' /\ ConfigIsOwners /\ PendingIsAuthorized /\ RuntimeIsOwners
      /\ NextOwnerIsServed /\ [Next]_vars
      => ConfigIsOwners' /\ PendingIsAuthorized' /\ RuntimeIsOwners' /\ NextOwnerIsServed'
    <2>1. FenceKnown => TypeOK /\ FenceFileInv /\ PendingIsDecidable
        BY DEF FenceKnown, OwnerInv
    <2>2. QED
        BY <2>1, ConfigIsOwnersNext, AuthorizedNext, RuntimeIsOwnersNext, NextOwnerIsServedNext
<1>5. QED
    BY <1>2, <1>3, <1>4, PTL DEF Spec

LEMMA RemovedMoves ==
    ASSUME TypeOK, FenceFileInv, ~PowerLossToo, [Next]_vars,
           NEW t \in Tags, NEW m \in Ids, <<t, m>> \in removed', <<t, m>> \notin removed
    PROVE  /\ t = job.tag
           /\ \/ Complete /\ job.kind = "remove" /\ job.step = "complete"
              \/ Cancel /\ ~AnyPending(sidecar) /\ sidecar[t].owner \notin {NoId, m}
<1>1. CASE Calm \/ Ensure \/ Resolve \/ Reserve \/ Unreserve \/ Release \/ Persist \/ Commit
           \/ Delete \/ UndoConfig \/ EditUndo \/ SaveUndo \/ Edit \/ Save
    BY <1>1, CalmEffect, ResolutionEffect, ReserveEffect, WithdrawEffect, PersistEffect,
       CommitEffect, DeleteEffect, RestoreEffect, EditEffect, SaveEffect
<1>2. CASE Complete
    BY <1>2, CompleteEffect
<1>3. CASE Cancel
    BY <1>3, CancelEffect
<1>4. QED
    BY <1>1, <1>2, <1>3, StepCases

(* A remove that was acknowledged has taken its inbound out of service, and *)
(* nothing brings it back: no late add, no undo of a failed handler, no     *)
(* recovery, no restart of the core. (The core is the agent's own, what the *)
(* operator and client edits write cannot be taken for a mutation's, and no *)
(* power loss takes back the configuration alone.)                          *)
THEOREM RemovesEndService ==
    ASSUME Embedded, ~PowerLossToo, DefinitionsDiffer, OperatorDiffers
    PROVE  Spec => []RemovedNotServed
<1>1. DigestsTell
    BY DEF DigestsTell
<1>2. Init => RemovedNotServed
    BY DEF Init, RemovedNotServed
<1>3. ASSUME FenceKnown, ConfigIsOwners, RuntimeIsOwners, RemovedNotServed, [Next]_vars,
             NEW t \in Tags, NEW m \in Ids, <<t, m>> \in removed'
      PROVE  runtime'[t].by /= m
    <2>0. /\ TypeOK /\ FenceFileInv /\ OwnerInv /\ RemovedIsGone
          /\ NoInbound.by /= m /\ Loaded(config[t]) \in {config[t], NoInbound}
        BY <1>3, LoadedIs DEF FenceKnown, NoInbound
    <2>1. CASE <<t, m>> \in removed
        <3>1. Gone(t, m)
            BY <2>0, <2>1, GoneParts
        <3>2. runtime[t].by /= m /\ config[t].by /= m
            BY <1>3, <2>1, <3>1 DEF RemovedNotServed, Gone
        <3>3. UndoRuntime \/ EditUndoRuntime => job.prev[t].by /= m
            BY <3>1, AllSteps DEF Gone, UndoRuntime, EditUndoRuntime
        <3>4. QED
            BY <1>3, <2>0, <3>2, <3>3, RuntimeMoves
    <2>2. CASE <<t, m>> \notin removed
        <3>1. /\ t = job.tag
              /\ \/ Complete /\ job.kind = "remove" /\ job.step = "complete"
                 \/ Cancel /\ ~AnyPending(sidecar) /\ sidecar[t].owner \notin {NoId, m}
            BY <1>3, <2>0, <2>2, RemovedMoves
        <3>2. UNCHANGED runtime
            BY <3>1 DEF Complete, Cancel, xray
        <3>3. CASE job.kind = "remove" /\ job.step = "complete"
            <4>1. runtime[t] = NoInbound
                BY <1>3, <3>1, <3>3 DEF RuntimeIsOwners
            <4>2. QED
                BY <2>0, <3>2, <4>1
        <3>4. CASE ~AnyPending(sidecar) /\ sidecar[t].owner \notin {NoId, m}
            <4>1. Settled(t) /\ Decided(t) = sidecar[t].owner
                BY <3>4, DecidedEntry, DecidesPlain DEF AnyPending, HasPending, Settled
            <4>2. IsOf(runtime[t], sidecar[t].owner)
                BY <1>3, <4>1 DEF RuntimeIsOwners
            <4>3. QED
                BY <3>2, <3>4, <4>2 DEF IsOf
        <3>5. QED
            BY <3>1, <3>3, <3>4
    <2>3. QED
        BY <2>1, <2>2
<1>4. FenceKnown /\ ConfigIsOwners /\ RuntimeIsOwners /\ RemovedNotServed /\ [Next]_vars
        => RemovedNotServed'
    BY <1>3 DEF RemovedNotServed
<1>5. QED
    BY <1>1, <1>2, <1>4, ServedCorrect, PTL DEF Spec

(* No owner is published before an authorized running core serves what the  *)
(* owner stands for: not by an add, and not by the decision of one that a   *)
(* crash, a failed undo or an unsynchronised write left pending.            *)
THEOREM OwnersArePublishedServed ==
    ASSUME Embedded, ~PowerLossToo, DefinitionsDiffer, OperatorDiffers
    PROVE  Spec => OwnerPublishedWhenServed
<1>1. DigestsTell
    BY DEF DigestsTell
<1>2. ASSUME FenceKnown, AddIsWritten, NextOwnerIsServed, [Next]_vars, NEW t \in Tags,
             fences'[t].owner \notin {NoId, fences[t].owner}, job /= Down, xrayUp', authorized'
      PROVE  runtime'[t].body = config'[t].body
    <2>0. /\ TypeOK /\ FenceFileInv /\ OwnerInv /\ PendingIsDecidable /\ job.tag \in Tags
          /\ sidecar \in [Tags -> Fence]
        BY <1>2, JobFields DEF TypeOK, FenceKnown, OwnerInv
    <2>1. PICK candidate, outcome : PersistFences(candidate, outcome)
        BY <1>2, FencesAreWritten
    <2>2. fences' = sidecar' /\ fences = sidecar
        <3>1. fences = sidecar
            BY <1>2, <2>0, FencesAreWritten DEF FenceFileInv, MemoryIsFile
        <3>2. QED
            BY <2>1, <3>1 DEF PersistFences
    <2>3. /\ HasPending(sidecar, t) /\ AnyPending(sidecar)
          /\ sidecar'[t].owner = sidecar[t].pending.owner /\ sidecar'[t].owner /= sidecar[t].owner
        BY <1>2, <2>0, <2>2, EntryMoves DEF AnyPending
    <2>4. CASE Commit
        <3>1. /\ job.step = "commit" /\ job.kind = "add"
              /\ UNCHANGED <<config, runtime, xrayUp>>
            BY <2>0, <2>4, CommitEffect DEF Commit, xray
        <3>2. t = job.tag
            BY <2>0, <2>3, <3>1 DEF FenceFileInv, AddHoldsReservation
        <3>3. QED
            BY <1>2, <3>1, <3>2 DEF AddIsWritten
    <2>5. CASE Ensure \/ Resolve
        <3>1. /\ UNCHANGED <<config, runtime, xrayUp, authorized>> /\ job.step /= "recover"
              /\ AllResolvable(sidecar) /\ sidecar' = Resolved(sidecar)
            BY <2>0, <2>3, <2>5, ResolutionEffect DEF Ensure, Resolve, xray
        <3>2. Settled(t)
            <4>1. CASE Resolve
                BY <4>1 DEF Settled, Resolve
            <4>2. CASE Ensure
                <5>1. ready /\ job.step = "ensure"
                    BY <2>2, <2>3, <4>2 DEF Ensure, fenceFile
                <5>2. QED
                    BY <5>1, AllSteps DEF Settled
            <4>3. QED
                BY <2>5, <4>1, <4>2
        <3>3. Decided(t) = sidecar[t].pending.owner
            <4>1. sidecar'[t].owner = IF config[t].body = sidecar[t].pending.intended
                                      THEN sidecar[t].pending.owner
                                      ELSE sidecar[t].pending.prevOwner
                BY <2>0, <2>3, <3>1, ResolvedEntries DEF HasPending
            <4>2. sidecar[t].pending.prevOwner = sidecar[t].owner
                BY <2>3, <3>1 DEF AllResolvable, Resolvable
            <4>3. config[t].body = sidecar[t].pending.intended
                BY <2>3, <4>1, <4>2
            <4>4. QED
                BY <2>3, <4>3 DEF Decided, Intended
        <3>4. QED
            BY <1>2, <2>3, <3>1, <3>2, <3>3 DEF NextOwnerIsServed
    <2>6. ~(\/ Calm \/ Persist \/ Delete \/ UndoConfig \/ EditUndo \/ SaveUndo \/ Edit \/ Save
            \/ Reserve \/ Cancel \/ Complete)
        <3>1. CASE Calm \/ Persist \/ Delete \/ UndoConfig \/ EditUndo \/ SaveUndo \/ Edit \/ Save
            BY <2>0, <2>3, <3>1, CalmEffect, PersistEffect, DeleteEffect, RestoreEffect, EditEffect,
               SaveEffect DEF files
        <3>2. CASE Reserve \/ Cancel \/ Complete
            BY <2>0, <2>3, <3>2, AllSteps DEF PendingIsDecidable, Reserve, Cancel, Complete
        <3>3. QED
            BY <3>1, <3>2
    <2>7. CASE Unreserve \/ Release
        <3>1. job.kind = "add" /\ sidecar' \in {sidecar, Withdrawn}
            BY <2>0, <2>7, WithdrawEffect DEF FilesGet
        <3>2. Withdrawn[t].owner = sidecar[t].owner
            BY <2>0, <2>2, <2>7, <3>1, WithdrawnIsClear DEF FenceFileInv, Unreserve, Release
        <3>3. QED
            BY <2>3, <3>1, <3>2
    <2>8. QED
        BY <1>2, <2>4, <2>5, <2>6, <2>7, StepCases
<1>3. FenceKnown /\ AddIsWritten /\ NextOwnerIsServed /\ [Next]_vars =>
        [ \A t \in Tags :
            fences'[t].owner \notin {NoId, fences[t].owner} /\ job /= Down
            /\ xrayUp' /\ authorized' => runtime'[t].body = config'[t].body ]_vars
    BY <1>2
<1>4. Spec => [](FenceKnown /\ NextOwnerIsServed /\ AddIsWritten)
    BY <1>1, ServedCorrect, AddConfigCorrect, PTL DEF AddConfigInv
<1>5. QED
    BY <1>3, <1>4, PTL DEF Spec, OwnerPublishedWhenServed

(* While it is suspended the server never serves a managed inbound that it  *)
(* did not serve before: no add, edit, undo, recovery or start of the core  *)
(* puts one back.                                                           *)
THEOREM SuspendedStayOut ==
    ASSUME Embedded, ~PowerLossToo
    PROVE  Spec => NoResurrection
<1>1. ASSUME TypeOK, FenceFileInv, PendingIsDecidable, PendingIsAuthorized, [Next]_vars,
             ~authorized', NEW t \in Tags, Managed(fences', t), ~Serves(t)
      PROVE  runtime'[t].body = Absent
    <2>0. /\ job.tag \in Tags /\ runtime[t].body = Absent /\ NoInbound.body = Absent
          /\ NoConfig[t] = NoInbound
        BY <1>1, JobFields DEF TypeOK, Serves, NoInbound, NoConfig
    <2>1. CASE ~RuntimeSteps
        BY <2>0, <2>1, <1>1, OthersKeepRuntime
    <2>2. CASE RuntimeSteps
        <3>1. /\ ~authorized /\ UNCHANGED fences /\ job.step /= "down"
              /\ fences = sidecar
            <4>1. ~authorized
                BY <1>1, <2>2, RuntimeStepsKeepFiles
            <4>2. UNCHANGED fences /\ job.step /= "down"
                BY <2>2
                DEF RuntimeSteps, Activate, Deactivate, UndoRuntime, Converge, Authorize, StartXray,
                    StopXray, EditRuntime, EditUndoRuntime, Crash, fenceFile
            <4>3. QED
                BY <1>1, <4>1, <4>2 DEF FenceFileInv, MemoryIsFile, Up
        <3>2. KeptFromRuntime(t) /\ Managed(sidecar, t)
            BY <1>1, <3>1 DEF KeptFromRuntime
        <3>3. CASE Activate
            <4>1. job.step = "activate" /\ job.kind = "add" /\ job.step \in CarryingSteps
                BY <1>1, <3>3, AllSteps DEF Activate, FenceFileInv, StepsOfKind
            <4>2. ~AnyPending(sidecar)
                BY <1>1, <3>1, <4>1 DEF PendingIsAuthorized
            <4>3. job.id = NoId /\ sidecar[job.tag].owner = NoId
                <5>1. CarriesOn
                    BY <1>1, <4>1, PendingParts
                <5>2. job.id \in Ids => HasPending(sidecar, job.tag) \/ ~CarriesOn
                    BY <4>1, NoFencePending DEF CarriesOn, HasPending
                <5>3. QED
                    BY <1>1, <2>0, <4>1, <4>2, <5>1, <5>2, JobFields
                    DEF CarriesOn, AnyPending, TypeOK
            <4>4. t /= job.tag
                BY <2>0, <3>2, <4>2, <4>3 DEF Managed, AnyPending
            <4>5. QED
                BY <1>1, <2>0, <3>3, <4>4, ActivateMoves
        <3>4. CASE UndoRuntime
            BY <1>1, <2>0, <3>2, <3>4, UndoRuntimeMoves
        <3>5. CASE Converge
            BY <1>1, <2>0, <3>2, <3>5, ConvergeMoves, LoadedIs
        <3>6. CASE Deactivate \/ EditRuntime \/ EditUndoRuntime
            BY <1>1, <2>0, <3>2, <3>6, DeactivateMoves, EditRuntimeMoves, EditUndoRuntimeMoves
        <3>7. CASE Authorize
            BY <2>0, <3>1, <3>7, AuthorizeMoves
        <3>8. CASE StartXray
            BY <1>1, <2>0, <3>2, <3>8, StartXrayMoves
        <3>9. CASE StopXray \/ Crash
            BY <2>0, <3>9, StopMoves
        <3>10. QED
            BY <2>2, <3>3, <3>4, <3>5, <3>6, <3>7, <3>8, <3>9 DEF RuntimeSteps
    <2>3. QED
        BY <2>1, <2>2
<1>2. TypeOK /\ FenceFileInv /\ PendingIsDecidable /\ PendingIsAuthorized /\ [Next]_vars =>
        [ ~authorized' /\ job' /= job /\ (job.step = "start" => Embedded) =>
            \A t \in Tags : Managed(fences', t) /\ ~Serves(t)
                              => runtime'[t].body = Absent ]_vars
    BY <1>1
<1>3. Init => PendingIsDecidable /\ PendingIsAuthorized
    <2>1. ASSUME Init PROVE PendingIsAuthorized
        BY <2>1, NoFencePending DEF Init, PendingIsAuthorized, AnyPending, HasPending
    <2>2. QED
        BY <2>1, PendingInit
<1>4. /\ TypeOK /\ FenceFileInv /\ PendingIsDecidable /\ PendingIsAuthorized /\ [Next]_vars
      => PendingIsDecidable' /\ PendingIsAuthorized'
    BY PendingNext, AuthorizedNext
<1>5. QED
    BY <1>2, <1>3, <1>4, InitType, NextType, FenceFileInit, FenceFileNext, PTL
    DEF Spec, NoResurrection

=============================================================================
