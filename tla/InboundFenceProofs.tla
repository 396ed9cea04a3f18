------------------------- MODULE InboundFenceProofs -------------------------
(***************************************************************************)
(* InboundFence, for every value of its constants: type correctness, the   *)
(* invariants of the fence file, and the ledger it implements.             *)
(***************************************************************************)
EXTENDS InboundFenceProps, TLAPS

USE ConstantsAssumption

Budget == [requests: Nat, faults: Nat, crashes: Nat]

-----------------------------------------------------------------------------
(* Type correctness *)

(* The records the actions store are of the types they should be.           *)
LEMMA NullTypes ==
    /\ NoPending \in Pending /\ NoFence \in Fence
    /\ NoInbound \in Inbound /\ NoConfig \in [Tags -> Inbound]
BY DEF NoPending, Pending, NoFence, Fence, NoInbound, Inbound, NoConfig, Writers

LEMMA TaskType ==
    ASSUME NEW kind \in JobKinds, NEW t \in Tags, NEW m \in Ids \cup {NoId},
           NEW step \in Steps
    PROVE  Task(kind, t, m, step) \in Job
BY NullTypes DEF Task, Job

LEMMA IdleDownType == AnyTag \in Tags /\ Idle \in Job /\ Down \in Job
<1>1. AnyTag \in Tags
    BY DEF AnyTag
<1>2. QED
    BY <1>1, TaskType DEF Idle, Down, JobKinds, Steps

LEMMA GotoType ==
    ASSUME job \in Job, NEW step \in Steps, Goto(step)
    PROVE  job' \in Job
BY DEF Goto, Job

LEMMA FinishType == ASSUME Finish PROVE job' \in Job
BY IdleDownType DEF Finish

LEMMA BlameType ==
    ASSUME budget \in Budget, NEW good, Blame(good)
    PROVE  budget' \in Budget
BY DEF Budget, Blame

LEMMA PersistFencesType ==
    ASSUME TypeOK, NEW candidate \in [Tags -> Fence], NEW outcome,
           PersistFences(candidate, outcome)
    PROVE  /\ sidecar' \in [Tags -> Fence] /\ sidecarSynced' \in [Tags -> Fence]
           /\ fences' \in [Tags -> Fence] /\ budget' \in Budget
<1>1. budget' \in Budget
    BY BlameType DEF PersistFences, TypeOK, Budget
<1>2. QED
    BY <1>1 DEF PersistFences, TypeOK

LEMMA WriteConfigType ==
    ASSUME TypeOK, NEW candidate \in [Tags -> Inbound], NEW outcome,
           WriteConfig(candidate, outcome)
    PROVE  /\ config' \in [Tags -> Inbound] /\ configSynced' \in [Tags -> Inbound]
           /\ firewallSynced' \in BOOLEAN /\ budget' \in Budget
<1>1. budget' \in Budget
    BY BlameType DEF WriteConfig, TypeOK, Budget
<1>2. QED
    BY <1>1 DEF WriteConfig, TypeOK

LEMMA WriteConfigUnsyncedType ==
    ASSUME TypeOK, NEW candidate \in [Tags -> Inbound], NEW good,
           WriteConfigUnsynced(candidate, good)
    PROVE  /\ config' \in [Tags -> Inbound] /\ configSynced' \in [Tags -> Inbound]
           /\ firewallSynced' \in BOOLEAN /\ budget' \in Budget
<1>1. budget' \in Budget
    BY BlameType DEF WriteConfigUnsynced, TypeOK, Budget
<1>2. QED
    BY <1>1 DEF WriteConfigUnsynced, TypeOK

LEMMA ReconcileFirewallType ==
    ASSUME TypeOK, NEW good \in BOOLEAN, ReconcileFirewall(good)
    PROVE  /\ config' \in [Tags -> Inbound] /\ configSynced' \in [Tags -> Inbound]
           /\ firewallSynced' \in BOOLEAN /\ budget' \in Budget
<1>1. budget' \in Budget
    BY BlameType DEF ReconcileFirewall, TypeOK, Budget
<1>2. QED
    BY <1>1 DEF ReconcileFirewall, TypeOK

LEMMA RuntimeAddType ==
    ASSUME TypeOK, NEW t \in Tags, NEW inbound \in Inbound, NEW good \in BOOLEAN,
           RuntimeAdd(t, inbound, good)
    PROVE  /\ runtime' \in [Tags -> Inbound] /\ xrayUp' \in BOOLEAN
           /\ budget' \in Budget
<1>1. budget' \in Budget
    BY BlameType DEF RuntimeAdd, TypeOK, Budget
<1>2. runtime \in [Tags -> Inbound] /\ runtime[t] \in Inbound
    BY DEF TypeOK
<1>3. PICK now \in Inbound : runtime' = [runtime EXCEPT ![t] = now]
                           \/ runtime' = runtime
    <2>1. CASE good
        BY <2>1 DEF RuntimeAdd
    <2>2. CASE ~good /\ xrayUp
        BY <2>2, <1>2, NullTypes DEF RuntimeAdd
    <2>3. CASE ~good /\ ~xrayUp
        BY <2>3, <1>2 DEF RuntimeAdd
    <2>4. QED
        BY <2>1, <2>2, <2>3
<1>4. runtime' \in [Tags -> Inbound]
    BY <1>2, <1>3
<1>5. QED
    BY <1>1, <1>4 DEF RuntimeAdd, TypeOK

LEMMA ReplaceRuntimeType ==
    ASSUME TypeOK, NEW t \in Tags, NEW inbound \in Inbound, NEW good \in BOOLEAN,
           ReplaceRuntime(t, inbound, good)
    PROVE  /\ runtime' \in [Tags -> Inbound] /\ xrayUp' \in BOOLEAN
           /\ budget' \in Budget
<1>1. CASE KeptFromRuntime(t)
    BY <1>1 DEF ReplaceRuntime, TypeOK, xray, Budget
<1>2. CASE ~KeptFromRuntime(t)
    BY <1>2, RuntimeAddType DEF ReplaceRuntime
<1>3. QED
    BY <1>1, <1>2

LEMMA LoadedType == ASSUME NEW i \in Inbound PROVE Loaded(i) \in Inbound
BY NullTypes DEF Loaded

LEMMA ResolvedType ==
    ASSUME NEW f \in [Tags -> Fence]
    PROVE  Resolved(f) \in [Tags -> Fence]
<1>1. ASSUME NEW t \in Tags PROVE ResolvedEntry(f, t) \in Fence
    <2>1. f[t] \in Fence
        OBVIOUS
    <2>2. CASE ~HasPending(f, t)
        BY <2>1, <2>2 DEF ResolvedEntry
    <2>3. CASE HasPending(f, t)
        <3>1. f[t].pending.owner \in Ids \cup {NoId}
              /\ f[t].pending.prevOwner \in Ids \cup {NoId}
            BY <2>1 DEF Fence, Pending
        <3>2. PICK o \in Ids \cup {NoId} :
                ResolvedEntry(f, t) = [f[t] EXCEPT !.pending = NoPending, !.owner = o]
            BY <2>3, <3>1 DEF ResolvedEntry
        <3>3. QED
            BY <2>1, <3>2, NullTypes DEF Fence
    <2>4. QED
        BY <2>2, <2>3
<1>2. QED
    BY <1>1 DEF Resolved


LEMMA FileEntryTypes ==
    ASSUME TypeOK, NEW t \in Tags, NEW m \in Ids \cup {NoId}
    PROVE  /\ fences[t] \in Fence
           /\ config[t] \in Inbound
           /\ Reserved(t, m) \in [Tags -> Fence]
           /\ Committed(t, m) \in [Tags -> Fence]
           /\ m \in Ids => Cancelled(t, m) \in [Tags -> Fence]
           /\ Released(t) \in [Tags -> Fence]
<1>1. fences[t] \in Fence /\ config[t] \in Inbound
    BY DEF TypeOK
<1>2. fences[t].owner \in Ids \cup {NoId} /\ config[t].body \in Bodies \cup {Absent}
      /\ Payload[m] \in Bodies \cup {Absent}
    BY <1>1 DEF Fence, Inbound
<1>3. Reserved(t, m) \in [Tags -> Fence]
    <2>1. [owner |-> m, intended |-> Payload[m],
           prevOwner |-> fences[t].owner, prevBody |-> config[t].body] \in Pending
        BY <1>2 DEF Pending
    <2>2. QED
        BY <1>1, <2>1 DEF Reserved, Fence, TypeOK
<1>4. Committed(t, m) \in [Tags -> Fence]
    BY <1>1, NullTypes DEF Committed, Fence, TypeOK
<1>5. m \in Ids => Cancelled(t, m) \in [Tags -> Fence]
    BY <1>1 DEF Cancelled, Fence, TypeOK
<1>6. Released(t) \in [Tags -> Fence]
    BY <1>1 DEF Released, Fence, TypeOK
<1>7. QED
    BY <1>1, <1>3, <1>4, <1>5, <1>6

LEMMA WithdrawnType == ASSUME TypeOK PROVE Withdrawn \in [Tags -> Fence]
BY DEF TypeOK, Withdrawn, Job

LEMMA JobFields ==
    ASSUME job \in Job
    PROVE  /\ job.tag \in Tags /\ job.id \in Ids \cup {NoId} /\ job.kind \in JobKinds
           /\ job.prev \in [Tags -> Inbound] /\ job.saved \in Fence
           /\ job.prev[job.tag] \in Inbound
BY DEF Job

(* The steps of an add. *)
LEMMA AddStepsType ==
    ASSUME TypeOK,
           Reserve \/ Unreserve \/ Persist \/ Firewall \/ Activate \/ Commit
    PROVE  TypeOK'
<1>0. job \in Job /\ budget \in Budget
    BY DEF TypeOK, Budget
<1>1. CASE Reserve
    <2> DEFINE t == job.tag
               m == job.id
               begun == [job EXCEPT !.prev = config, !.saved = fences[t]]
    <2>1. t \in Tags /\ m \in Ids \cup {NoId} /\ fences[t] \in Fence
          /\ Reserved(t, m) \in [Tags -> Fence]
        BY <1>0, JobFields, FileEntryTypes
    <2>2. \A s \in Steps : [begun EXCEPT !.step = s] \in Job
        BY <1>0, <2>1 DEF Job, TypeOK
    <2>3. job' \in Job
        BY <1>1, <2>2, FinishType DEF Reserve, Steps
    <2>4. /\ sidecar' \in [Tags -> Fence] /\ sidecarSynced' \in [Tags -> Fence]
          /\ fences' \in [Tags -> Fence] /\ budget' \in Budget
        <3>1. CASE UNCHANGED <<fenceFile, budget>>
            BY <3>1 DEF TypeOK, fenceFile, Budget
        <3>2. CASE \E o \in Outcomes : PersistFences(Reserved(t, m), o)
            BY <3>2, <2>1, PersistFencesType
        <3>3. QED
            BY <1>1, <3>1, <3>2 DEF Reserve
    <2>5. QED
        BY <1>1, <2>3, <2>4
        DEF Reserve, TypeOK, Budget, configFile, xray, history
<1>2. CASE Unreserve
    <2>1. job' \in Job
        BY <1>2, FinishType DEF Unreserve
    <2>2. /\ sidecar' \in [Tags -> Fence] /\ sidecarSynced' \in [Tags -> Fence]
          /\ fences' \in [Tags -> Fence] /\ budget' \in Budget
        BY <1>2, WithdrawnType, PersistFencesType DEF Unreserve
    <2>3. QED
        BY <1>2, <2>1, <2>2
        DEF Unreserve, TypeOK, Budget, configFile, xray, history
<1>3. CASE Persist
    <2>1. [config EXCEPT ![job.tag] = [by |-> job.id, body |-> Payload[job.id]]]
            \in [Tags -> Inbound]
        BY <1>0, JobFields DEF TypeOK, Inbound, Writers
    <2>2. job' \in Job
        BY <1>0, <1>3, GotoType DEF Persist, Steps
    <2>3. /\ config' \in [Tags -> Inbound] /\ configSynced' \in [Tags -> Inbound]
          /\ firewallSynced' \in BOOLEAN /\ budget' \in Budget
        BY <1>3, <2>1, WriteConfigType DEF Persist
    <2>4. QED
        BY <1>3, <2>2, <2>3
        DEF Persist, TypeOK, Budget, fenceFile, xray, history
<1>4. CASE Firewall
    <2>1. job' \in Job
        BY <1>0, <1>4, GotoType DEF Firewall, Steps
    <2>2. /\ config' \in [Tags -> Inbound] /\ configSynced' \in [Tags -> Inbound]
          /\ firewallSynced' \in BOOLEAN /\ budget' \in Budget
        BY <1>4, ReconcileFirewallType DEF Firewall
    <2>3. QED
        BY <1>4, <2>1, <2>2
        DEF Firewall, TypeOK, Budget, fenceFile, xray, history
<1>5. CASE Activate
    <2>1. job' \in Job
        BY <1>0, <1>5, GotoType, FinishType DEF Activate, Steps
    <2>2. runtime' \in [Tags -> Inbound] /\ xrayUp' \in BOOLEAN /\ budget' \in Budget
        BY <1>0, <1>5, JobFields, FileEntryTypes, RuntimeAddType DEF Activate
    <2>3. QED
        BY <1>5, <2>1, <2>2
        DEF Activate, TypeOK, Budget, fenceFile, configFile, history
<1>6. CASE Commit
    <2>1. job' \in Job
        BY <1>6, FinishType DEF Commit
    <2>2. job.tag \in Tags /\ job.id \in Ids \cup {NoId}
          /\ Committed(job.tag, job.id) \in [Tags -> Fence]
        BY <1>0, JobFields, FileEntryTypes
    <2>3. /\ sidecar' \in [Tags -> Fence] /\ sidecarSynced' \in [Tags -> Fence]
          /\ fences' \in [Tags -> Fence] /\ budget' \in Budget
        <3>1. CASE UNCHANGED <<fenceFile, budget>>
            BY <3>1 DEF TypeOK, fenceFile, Budget
        <3>2. CASE \E o \in Outcomes : PersistFences(Committed(job.tag, job.id), o)
            BY <3>2, <2>2, PersistFencesType
        <3>3. QED
            BY <1>6, <3>1, <3>2 DEF Commit
    <2>4. added' \in [Tags -> Ids \cup {NoId}]
        BY <1>6, <2>2 DEF Commit, TypeOK
    <2>5. QED
        BY <1>6, <2>1, <2>3, <2>4
        DEF Commit, TypeOK, Budget, configFile, xray
<1>7. QED
    BY <1>1, <1>2, <1>3, <1>4, <1>5, <1>6


(* The steps of a remove. *)
LEMMA RemoveStepsType ==
    ASSUME TypeOK, Cancel \/ Deactivate \/ Delete \/ ClearLimiter \/ Complete
    PROVE  TypeOK'
<1>0. job \in Job /\ budget \in Budget /\ job.tag \in Tags
      /\ job.id \in Ids \cup {NoId}
    BY JobFields DEF TypeOK, Budget
<1>1. CASE Cancel
    <2>1. [job EXCEPT !.step = "deactivate", !.prev = config] \in Job
        BY <1>0 DEF TypeOK, Job, Steps
    <2>2. job' \in Job
        BY <1>1, <2>1, FinishType DEF Cancel
    <2>3. /\ sidecar' \in [Tags -> Fence] /\ sidecarSynced' \in [Tags -> Fence]
          /\ fences' \in [Tags -> Fence] /\ budget' \in Budget
        <3>1. CASE UNCHANGED <<fenceFile, budget>>
            BY <3>1 DEF TypeOK, fenceFile, Budget
        <3>2. CASE job.id \in Ids /\ \E o \in Outcomes :
                        PersistFences(Cancelled(job.tag, job.id), o)
            <4>1. Cancelled(job.tag, job.id) \in [Tags -> Fence]
                BY <3>2, <1>0, FileEntryTypes
            <4>2. QED
                BY <3>2, <4>1, PersistFencesType
        <3>3. QED
            BY <1>0, <1>1, <3>1, <3>2 DEF Cancel
    <2>4. removed' \subseteq Tags \X Ids
        BY <1>0, <1>1 DEF Cancel, TypeOK
    <2>5. QED
        BY <1>1, <2>2, <2>3, <2>4
        DEF Cancel, TypeOK, Budget, configFile, xray
<1>2. CASE Deactivate
    <2>1. job' \in Job
        BY <1>0, <1>2, GotoType, FinishType DEF Deactivate, Steps
    <2>2. runtime' \in [Tags -> Inbound] /\ xrayUp' \in BOOLEAN /\ budget' \in Budget
        BY <1>0, <1>2, NullTypes, RuntimeAddType DEF Deactivate, RuntimeRemove
    <2>3. QED
        BY <1>2, <2>1, <2>2
        DEF Deactivate, TypeOK, Budget, fenceFile, configFile, history
<1>3. CASE Delete
    <2>1. job' \in Job
        BY <1>0, <1>3, GotoType DEF Delete, Steps
    <2>2. [config EXCEPT ![job.tag] = NoInbound] \in [Tags -> Inbound]
        BY NullTypes DEF TypeOK
    <2>3. /\ config' \in [Tags -> Inbound] /\ configSynced' \in [Tags -> Inbound]
          /\ firewallSynced' \in BOOLEAN /\ budget' \in Budget
        BY <1>3, <2>2, WriteConfigType DEF Delete
    <2>4. QED
        BY <1>3, <2>1, <2>3 DEF Delete, TypeOK, Budget, fenceFile, xray, history
<1>4. CASE ClearLimiter
    <2>1. job' \in Job /\ budget' \in Budget
        BY <1>0, <1>4, GotoType, BlameType DEF ClearLimiter, Steps
    <2>2. QED
        BY <1>4, <2>1
        DEF ClearLimiter, TypeOK, Budget, fenceFile, configFile, xray, history
<1>5. CASE Complete
    <2>1. job' \in Job
        BY <1>5, FinishType DEF Complete
    <2>2. /\ sidecar' \in [Tags -> Fence] /\ sidecarSynced' \in [Tags -> Fence]
          /\ fences' \in [Tags -> Fence] /\ budget' \in Budget
        <3>1. CASE UNCHANGED <<fenceFile, budget>>
            BY <3>1 DEF TypeOK, fenceFile, Budget
        <3>2. CASE \E o \in Outcomes : PersistFences(Released(job.tag), o)
            BY <3>2, <1>0, FileEntryTypes, PersistFencesType
        <3>3. QED
            BY <1>5, <3>1, <3>2 DEF Complete
    <2>3. removed' \subseteq Tags \X Ids
        BY <1>0, <1>5 DEF Complete, TypeOK
    <2>4. QED
        BY <1>5, <2>1, <2>2, <2>3
        DEF Complete, TypeOK, Budget, configFile, xray
<1>6. QED
    BY <1>1, <1>2, <1>3, <1>4, <1>5

(* Where an undo or a recovery goes next. *)
LEMMA AfterUndoType ==
    ASSUME TypeOK, NEW uncertain, AfterUndo(uncertain)
    PROVE  job' \in Job /\ ready' \in BOOLEAN
<1>1. job \in Job
    BY DEF TypeOK
<1>2. QED
    BY <1>1, GotoType, FinishType DEF AfterUndo, Steps, TypeOK

LEMMA AfterRecoveryType ==
    ASSUME job \in Job, NEW good, AfterRecovery(good)
    PROVE  job' \in Job
<1>1. Grant \in Job
    BY TaskType, IdleDownType DEF Grant, JobKinds, Steps
<1>2. QED
    BY <1>1, GotoType, FinishType DEF AfterRecovery, Steps

(* The steps of an undo. *)
LEMMA UndoStepsType ==
    ASSUME TypeOK, UndoConfig \/ UndoRuntime \/ UndoFirewall \/ Release
    PROVE  TypeOK'
<1>0. job \in Job /\ budget \in Budget /\ job.tag \in Tags
      /\ job.prev \in [Tags -> Inbound] /\ job.prev[job.tag] \in Inbound
    BY JobFields DEF TypeOK, Budget
<1>1. CASE UndoConfig
    <2>0. PICK ok \in BOOLEAN :
            job' = [job EXCEPT !.step = "undoRuntime",
                               !.restored = ok, !.uncertain = ~ok]
        <3>1. PICK o \in Outcomes :
                job' = [job EXCEPT !.step = "undoRuntime",
                                   !.restored = (o = "ok"), !.uncertain = (o /= "ok")]
            BY <1>1 DEF UndoConfig
        <3>2. CASE o = "ok"
            BY <3>1, <3>2
        <3>3. CASE o /= "ok"
            BY <3>1, <3>3
        <3>4. QED
            BY <3>2, <3>3
    <2>1. job' \in Job
        BY <1>0, <2>0 DEF Job, Steps
    <2>2. /\ config' \in [Tags -> Inbound] /\ configSynced' \in [Tags -> Inbound]
          /\ firewallSynced' \in BOOLEAN /\ budget' \in Budget
        BY <1>0, <1>1, WriteConfigType DEF UndoConfig
    <2>3. QED
        BY <1>1, <2>1, <2>2 DEF UndoConfig, TypeOK, Budget, fenceFile, xray, history
<1>2. CASE UndoRuntime
    <2>1. PICK good \in BOOLEAN :
            /\ RestoreRuntime(job.tag, job.prev[job.tag], good)
            /\ job' = [job EXCEPT !.step = "undoFirewall",
                                  !.uncertain = @ \/ ~good]
        BY <1>2 DEF UndoRuntime
    <2>2. job' \in Job
        BY <1>0, <2>1 DEF Job, Steps
    <2>3. runtime' \in [Tags -> Inbound] /\ xrayUp' \in BOOLEAN /\ budget' \in Budget
        BY <1>0, <2>1, LoadedType, RuntimeAddType, ReplaceRuntimeType DEF RestoreRuntime
    <2>4. QED
        BY <1>2, <2>2, <2>3
        DEF UndoRuntime, TypeOK, Budget, fenceFile, configFile, history
<1>3. CASE UndoFirewall
    <2>1. job' \in Job /\ ready' \in BOOLEAN
        BY <1>3, AfterUndoType DEF UndoFirewall
    <2>2. /\ config' \in [Tags -> Inbound] /\ configSynced' \in [Tags -> Inbound]
          /\ firewallSynced' \in BOOLEAN /\ budget' \in Budget
        <3>1. CASE UNCHANGED <<configFile, budget>>
            BY <3>1 DEF TypeOK, configFile, Budget
        <3>2. CASE \E good \in BOOLEAN : ReconcileFirewall(good)
            BY <3>2, ReconcileFirewallType
        <3>3. QED
            BY <1>3, <3>1, <3>2 DEF UndoFirewall
    <2>3. QED
        BY <1>3, <2>1, <2>2
        DEF UndoFirewall, TypeOK, Budget, fenceFile, xray, history
<1>4. CASE Release
    <2>1. job' \in Job
        BY <1>4, FinishType DEF Release
    <2>2. /\ sidecar' \in [Tags -> Fence] /\ sidecarSynced' \in [Tags -> Fence]
          /\ fences' \in [Tags -> Fence] /\ budget' \in Budget
        BY <1>4, WithdrawnType, PersistFencesType DEF Release
    <2>3. QED
        BY <1>4, <2>1, <2>2
        DEF Release, TypeOK, Budget, configFile, xray, history
<1>5. QED
    BY <1>1, <1>2, <1>3, <1>4

(* The steps of a recovery, and the ensure step every handler starts with.  *)
LEMMA RecoveryStepsType ==
    ASSUME TypeOK, Ensure \/ Recover \/ Converge \/ OpenFirewall \/ Resolve
    PROVE  TypeOK'
<1>0. job \in Job /\ budget \in Budget
    BY DEF TypeOK, Budget
<1>r. Resolved(fences) \in [Tags -> Fence]
    BY ResolvedType DEF TypeOK
<1>1. CASE Ensure
    <2>1. FirstStep(job.kind) \in Steps
        BY DEF FirstStep, Steps
    <2>2. job' \in Job
        BY <1>0, <1>1, <2>1, GotoType, FinishType DEF Ensure
    <2>3. /\ sidecar' \in [Tags -> Fence] /\ sidecarSynced' \in [Tags -> Fence]
          /\ fences' \in [Tags -> Fence] /\ budget' \in Budget
        <3>1. CASE UNCHANGED <<fenceFile, budget>>
            BY <3>1 DEF TypeOK, fenceFile, Budget
        <3>2. CASE \E o \in Outcomes : PersistFences(Resolved(fences), o)
            BY <3>2, <1>r, PersistFencesType
        <3>3. QED
            BY <1>1, <3>1, <3>2 DEF Ensure
    <2>4. QED
        BY <1>1, <2>2, <2>3 DEF Ensure, TypeOK, Budget, configFile, xray, history
<1>2. CASE Recover
    <2>1. job' \in Job
        BY <1>0, <1>2, GotoType, AfterRecoveryType DEF Recover, Steps
    <2>2. QED
        BY <1>2, <2>1
        DEF Recover, TypeOK, Budget, fenceFile, configFile, xray, history
<1>3. CASE Converge
    <2>1. job' \in Job
        BY <1>0, <1>3, GotoType, AfterRecoveryType DEF Converge, Steps
    <2>2. ASSUME NEW tags PROVE Converged(tags) \in [Tags -> Inbound]
        <3>1. \A t \in Tags : Loaded(config[t]) \in Inbound /\ runtime[t] \in Inbound
            BY LoadedType DEF TypeOK
        <3>2. QED
            BY <3>1 DEF Converged
    <2>3. runtime' \in [Tags -> Inbound]
        <3>1. runtime \in [Tags -> Inbound]
            BY DEF TypeOK
        <3>2. runtime' = runtime \/ \E tags : runtime' = Converged(tags)
            BY <1>3 DEF Converge
        <3>3. QED
            BY <3>1, <3>2, <2>2
    <2>4. budget' \in Budget
        BY <1>0, <1>3, BlameType DEF Converge
    <2>5. QED
        BY <1>3, <2>1, <2>3, <2>4
        DEF Converge, TypeOK, Budget, fenceFile, configFile, history
<1>4. CASE OpenFirewall
    <2>1. job' \in Job /\ ready' \in BOOLEAN
        BY <1>0, <1>4, GotoType, AfterRecoveryType DEF OpenFirewall, Steps, TypeOK
    <2>2. /\ config' \in [Tags -> Inbound] /\ configSynced' \in [Tags -> Inbound]
          /\ firewallSynced' \in BOOLEAN /\ budget' \in Budget
        BY <1>4, ReconcileFirewallType DEF OpenFirewall
    <2>3. QED
        BY <1>4, <2>1, <2>2 DEF OpenFirewall, TypeOK, Budget, fenceFile, xray, history
<1>5. CASE Resolve
    <2>1. job' \in Job
        BY <1>0, <1>5, AfterRecoveryType DEF Resolve
    <2>2. /\ sidecar' \in [Tags -> Fence] /\ sidecarSynced' \in [Tags -> Fence]
          /\ fences' \in [Tags -> Fence] /\ budget' \in Budget
        <3>1. CASE UNCHANGED <<fenceFile, budget>>
            BY <3>1 DEF TypeOK, fenceFile, Budget
        <3>2. CASE \E o \in Outcomes : PersistFences(Resolved(fences), o)
            BY <3>2, <1>r, PersistFencesType
        <3>3. QED
            BY <1>5, <3>1, <3>2 DEF Resolve
    <2>3. QED
        BY <1>5, <2>1, <2>2 DEF Resolve, TypeOK, Budget, configFile, xray, history
<1>6. QED
    BY <1>1, <1>2, <1>3, <1>4, <1>5


(* Authorization and the life of the core. *)
LEMMA XrayStepsType ==
    ASSUME TypeOK,
           Authorize \/ StartXray \/ StopXray \/ CoreDies \/ OperatorStarts
    PROVE  TypeOK'
<1>0. job \in Job /\ budget \in Budget /\ runtime \in [Tags -> Inbound]
      /\ \A t \in Tags : Loaded(config[t]) \in Inbound
    BY LoadedType DEF TypeOK, Budget
<1>1. CASE Authorize
    <2>1. \A failed : AuthorizedRuntime(failed) \in [Tags -> Inbound]
        <3>1. ASSUME NEW failed PROVE AuthorizedRuntime(failed) \in [Tags -> Inbound]
            BY <1>0, NullTypes DEF AuthorizedRuntime
        <3>2. QED
            BY <3>1
    <2>2. runtime' = runtime \/ \E failed : runtime' = AuthorizedRuntime(failed)
        BY <1>1 DEF Authorize
    <2>3. runtime' \in [Tags -> Inbound]
        BY <1>0, <2>1, <2>2
    <2>4. budget' \in Budget
        BY <1>0, <1>1, BlameType DEF Authorize
    <2>5. job' \in Job
        BY <1>1, FinishType DEF Authorize
    <2>6. QED
        BY <1>1, <2>3, <2>4, <2>5
        DEF Authorize, TypeOK, Budget, fenceFile, configFile, history
<1>2. CASE StartXray
    <2>1. LoadedRuntime \in [Tags -> Inbound]
        BY <1>0, NullTypes DEF LoadedRuntime
    <2>2. runtime' \in [Tags -> Inbound] /\ xrayUp' \in BOOLEAN
        BY <1>0, <1>2, <2>1, NullTypes DEF StartXray, xray, TypeOK
    <2>3. job' \in Job
        BY <1>0, <1>2, GotoType, FinishType DEF StartXray, Steps
    <2>4. budget' \in Budget
        BY <1>0, <1>2, BlameType DEF StartXray
    <2>5. QED
        BY <1>2, <2>2, <2>3, <2>4
        DEF StartXray, TypeOK, Budget, fenceFile, configFile
<1>3. CASE StopXray
    BY <1>3, NullTypes, FinishType
    DEF StopXray, TypeOK, fenceFile, configFile, history
<1>4. CASE CoreDies
    <2>1. budget' \in Budget
        BY <1>0, <1>4 DEF CoreDies, Budget
    <2>2. QED
        BY <1>4, <2>1, NullTypes
        DEF CoreDies, TypeOK, Budget, fenceFile, configFile, history
<1>5. CASE OperatorStarts
    BY <1>5, <1>0 DEF OperatorStarts, TypeOK, fenceFile, configFile
<1>6. QED
    BY <1>1, <1>2, <1>3, <1>4, <1>5

(* The other writers of the configuration, and the inventory. *)
LEMMA WriterStepsType ==
    ASSUME TypeOK,
           \/ ReadInventory \/ Edit \/ EditRuntime \/ EditUndo \/ EditUndoRuntime
           \/ Save \/ SaveFirewall \/ SaveUndo
    PROVE  TypeOK'
<1>0. job \in Job /\ budget \in Budget /\ job.tag \in Tags
      /\ job.prev \in [Tags -> Inbound] /\ config \in [Tags -> Inbound]
    BY JobFields DEF TypeOK, Budget
<1>1. CASE ReadInventory
    <2>1. \A t \in Tags : fences[t].owner \in Ids \cup {NoId}
                          /\ config[t].body \in Bodies \cup {Absent}
        BY DEF TypeOK, Fence, Inbound
    <2>2. seen' \in [Tags -> [owner: Ids \cup {NoId}, body: Bodies \cup {Absent}]]
        BY <1>1, <2>1 DEF ReadInventory
    <2>3. job' \in Job
        BY <1>1, FinishType DEF ReadInventory
    <2>4. QED
        BY <1>1, <2>2, <2>3 DEF ReadInventory, TypeOK, fenceFile, configFile, xray
<1>2. CASE Edit
    <2>1. job' \in Job
        <3>1. [job EXCEPT !.step = "editRuntime", !.prev = config] \in Job
            BY <1>0 DEF Job, Steps
        <3>2. QED
            BY <1>2, <3>1, FinishType, IdleDownType DEF Edit
    <2>2. /\ config' \in [Tags -> Inbound] /\ configSynced' \in [Tags -> Inbound]
          /\ firewallSynced' \in BOOLEAN /\ budget' \in Budget
        <3>1. CASE UNCHANGED <<configFile, budget>>
            BY <3>1 DEF TypeOK, configFile, Budget
        <3>2. ASSUME NEW good \in BOOLEAN,
                     NEW b \in EditBodies \cup {config[job.tag].body},
                     WriteConfigUnsynced([config EXCEPT ![job.tag].body = b], good)
              PROVE  /\ config' \in [Tags -> Inbound]
                     /\ configSynced' \in [Tags -> Inbound]
                     /\ firewallSynced' \in BOOLEAN /\ budget' \in Budget
            <4>1. config \in [Tags -> Inbound] /\ config[job.tag] \in Inbound
                BY <1>0 DEF TypeOK
            <4>2. [config[job.tag] EXCEPT !.body = b] \in Inbound
                BY <4>1 DEF Inbound
            <4>3. [config EXCEPT ![job.tag].body = b] \in [Tags -> Inbound]
                BY <1>0, <4>1, <4>2
            <4>4. QED
                BY <3>2, <4>3, WriteConfigUnsyncedType
        <3>3. QED
            BY <1>2, <3>1, <3>2 DEF Edit
    <2>3. QED
        BY <1>2, <2>1, <2>2 DEF Edit, TypeOK, Budget, fenceFile, xray, history
<1>3. CASE EditRuntime
    <2>1. runtime' \in [Tags -> Inbound] /\ xrayUp' \in BOOLEAN /\ budget' \in Budget
        BY <1>0, <1>3, ReplaceRuntimeType DEF EditRuntime
    <2>2. job' \in Job /\ deferred' \subseteq Tags
        BY <1>0, <1>3, GotoType, FinishType DEF EditRuntime, Steps, TypeOK
    <2>3. QED
        BY <1>3, <2>1, <2>2 DEF EditRuntime, TypeOK, Budget, fenceFile, configFile
<1>4. CASE Save
    <2>1. PICK good \in BOOLEAN, new \in [Tags -> UNION {SavedInbounds(t) : t \in Tags}] :
            /\ \A t \in Tags : new[t] \in SavedInbounds(t)
            /\ WriteConfigUnsynced(new, good)
            /\ job' = IF good THEN [job EXCEPT !.step = "saveFirewall", !.prev = config]
                              ELSE Idle
        BY <1>4 DEF Save
    <2>2. \A t \in Tags : SavedInbounds(t) \subseteq Inbound
        BY <1>0 DEF SavedInbounds, Inbound, Writers
    <2>3. new \in [Tags -> Inbound]
        BY <2>1, <2>2
    <2>4. job' \in Job
        BY <1>0, <2>1, IdleDownType DEF Job, Steps
    <2>5. /\ config' \in [Tags -> Inbound] /\ configSynced' \in [Tags -> Inbound]
          /\ firewallSynced' \in BOOLEAN /\ budget' \in Budget
        BY <2>1, <2>3, WriteConfigUnsyncedType
    <2>6. QED
        BY <1>4, <2>4, <2>5 DEF Save, TypeOK, Budget, fenceFile, xray, history
<1>5. CASE SaveFirewall
    <2>1. job' \in Job
        BY <1>0, <1>5, GotoType, FinishType DEF SaveFirewall, Steps
    <2>2. /\ config' \in [Tags -> Inbound] /\ configSynced' \in [Tags -> Inbound]
          /\ firewallSynced' \in BOOLEAN /\ budget' \in Budget
        BY <1>5, ReconcileFirewallType DEF SaveFirewall
    <2>3. QED
        BY <1>5, <2>1, <2>2 DEF SaveFirewall, TypeOK, Budget, fenceFile, xray, history
<1>6. CASE SaveUndo
    <2>1. job' \in Job
        BY <1>0, <1>6, GotoType, FinishType DEF SaveUndo, Steps
    <2>2. /\ config' \in [Tags -> Inbound] /\ configSynced' \in [Tags -> Inbound]
          /\ firewallSynced' \in BOOLEAN /\ budget' \in Budget
        BY <1>0, <1>6, WriteConfigType DEF SaveUndo
    <2>3. QED
        BY <1>6, <2>1, <2>2 DEF SaveUndo, TypeOK, Budget, fenceFile, xray, history
<1>7. CASE EditUndo
    <2>1. job' \in Job
        BY <1>0, <1>7, GotoType DEF EditUndo, Steps
    <2>2. /\ config' \in [Tags -> Inbound] /\ configSynced' \in [Tags -> Inbound]
          /\ firewallSynced' \in BOOLEAN /\ budget' \in Budget
        BY <1>0, <1>7, WriteConfigType DEF EditUndo
    <2>3. QED
        BY <1>7, <2>1, <2>2 DEF EditUndo, TypeOK, Budget, fenceFile, xray, history
<1>8. CASE EditUndoRuntime
    <2>1. runtime' \in [Tags -> Inbound] /\ xrayUp' \in BOOLEAN /\ budget' \in Budget
        BY <1>0, <1>8, ReplaceRuntimeType DEF EditUndoRuntime
    <2>2. job' \in Job
        BY <1>8, FinishType DEF EditUndoRuntime
    <2>3. QED
        BY <1>8, <2>1, <2>2
        DEF EditUndoRuntime, TypeOK, Budget, fenceFile, configFile, history
<1>9. QED
    BY <1>1, <1>2, <1>3, <1>4, <1>5, <1>6, <1>7, <1>8

(* Requests, a crash, and the next boot. *)
LEMMA RequestType ==
    ASSUME TypeOK, NEW kind \in JobKinds, NEW t \in Tags, NEW m \in Ids \cup {NoId},
           NEW step \in Steps, Request(kind, t, m, step)
    PROVE  job' \in Job /\ budget' \in Budget
<1>1. budget' \in Budget
    BY DEF Request, TypeOK, Budget
<1>2. PICK c \in BOOLEAN : job' = [Task(kind, t, m, step) EXCEPT !.conditional = c]
    BY DEF Request
<1>3. job' \in Job
    BY <1>2, TaskType DEF Job
<1>4. QED
    BY <1>1, <1>3

LEMMA EnvironmentStepsType ==
    ASSUME TypeOK,
           Submit \/ SetAuthorization \/ SubmitStart \/ SubmitStop \/ Crash \/ Boot
    PROVE  TypeOK'
<1>1. CASE Submit
    <2>1. PICK kind \in JobKinds, t \in Tags, m \in Ids \cup {NoId} :
            Request(kind, t, m, "ensure")
        BY <1>1, IdleDownType DEF Submit, JobKinds
    <2>2. job' \in Job /\ budget' \in Budget
        BY <2>1, RequestType DEF Steps
    <2>3. added' \in [Tags -> Ids \cup {NoId}]
        BY <1>1 DEF Submit, TypeOK
    <2>4. QED
        BY <1>1, <2>1, <2>2, <2>3
        DEF Submit, Request, TypeOK, Budget, fenceFile, configFile, xray
<1>2. CASE SetAuthorization
    <2>1. PICK step \in Steps : Request("auth", AnyTag, NoId, step)
        BY <1>2 DEF SetAuthorization, Steps
    <2>2. job' \in Job /\ budget' \in Budget
        BY <2>1, IdleDownType, RequestType DEF JobKinds
    <2>3. QED
        BY <1>2, <2>1, <2>2
        DEF SetAuthorization, Request, TypeOK, Budget, fenceFile, configFile, xray
<1>3. CASE SubmitStart
    <2>1. job' \in Job
        BY <1>3, IdleDownType, TaskType DEF SubmitStart, JobKinds, Steps
    <2>2. QED
        BY <1>3, <2>1
        DEF SubmitStart, TypeOK, fenceFile, configFile, xray, history
<1>4. CASE SubmitStop
    <2>1. job' \in Job /\ budget' \in Budget
        BY <1>4, IdleDownType, RequestType DEF SubmitStop, JobKinds, Steps
    <2>2. QED
        BY <1>4, <2>1
        DEF SubmitStop, Request, TypeOK, Budget, fenceFile, configFile, xray
<1>5. CASE Crash
    <2>1. budget' \in Budget
        BY <1>5 DEF Crash, TypeOK, Budget
    <2>2. job' \in Job /\ runtime' \in [Tags -> Inbound] /\ xrayUp' \in BOOLEAN
        BY <1>5, NullTypes, IdleDownType DEF Crash, TypeOK, xray
    <2>3. /\ sidecar' \in [Tags -> Fence] /\ sidecarSynced' \in [Tags -> Fence]
          /\ config' \in [Tags -> Inbound] /\ configSynced' \in [Tags -> Inbound]
          /\ fences' \in [Tags -> Fence] /\ firewallSynced' \in BOOLEAN
        BY <1>5 DEF Crash, TypeOK, fenceFile, configFile
    <2>4. QED
        BY <1>5, <2>1, <2>2, <2>3 DEF Crash, TypeOK, Budget, history
<1>6. CASE Boot
    <2>1. job' \in Job
        BY <1>6, IdleDownType, TaskType DEF Boot, JobKinds, Steps
    <2>2. QED
        BY <1>6, <2>1 DEF Boot, TypeOK, configFile, xray, history
<1>7. QED
    BY <1>1, <1>2, <1>3, <1>4, <1>5, <1>6

LEMMA InitType == Init => TypeOK
<1> SUFFICES ASSUME Init PROVE TypeOK
    OBVIOUS
<1>1. sidecar \in [Tags -> Fence]
    BY NullTypes DEF Init
<1>2. config \in [Tags -> Inbound]
    BY NullTypes DEF Init, Inbound, Writers
<1>3. \A t \in Tags : Loaded(config[t]) \in Inbound
    BY <1>2, LoadedType
<1>4. runtime \in [Tags -> Inbound]
    BY <1>3, NullTypes DEF Init
<1>5. xrayUp \in BOOLEAN /\ job \in Job
    BY IdleDownType DEF Init
<1>6. budget \in [requests: Nat, faults: Nat, crashes: Nat]
    BY DEF Init
<1>7. QED
    BY <1>1, <1>2, <1>4, <1>5, <1>6 DEF Init, TypeOK

LEMMA NextType == TypeOK /\ [Next]_vars => TypeOK'
<1> SUFFICES ASSUME TypeOK, [Next]_vars PROVE TypeOK'
    OBVIOUS
<1>1. CASE Progress
    BY <1>1, AddStepsType, RemoveStepsType, UndoStepsType, RecoveryStepsType,
       XrayStepsType, WriterStepsType DEF Progress
<1>2. CASE Requests \/ Environment \/ Boot
    BY <1>2, EnvironmentStepsType, XrayStepsType DEF Requests, Environment
<1>3. CASE UNCHANGED vars
    BY <1>3 DEF vars, fenceFile, configFile, xray, history, TypeOK
<1>4. QED
    BY <1>1, <1>2, <1>3 DEF Next

(* The program never stores a value the types do not allow, whatever it is  *)
(* asked and whatever fails.                                                *)
THEOREM TypeCorrect == Spec => []TypeOK
<1>1. QED
    BY InitType, NextType, PTL DEF Spec

-----------------------------------------------------------------------------
(* The fence file *)

(* The steps that rely on what earlier steps left in the fence file. *)
FenceSteps ==
    UndoSteps \cup
    {"reserve", "unreserve", "persist", "firewall", "activate", "commit", "release",
     "cancel", "deactivate", "delete", "limiter", "complete"}

FilesWellFormed == MemoryIsFile /\ WellFormed(sidecar) /\ WellFormed(sidecarSynced)

JobReliesOnFile ==
    /\ job.step \in {"reserve", "cancel"} => ~AnyPending(sidecar)
    /\ StepsOfKind
    /\ AddHoldsReservation
    /\ RemoveIsCancelled

LEMMA FenceFileInvParts == FenceFileInv <=> FilesWellFormed /\ JobReliesOnFile
BY DEF FenceFileInv, FilesWellFormed, JobReliesOnFile

LEMMA GotoFields ==
    ASSUME job \in Job, NEW step, Goto(step)
    PROVE  /\ job'.step = step /\ job'.kind = job.kind /\ job'.tag = job.tag
           /\ job'.id = job.id /\ job'.saved = job.saved
BY DEF Goto, Job

LEMMA TaskFields ==
    ASSUME NEW kind, NEW t, NEW m, NEW step
    PROVE  /\ Task(kind, t, m, step).step = step
           /\ Task(kind, t, m, step).kind = kind
BY DEF Task

LEMMA IdleDownFields == Idle.step = "idle" /\ Down.step = "down"
BY TaskFields DEF Idle, Down

(* A handler at any other step relies on nothing. *)
LEMMA OtherStepsRelyOnNothing ==
    ASSUME job'.step \notin FenceSteps
    PROVE  JobReliesOnFile'
BY DEF JobReliesOnFile, FenceSteps, UndoSteps, StepsOfKind, AddHoldsReservation,
       RemoveIsCancelled

LEMMA FinishReliesOnNothing ==
    ASSUME Finish
    PROVE  JobReliesOnFile' /\ job'.step /= "down"
<1>1. job'.step = "idle"
    BY IdleDownFields DEF Finish
<1>2. QED
    BY <1>1, OtherStepsRelyOnNothing DEF FenceSteps, UndoSteps

(* A write of a well formed fence file leaves all three copies well formed. *)
LEMMA PersistKeepsFiles ==
    ASSUME FilesWellFormed, Up, NEW candidate, NEW outcome,
           PersistFences(candidate, outcome), WellFormed(candidate)
    PROVE  /\ fences' = sidecar' /\ FilesWellFormed'
           /\ sidecar' \in {sidecar, candidate}
BY DEF FilesWellFormed, MemoryIsFile, Up, PersistFences

LEMMA UnchangedKeepsFiles ==
    ASSUME FilesWellFormed, Up, UNCHANGED fenceFile
    PROVE  /\ FilesWellFormed'
           /\ sidecar' = sidecar /\ fences' = sidecar' /\ fences = sidecar
BY DEF FilesWellFormed, MemoryIsFile, Up, fenceFile

LEMMA NoFencePending ==
    /\ NoFence.pending = NoPending /\ NoFence.owner = NoId /\ NoFence.canceled = {}
    /\ NoPending.owner = NoId
BY DEF NoFence, NoPending

(* What each of the files the handlers write looks like. *)
LEMMA ResolvedIsClear ==
    ASSUME NEW f \in [Tags -> Fence]
    PROVE  ~AnyPending(Resolved(f)) /\ WellFormed(Resolved(f))
<1>1. ASSUME NEW t \in Tags PROVE ~HasPending(Resolved(f), t)
    <2>1. Resolved(f)[t] = ResolvedEntry(f, t) /\ f[t] \in Fence
        BY DEF Resolved
    <2>2. ResolvedEntry(f, t).pending = NoPending
        BY <2>1 DEF ResolvedEntry, HasPending, Fence
    <2>3. QED
        BY <2>1, <2>2 DEF HasPending
<1>2. QED
    BY <1>1 DEF AnyPending, WellFormed

LEMMA ReservedIsWellFormed ==
    ASSUME TypeOK, NEW t \in Tags, NEW m \in Ids,
           ~AnyPending(fences), m \notin fences[t].canceled
    PROVE  /\ WellFormed(Reserved(t, m))
           /\ \A s \in Tags : HasPending(Reserved(t, m), s) => s = t
           /\ Reserved(t, m)[t].owner = fences[t].owner
           /\ Reserved(t, m)[t].canceled = fences[t].canceled
<1>1. \A s \in Tags : s /= t => Reserved(t, m)[s] = fences[s]
    BY DEF Reserved, TypeOK
<1>2. /\ Reserved(t, m)[t].owner = fences[t].owner
      /\ Reserved(t, m)[t].canceled = fences[t].canceled
      /\ Reserved(t, m)[t].pending.owner = m
    <2>1. fences \in [Tags -> Fence] /\ fences[t] \in Fence
        BY DEF TypeOK
    <2>2. QED
        BY <2>1 DEF Reserved, Fence
<1>3. \A s \in Tags : HasPending(Reserved(t, m), s) => s = t
    BY <1>1 DEF HasPending, AnyPending
<1>4. QED
    BY <1>2, <1>3 DEF WellFormed

LEMMA CommittedIsWellFormed ==
    ASSUME TypeOK, NEW t \in Tags, NEW m, WellFormed(fences)
    PROVE  WellFormed(Committed(t, m))
<1>1. \A s \in Tags : s /= t => Committed(t, m)[s] = fences[s]
    BY DEF Committed, TypeOK
<1>2. Committed(t, m)[t].pending = NoPending
    <2>1. fences \in [Tags -> Fence] /\ fences[t] \in Fence
        BY DEF TypeOK
    <2>2. QED
        BY <2>1 DEF Committed, Fence
<1>3. QED
    BY <1>1, <1>2 DEF WellFormed, HasPending

LEMMA CancelledIsWellFormed ==
    ASSUME TypeOK, NEW t \in Tags, NEW m, ~AnyPending(fences)
    PROVE  /\ WellFormed(Cancelled(t, m))
           /\ Cancelled(t, m)[t].owner = fences[t].owner
           /\ Cancelled(t, m)[t].canceled = fences[t].canceled \cup {m}
<1>1. \A s \in Tags : s /= t => Cancelled(t, m)[s] = fences[s]
    BY DEF Cancelled, TypeOK
<1>2. /\ Cancelled(t, m)[t].pending = fences[t].pending
      /\ Cancelled(t, m)[t].owner = fences[t].owner
      /\ Cancelled(t, m)[t].canceled = fences[t].canceled \cup {m}
    <2>1. fences \in [Tags -> Fence] /\ fences[t] \in Fence
        BY DEF TypeOK
    <2>2. QED
        BY <2>1 DEF Cancelled, Fence
<1>3. QED
    BY <1>1, <1>2 DEF WellFormed, HasPending, AnyPending

LEMMA ReleasedIsWellFormed ==
    ASSUME TypeOK, NEW t \in Tags, WellFormed(fences)
    PROVE  WellFormed(Released(t))
<1>1. \A s \in Tags : s /= t => Released(t)[s] = fences[s]
    BY DEF Released, TypeOK
<1>2. /\ Released(t)[t].pending = fences[t].pending
      /\ Released(t)[t].canceled = fences[t].canceled
    <2>1. fences \in [Tags -> Fence] /\ fences[t] \in Fence
        BY DEF TypeOK
    <2>2. QED
        BY <2>1 DEF Released, Fence
<1>3. QED
    BY <1>1, <1>2 DEF WellFormed, HasPending

LEMMA WithdrawnIsClear ==
    ASSUME TypeOK, fences = sidecar, AddHoldsReservation, job.kind = "add",
           job.step \in {"unreserve", "release"}
    PROVE  /\ WellFormed(Withdrawn) /\ ~AnyPending(Withdrawn)
           /\ \A t \in Tags : Withdrawn[t].owner = fences[t].owner
                              /\ Withdrawn[t].canceled = fences[t].canceled
<1>1. job.tag \in Tags
    BY JobFields DEF TypeOK
<1>2. /\ Withdrawn[job.tag] = job.saved
      /\ \A s \in Tags : s /= job.tag => Withdrawn[s] = fences[s]
    BY <1>1 DEF Withdrawn, TypeOK
<1>3. /\ \A t \in Tags : HasPending(fences, t) => t = job.tag
      /\ job.saved.pending = NoPending
      /\ job.saved.owner = fences[job.tag].owner
      /\ job.saved.canceled = fences[job.tag].canceled
    BY DEF AddHoldsReservation
<1>4. ~AnyPending(Withdrawn)
    BY <1>2, <1>3 DEF AnyPending, HasPending
<1>5. QED
    BY <1>2, <1>3, <1>4 DEF WellFormed, AnyPending

(* An add, or a remove, that goes on without writing the fence file keeps    *)
(* what it relies on.                                                       *)
SameRequest == /\ job'.kind = job.kind /\ job'.tag = job.tag
               /\ job'.id = job.id /\ job'.saved = job.saved

LEMMA AddGoesOn ==
    ASSUME JobReliesOnFile, UNCHANGED sidecar, SameRequest, job.kind = "add",
           job.step \in UndoSteps \cup
               {"unreserve", "persist", "firewall", "activate", "commit", "release"},
           job'.step \in UndoSteps \cup
               {"persist", "firewall", "activate", "commit", "release"},
           job'.step \in {"commit", "release"} => job.id /= NoId
    PROVE  JobReliesOnFile'
<1>1. AddHoldsReservation'
    BY DEF JobReliesOnFile, AddHoldsReservation, SameRequest
<1>2. StepsOfKind' /\ RemoveIsCancelled'
    BY DEF StepsOfKind, RemoveIsCancelled, SameRequest, UndoSteps
<1>3. QED
    BY <1>1, <1>2 DEF JobReliesOnFile, UndoSteps

LEMMA RemoveGoesOn ==
    ASSUME JobReliesOnFile, UNCHANGED sidecar, SameRequest, job.kind = "remove",
           job.step \in UndoSteps \cup
               {"deactivate", "delete", "firewall", "limiter", "complete"},
           job'.step \in UndoSteps \cup
               {"deactivate", "delete", "firewall", "limiter", "complete"}
    PROVE  JobReliesOnFile'
<1>1. RemoveIsCancelled'
    BY DEF JobReliesOnFile, RemoveIsCancelled, SameRequest
<1>2. StepsOfKind' /\ AddHoldsReservation'
    BY DEF StepsOfKind, AddHoldsReservation, SameRequest, UndoSteps
<1>3. QED
    BY <1>1, <1>2 DEF JobReliesOnFile, UndoSteps

LEMMA AddStepsKeepFile ==
    ASSUME TypeOK, FilesWellFormed, JobReliesOnFile,
           Reserve \/ Unreserve \/ Persist \/ Activate \/ Commit
    PROVE  FilesWellFormed' /\ JobReliesOnFile'
<1>0. /\ job \in Job /\ job.tag \in Tags /\ job.id \in Ids \cup {NoId}
      /\ fences \in [Tags -> Fence]
    BY JobFields DEF TypeOK
<1>1. Up /\ fences = sidecar /\ job.kind = "add" /\ WellFormed(fences)
    BY DEF Reserve, Unreserve, Persist, Activate, Commit, Up,
           JobReliesOnFile, StepsOfKind, FilesWellFormed, MemoryIsFile
<1>2. CASE Reserve
    <2> DEFINE t == job.tag
               m == job.id
               begun == [job EXCEPT !.prev = config, !.saved = fences[t]]
    <2>1. ~AnyPending(fences) /\ job.step = "reserve"
        BY <1>1, <1>2 DEF Reserve, JobReliesOnFile
    <2>2. CASE Finish /\ UNCHANGED fenceFile
        BY <1>1, <2>2, FinishReliesOnNothing, UnchangedKeepsFiles
    <2>3. CASE /\ job' = [begun EXCEPT !.step = "persist"]
               /\ UNCHANGED fenceFile
        <3>1. /\ job'.step = "persist" /\ job'.kind = "add" /\ job'.tag = t
              /\ job'.id = m /\ job'.saved = fences[t]
            BY <1>0, <1>1, <2>3 DEF Job
        <3>2. UNCHANGED sidecar /\ FilesWellFormed'
            BY <1>1, <2>3, UnchangedKeepsFiles
        <3>3. fences[t].pending = NoPending
            BY <1>0, <2>1 DEF AnyPending, HasPending
        <3>4. AddHoldsReservation'
            BY <1>1, <2>1, <3>1, <3>2, <3>3 DEF AddHoldsReservation, AnyPending
        <3>5. QED
            BY <3>1, <3>2, <3>4
            DEF JobReliesOnFile, StepsOfKind, RemoveIsCancelled
    <2>4. CASE /\ m /= NoId /\ m \notin fences[t].canceled
               /\ \E o \in Outcomes :
                    /\ PersistFences(Reserved(t, m), o)
                    /\ \/ o = "ok" /\ job' = [begun EXCEPT !.step = "persist"]
                       \/ o = "unsynced" /\ job' = [begun EXCEPT !.step = "unreserve"]
                       \/ o = "lost" /\ Finish
        <3>1. PICK o \in Outcomes :
                /\ PersistFences(Reserved(t, m), o)
                /\ \/ o = "ok" /\ job' = [begun EXCEPT !.step = "persist"]
                   \/ o = "unsynced" /\ job' = [begun EXCEPT !.step = "unreserve"]
                   \/ o = "lost" /\ Finish
            BY <2>4
        <3>2. /\ WellFormed(Reserved(t, m))
              /\ \A s \in Tags : HasPending(Reserved(t, m), s) => s = t
              /\ Reserved(t, m)[t].owner = fences[t].owner
              /\ Reserved(t, m)[t].canceled = fences[t].canceled
            BY <1>0, <2>1, <2>4, ReservedIsWellFormed
        <3>3. FilesWellFormed'
            BY <1>1, <3>1, <3>2, PersistKeepsFiles
        <3>4. CASE Finish
            BY <3>3, <3>4, FinishReliesOnNothing
        <3>5. CASE ~Finish
            <4>1. o \in {"ok", "unsynced"} /\ sidecar' = Reserved(t, m)
                BY <3>1, <3>5 DEF PersistFences
            <4>2. /\ job'.step \in {"persist", "unreserve"} /\ job'.kind = "add"
                  /\ job'.tag = t /\ job'.id = m /\ job'.saved = fences[t]
                BY <1>0, <1>1, <3>1, <3>5 DEF Job
            <4>3. fences[t].pending = NoPending
                BY <1>0, <2>1 DEF AnyPending, HasPending
            <4>4. AddHoldsReservation'
                BY <3>2, <4>1, <4>2, <4>3 DEF AddHoldsReservation
            <4>5. QED
                BY <2>4, <3>3, <4>2, <4>4
                DEF JobReliesOnFile, StepsOfKind, RemoveIsCancelled
        <3>6. QED
            BY <3>4, <3>5
    <2>5. QED
        BY <1>2, <2>2, <2>3, <2>4 DEF Reserve, Admitted
<1>3. CASE Unreserve
    <2>1. WellFormed(Withdrawn)
        BY <1>1, <1>3, WithdrawnIsClear DEF Unreserve, JobReliesOnFile
    <2>2. QED
        BY <1>1, <1>3, <2>1, PersistKeepsFiles, FinishReliesOnNothing DEF Unreserve
<1>4. CASE Persist
    <2>1. PICK step \in {"firewall", "undoConfig"} : Goto(step)
        BY <1>4 DEF Persist
    <2>2. SameRequest /\ job'.step = step
        BY <1>0, <2>1, GotoFields DEF SameRequest
    <2>3. FilesWellFormed' /\ UNCHANGED sidecar
        BY <1>1, <1>4, UnchangedKeepsFiles DEF Persist
    <2>4. QED
        BY <1>1, <1>4, <2>2, <2>3, AddGoesOn DEF Persist, UndoSteps
<1>5. CASE Activate
    <2>1. FilesWellFormed' /\ UNCHANGED sidecar
        BY <1>1, <1>5, UnchangedKeepsFiles DEF Activate
    <2>2. CASE Finish
        BY <2>1, <2>2, FinishReliesOnNothing
    <2>3. CASE ~Finish
        <3>1. PICK step \in {"undoConfig", "commit"} :
                Goto(step) /\ (step = "commit" => job.id /= NoId)
            BY <1>5, <2>3 DEF Activate
        <3>2. SameRequest /\ job'.step = step
            BY <1>0, <3>1, GotoFields DEF SameRequest
        <3>3. QED
            BY <1>1, <1>5, <2>1, <3>1, <3>2, AddGoesOn DEF Activate, UndoSteps
    <2>4. QED
        BY <2>2, <2>3
<1>6. CASE Commit
    <2>1. WellFormed(Committed(job.tag, job.id))
        BY <1>0, <1>1, CommittedIsWellFormed
    <2>2. FilesWellFormed'
        <3>1. CASE UNCHANGED fenceFile
            BY <1>1, <3>1, UnchangedKeepsFiles
        <3>2. CASE \E o \in Outcomes : PersistFences(Committed(job.tag, job.id), o)
            BY <1>1, <2>1, <3>2, PersistKeepsFiles
        <3>3. QED
            BY <1>6, <3>1, <3>2 DEF Commit
    <2>3. QED
        BY <1>6, <2>2, FinishReliesOnNothing DEF Commit
<1>7. QED
    BY <1>2, <1>3, <1>4, <1>5, <1>6

LEMMA RemoveStepsKeepFile ==
    ASSUME TypeOK, FilesWellFormed, JobReliesOnFile,
           Cancel \/ Deactivate \/ Delete \/ ClearLimiter \/ Complete
    PROVE  FilesWellFormed' /\ JobReliesOnFile'
<1>0. /\ job \in Job /\ job.tag \in Tags /\ job.id \in Ids \cup {NoId}
      /\ fences \in [Tags -> Fence]
    BY JobFields DEF TypeOK
<1>1. Up /\ fences = sidecar /\ job.kind = "remove" /\ WellFormed(fences)
    BY DEF Cancel, Deactivate, Delete, ClearLimiter, Complete, Up,
           JobReliesOnFile, StepsOfKind, FilesWellFormed, MemoryIsFile
<1>2. CASE Cancel
    <2> DEFINE t == job.tag
               m == job.id
               go == job' = [job EXCEPT !.step = "deactivate", !.prev = config]
    <2>1. ~AnyPending(fences) /\ job.step = "cancel"
        BY <1>1, <1>2 DEF Cancel, JobReliesOnFile
    <2>2. go => /\ job'.step = "deactivate" /\ job'.kind = "remove"
                /\ job'.tag = t /\ job'.id = m
        BY <1>0, <1>1 DEF Job
    <2>3. CASE m = NoId
        <3>1. FilesWellFormed' /\ UNCHANGED sidecar
            BY <1>1, <1>2, <2>3, UnchangedKeepsFiles DEF Cancel
        <3>2. CASE Finish
            BY <3>1, <3>2, FinishReliesOnNothing
        <3>3. CASE ~Finish
            <4>1. go /\ fences[t].owner = NoId
                BY <1>2, <2>3, <3>3 DEF Cancel
            <4>2. QED
                BY <1>1, <2>2, <2>3, <3>1, <4>1
                DEF JobReliesOnFile, StepsOfKind, AddHoldsReservation,
                    RemoveIsCancelled, UndoSteps
        <3>4. QED
            BY <3>2, <3>3
    <2>4. CASE m /= NoId
        <3>1. PICK o \in Outcomes :
                /\ PersistFences(Cancelled(t, m), o)
                /\ Finish \/ (o = "ok" /\ ~Superseded(t, m) /\ go)
            BY <1>2, <2>4 DEF Cancel
        <3>2. /\ WellFormed(Cancelled(t, m))
              /\ Cancelled(t, m)[t].owner = fences[t].owner
              /\ Cancelled(t, m)[t].canceled = fences[t].canceled \cup {m}
            BY <1>0, <2>1, CancelledIsWellFormed
        <3>3. FilesWellFormed'
            BY <1>1, <3>1, <3>2, PersistKeepsFiles
        <3>4. CASE Finish
            BY <3>3, <3>4, FinishReliesOnNothing
        <3>5. CASE o = "ok" /\ ~Superseded(t, m) /\ go
            <4>1. sidecar' = Cancelled(t, m)
                BY <3>1, <3>5 DEF PersistFences
            <4>2. sidecar'[t].owner \in {NoId, m} /\ m \in sidecar'[t].canceled
                BY <3>2, <3>5, <4>1 DEF Superseded
            <4>3. QED
                BY <2>2, <3>3, <3>5, <4>2
                DEF JobReliesOnFile, StepsOfKind, AddHoldsReservation,
                    RemoveIsCancelled, UndoSteps
        <3>6. QED
            BY <3>1, <3>4, <3>5
    <2>5. QED
        BY <2>3, <2>4
<1>3. CASE Deactivate \/ Delete \/ ClearLimiter
    <2>1. FilesWellFormed' /\ UNCHANGED sidecar
        BY <1>1, <1>3, UnchangedKeepsFiles DEF Deactivate, Delete, ClearLimiter
    <2>2. CASE Finish
        BY <2>1, <2>2, FinishReliesOnNothing
    <2>3. CASE ~Finish
        <3>1. PICK step \in {"delete", "firewall", "undoConfig", "complete"} : Goto(step)
            BY <1>3, <2>3 DEF Deactivate, Delete, ClearLimiter
        <3>2. SameRequest /\ job'.step = step
            BY <1>0, <3>1, GotoFields DEF SameRequest
        <3>3. QED
            BY <1>1, <1>3, <2>1, <3>2, RemoveGoesOn
            DEF Deactivate, Delete, ClearLimiter, UndoSteps
    <2>4. QED
        BY <2>2, <2>3
<1>4. CASE Complete
    <2>1. WellFormed(Released(job.tag))
        BY <1>0, <1>1, ReleasedIsWellFormed
    <2>2. FilesWellFormed'
        <3>1. CASE UNCHANGED fenceFile
            BY <1>1, <3>1, UnchangedKeepsFiles
        <3>2. CASE \E o \in Outcomes : PersistFences(Released(job.tag), o)
            BY <1>1, <2>1, <3>2, PersistKeepsFiles
        <3>3. QED
            BY <1>4, <3>1, <3>2 DEF Complete
    <2>3. QED
        BY <1>4, <2>2, FinishReliesOnNothing DEF Complete
<1>5. QED
    BY <1>2, <1>3, <1>4

LEMMA SharedStepsKeepFile ==
    ASSUME TypeOK, FilesWellFormed, JobReliesOnFile,
           Firewall \/ UndoConfig \/ UndoRuntime \/ UndoFirewall \/ Release
    PROVE  FilesWellFormed' /\ JobReliesOnFile'
<1>0. job \in Job /\ job.tag \in Tags
    BY JobFields DEF TypeOK
<1>1. Up /\ fences = sidecar
    BY DEF Firewall, UndoConfig, UndoRuntime, UndoFirewall, Release, Up,
           FilesWellFormed, MemoryIsFile
<1>2. CASE Firewall \/ UndoConfig \/ UndoRuntime
    <2>1. FilesWellFormed' /\ UNCHANGED sidecar
        BY <1>1, <1>2, UnchangedKeepsFiles DEF Firewall, UndoConfig, UndoRuntime
    <2>2. job.kind \in {"add", "remove"}
        BY <1>2 DEF Firewall, UndoConfig, UndoRuntime, JobReliesOnFile, StepsOfKind
    <2>3. /\ SameRequest
          /\ job.kind = "add" => job'.step \in UndoSteps \cup {"activate"}
          /\ job.kind = "remove" => job'.step \in UndoSteps \cup {"limiter"}
        <3>1. CASE Firewall
            <4>1. PICK step : /\ Goto(step)
                              /\ step \in {"undoConfig", "activate", "limiter"}
                              /\ job.kind = "add" => step /= "limiter"
                              /\ job.kind = "remove" => step /= "activate"
                BY <3>1 DEF Firewall
            <4>2. QED
                BY <1>0, <4>1, GotoFields DEF SameRequest, UndoSteps
        <3>2. CASE UndoConfig
            BY <1>0, <3>2 DEF UndoConfig, SameRequest, UndoSteps, Job
        <3>3. CASE UndoRuntime
            BY <1>0, <3>3 DEF UndoRuntime, SameRequest, UndoSteps, Job
        <3>4. QED
            BY <1>2, <3>1, <3>2, <3>3
    <2>4. CASE job.kind = "add"
        BY <1>2, <2>1, <2>3, <2>4, AddGoesOn
        DEF Firewall, UndoConfig, UndoRuntime, UndoSteps
    <2>5. CASE job.kind = "remove"
        BY <1>2, <2>1, <2>3, <2>5, RemoveGoesOn
        DEF Firewall, UndoConfig, UndoRuntime, UndoSteps
    <2>6. QED
        BY <2>2, <2>4, <2>5
<1>3. CASE UndoFirewall
    <2>1. FilesWellFormed' /\ UNCHANGED sidecar
        BY <1>1, <1>3, UnchangedKeepsFiles DEF UndoFirewall
    <2>2. \/ Finish
          \/ Goto("recover")
          \/ Goto("release") /\ job.kind = "add" /\ job.id /= NoId
        <3>1. job.kind \in {"add", "remove"}
            BY <1>3 DEF UndoFirewall, JobReliesOnFile, StepsOfKind
        <3>2. PICK uncertain : AfterUndo(uncertain)
            BY <1>3 DEF UndoFirewall
        <3>3. QED
            BY <3>1, <3>2 DEF AfterUndo
    <2>3. CASE Finish
        BY <2>1, <2>3, FinishReliesOnNothing
    <2>4. CASE Goto("recover")
        BY <1>0, <2>1, <2>4, GotoFields, OtherStepsRelyOnNothing
        DEF FenceSteps, UndoSteps
    <2>5. CASE Goto("release") /\ job.kind = "add" /\ job.id /= NoId
        <3>1. SameRequest /\ job'.step = "release"
            BY <1>0, <2>5, GotoFields DEF SameRequest
        <3>2. QED
            BY <1>3, <2>1, <2>5, <3>1, AddGoesOn DEF UndoFirewall, UndoSteps
    <2>6. QED
        BY <2>2, <2>3, <2>4, <2>5
<1>4. CASE Release
    <2>1. WellFormed(Withdrawn)
        BY <1>1, <1>4, WithdrawnIsClear DEF Release, JobReliesOnFile, StepsOfKind
    <2>2. QED
        BY <1>1, <1>4, <2>1, PersistKeepsFiles, FinishReliesOnNothing DEF Release
<1>5. QED
    BY <1>2, <1>3, <1>4

LEMMA EnsureKeepsFile ==
    ASSUME TypeOK, FilesWellFormed, Ensure
    PROVE  FilesWellFormed' /\ JobReliesOnFile'
<1>0. job \in Job /\ fences \in [Tags -> Fence]
    BY DEF TypeOK
<1>1. Up /\ fences = sidecar
    BY DEF Ensure, Up, FilesWellFormed, MemoryIsFile
<1>2. FilesWellFormed' /\ (Finish \/ (Goto(FirstStep(job.kind)) /\ ~AnyPending(sidecar')))
    <2>1. CASE UNCHANGED fenceFile /\ (Finish \/ (Goto(FirstStep(job.kind))
                                                  /\ ~AnyPending(fences)))
        BY <1>1, <2>1, UnchangedKeepsFiles
    <2>2. ASSUME NEW o \in Outcomes, PersistFences(Resolved(fences), o),
                 IF o = "ok" THEN Goto(FirstStep(job.kind)) ELSE Finish
          PROVE  FilesWellFormed' /\ (Finish \/ (Goto(FirstStep(job.kind))
                                                 /\ ~AnyPending(sidecar')))
        <3>1. ~AnyPending(Resolved(fences)) /\ WellFormed(Resolved(fences))
            BY <1>0, ResolvedIsClear
        <3>2. FilesWellFormed'
            BY <1>1, <2>2, <3>1, PersistKeepsFiles
        <3>3. o = "ok" => sidecar' = Resolved(fences)
            BY <2>2 DEF PersistFences
        <3>4. QED
            BY <2>2, <3>1, <3>2, <3>3
    <2>3. QED
        BY <2>1, <2>2 DEF Ensure
<1>3. CASE Finish
    BY <1>2, <1>3, FinishReliesOnNothing
<1>4. CASE Goto(FirstStep(job.kind)) /\ ~AnyPending(sidecar')
    <2>1. job'.step = FirstStep(job.kind) /\ job'.kind = job.kind
        BY <1>0, <1>4, GotoFields
    <2>2. /\ job'.step \in {"reserve", "cancel", "edit", "save", "inventory", "idle"}
          /\ job'.step = "reserve" => job'.kind = "add"
          /\ job'.step = "cancel" => job'.kind = "remove"
        BY <2>1 DEF FirstStep
    <2>3. QED
        BY <1>2, <1>4, <2>2
        DEF JobReliesOnFile, StepsOfKind, AddHoldsReservation, RemoveIsCancelled,
            UndoSteps
<1>5. QED
    BY <1>2, <1>3, <1>4

(* Recovery, the core's life and the other writers rely on nothing, and     *)
(* only the resolution of a recovery writes the fence file.                 *)
LEMMA OtherStepsKeepFile ==
    ASSUME TypeOK, FilesWellFormed,
           \/ Recover \/ Converge \/ OpenFirewall \/ Resolve
           \/ Authorize \/ StartXray \/ StopXray
           \/ ReadInventory \/ Edit \/ EditRuntime \/ EditUndo \/ EditUndoRuntime
           \/ Save \/ SaveFirewall \/ SaveUndo
    PROVE  FilesWellFormed' /\ JobReliesOnFile'
<1>0. job \in Job /\ fences \in [Tags -> Fence]
    BY DEF TypeOK
<1>1. Up
    BY DEF Recover, Converge, OpenFirewall, Resolve, Authorize, StartXray, StopXray,
           ReadInventory, Edit, EditRuntime, EditUndo,
           EditUndoRuntime, Save, SaveFirewall, SaveUndo, Up
<1>2. FilesWellFormed'
    <2>1. CASE Resolve
        <3>1. CASE UNCHANGED fenceFile
            BY <1>1, <3>1, UnchangedKeepsFiles
        <3>2. CASE \E o \in Outcomes : PersistFences(Resolved(fences), o)
            BY <1>0, <1>1, <3>2, ResolvedIsClear, PersistKeepsFiles
        <3>3. QED
            BY <2>1, <3>1, <3>2 DEF Resolve
    <2>2. CASE ~Resolve
        <3>1. UNCHANGED fenceFile
            BY <2>2 DEF Recover, Converge, OpenFirewall, Authorize, StartXray,
               StopXray, ReadInventory, Edit, EditRuntime, EditUndo,
           EditUndoRuntime, Save, SaveFirewall,
               SaveUndo, fenceFile
        <3>2. QED
            BY <1>1, <3>1, UnchangedKeepsFiles
    <2>3. QED
        BY <2>1, <2>2
<1>3. PICK step : /\ step \notin FenceSteps
                  /\ job'.step = step
    <2>1. \A good : AfterRecovery(good) => job'.step \in {"authorize", "recover", "idle"}
        BY <1>0, GotoFields, TaskFields, IdleDownFields DEF AfterRecovery, Grant, Finish
    <2>2. CASE Recover \/ Converge \/ OpenFirewall \/ Resolve
        <3>1. job'.step \in {"authorize", "recover", "idle", "converge",
                             "openFirewall", "resolve"}
            BY <1>0, <2>1, <2>2, GotoFields DEF Recover, Converge, OpenFirewall, Resolve
        <3>2. QED
            BY <3>1 DEF FenceSteps, UndoSteps
    <2>3. CASE \/ Authorize \/ StartXray \/ StopXray \/ ReadInventory
               \/ Edit \/ EditRuntime \/ EditUndo \/ EditUndoRuntime
        <3>1. job'.step \in {"authorize", "idle", "recover", "editRuntime", "editUndo",
                             "editUndoRuntime"}
            BY <1>0, <2>3, GotoFields, IdleDownFields
            DEF Authorize, StartXray, StopXray, ReadInventory, Edit, EditRuntime,
                EditUndo, EditUndoRuntime, Finish, Job
        <3>2. QED
            BY <3>1 DEF FenceSteps, UndoSteps
    <2>4. CASE Save
        <3>1. job'.step \in {"idle", "saveFirewall"}
            BY <1>0, <2>4, IdleDownFields DEF Save, Job
        <3>2. QED
            BY <3>1 DEF FenceSteps, UndoSteps
    <2>5. CASE SaveFirewall \/ SaveUndo
        <3>1. job'.step \in {"idle", "saveUndo", "saveRefirewall"}
            BY <1>0, <2>5, GotoFields, IdleDownFields DEF SaveFirewall, SaveUndo, Finish
        <3>2. QED
            BY <3>1 DEF FenceSteps, UndoSteps
    <2>6. QED
        BY <2>2, <2>3, <2>4, <2>5
<1>4. QED
    BY <1>2, <1>3, OtherStepsRelyOnNothing

LEMMA RequestFields ==
    ASSUME NEW kind, NEW t, NEW m, NEW step, Request(kind, t, m, step)
    PROVE  job = Idle /\ job'.step = step /\ UNCHANGED fenceFile
BY DEF Request, Task

LEMMA RequestsKeepFile ==
    ASSUME TypeOK, FilesWellFormed, Requests
    PROVE  FilesWellFormed' /\ JobReliesOnFile'
<1>1. job = Idle /\ UNCHANGED fenceFile
      /\ job'.step \in {"ensure", "recover", "authorize", "start", "stop"}
    <2>1. CASE Submit
        BY <2>1, RequestFields DEF Submit
    <2>2. CASE SetAuthorization
        BY <2>2, RequestFields DEF SetAuthorization
    <2>3. CASE SubmitStart
        BY <2>3, TaskFields DEF SubmitStart
    <2>4. CASE SubmitStop
        BY <2>4, RequestFields DEF SubmitStop
    <2>5. QED
        BY <2>1, <2>2, <2>3, <2>4 DEF Requests
<1>2. Up
    BY <1>1, IdleDownFields DEF Up
<1>3. QED
    BY <1>1, <1>2, UnchangedKeepsFiles, OtherStepsRelyOnNothing DEF FenceSteps, UndoSteps

LEMMA EnvironmentKeepsFile ==
    ASSUME TypeOK, FilesWellFormed, JobReliesOnFile, Environment \/ Boot
    PROVE  FilesWellFormed' /\ JobReliesOnFile'
<1>1. CASE CoreDies \/ OperatorStarts
    <2>1. UNCHANGED <<fenceFile, job>>
        BY <1>1 DEF CoreDies, OperatorStarts
    <2>2. QED
        BY <2>1 DEF fenceFile, FilesWellFormed, MemoryIsFile, Up, JobReliesOnFile,
           StepsOfKind, AddHoldsReservation, RemoveIsCancelled
<1>2. CASE Crash
    <2>1. job'.step = "down"
        BY <1>2, IdleDownFields DEF Crash
    <2>2. /\ sidecar' \in {sidecar, sidecarSynced}
          /\ sidecarSynced' \in {sidecar, sidecarSynced}
        BY <1>2 DEF Crash, fenceFile
    <2>3. FilesWellFormed'
        BY <2>1, <2>2 DEF FilesWellFormed, MemoryIsFile, Up
    <2>4. QED
        BY <2>1, <2>3, OtherStepsRelyOnNothing DEF FenceSteps, UndoSteps
<1>3. CASE Boot
    <2>1. job'.step \in {"start", "recover", "authorize"}
        BY <1>3, TaskFields DEF Boot
    <2>2. FilesWellFormed'
        BY <1>3 DEF Boot, FilesWellFormed, MemoryIsFile, Up
    <2>3. QED
        BY <2>1, <2>2, OtherStepsRelyOnNothing DEF FenceSteps, UndoSteps
<1>4. QED
    BY <1>1, <1>2, <1>3 DEF Environment

LEMMA FenceFileInit == Init => FenceFileInv
<1> SUFFICES ASSUME Init PROVE FenceFileInv
    OBVIOUS
<1>1. job.step = "down"
    BY IdleDownFields DEF Init
<1>2. \A t \in Tags : ~HasPending(sidecar, t)
    BY NoFencePending DEF Init, HasPending
<1>3. FilesWellFormed
    BY <1>1, <1>2 DEF Init, FilesWellFormed, MemoryIsFile, Up, WellFormed
<1>4. JobReliesOnFile
    BY <1>1 DEF JobReliesOnFile, StepsOfKind, AddHoldsReservation, RemoveIsCancelled,
                UndoSteps
<1>5. QED
    BY <1>3, <1>4, FenceFileInvParts

LEMMA FenceFileNext == TypeOK /\ FenceFileInv /\ [Next]_vars => FenceFileInv'
<1> SUFFICES ASSUME TypeOK, FilesWellFormed, JobReliesOnFile, [Next]_vars
             PROVE  FilesWellFormed' /\ JobReliesOnFile'
    BY FenceFileInvParts, FenceFileInvParts' DEF FenceFileInv, FilesWellFormed, JobReliesOnFile
<1>1. CASE Progress
    BY <1>1, AddStepsKeepFile, RemoveStepsKeepFile, SharedStepsKeepFile,
       EnsureKeepsFile, OtherStepsKeepFile DEF Progress
<1>2. CASE Requests \/ Environment \/ Boot
    BY <1>2, RequestsKeepFile, EnvironmentKeepsFile
<1>3. CASE UNCHANGED vars
    BY <1>3 DEF vars, fenceFile, FilesWellFormed, MemoryIsFile, Up, JobReliesOnFile,
       StepsOfKind, AddHoldsReservation, RemoveIsCancelled
<1>4. QED
    BY <1>1, <1>2, <1>3 DEF Next

LEMMA FenceFileCorrect == Spec => [](TypeOK /\ FenceFileInv)
<1>1. QED
    BY InitType, NextType, FenceFileInit, FenceFileNext, PTL DEF Spec

(* The agent's copy of the fence file is the file, whichever writes fail.   *)
THEOREM CacheCoherent == Spec => []MemoryIsFile
<1>1. FenceFileInv => MemoryIsFile
    BY DEF FenceFileInv
<1>2. QED
    BY <1>1, FenceFileCorrect, PTL

(* Recovery never has two mutations to order.                               *)
THEOREM OnePendingAtMost == Spec => []AtMostOnePending
<1>1. FenceFileInv => AtMostOnePending
    BY DEF FenceFileInv, WellFormed, AtMostOnePending
<1>2. QED
    BY <1>1, FenceFileCorrect, PTL

(* A cancelled mutation never holds the reservation.                        *)
THEOREM CancelledNeverPending == Spec => []PendingNotCanceled
<1>1. FenceFileInv => PendingNotCanceled
    BY DEF FenceFileInv, WellFormed, PendingNotCanceled
<1>2. QED
    BY <1>1, FenceFileCorrect, PTL

-----------------------------------------------------------------------------
(* The ledger *)

LEMMA LedgerEntries ==
    ASSUME NEW f \in [Tags -> Fence]
    PROVE  /\ LedgerOf(f) \in [Tags -> Ledger!Entry]
           /\ \A t \in Tags : /\ LedgerOf(f)[t].owner = f[t].owner
                              /\ LedgerOf(f)[t].canceled = f[t].canceled
BY DEF LedgerOf, Ledger!Entry, Fence

LEMMA EntryWithCancelled ==
    ASSUME NEW e, NEW a, NEW c, NEW m, e = [owner |-> a, canceled |-> c]
    PROVE  [e EXCEPT !.canceled = @ \cup {m}] = [owner |-> a, canceled |-> c \cup {m}]
<1>1. e.canceled = c
    OBVIOUS
<1>2. e.canceled \cup {m} = c \cup {m}
    BY <1>1
<1> DEFINE more == c \cup {m}
<1> HIDE DEF more
<1>3. [e EXCEPT !.canceled = more] = [owner |-> a, canceled |-> more]
    OBVIOUS
<1>4. QED
    BY <1>2, <1>3 DEF more

(* Two fence files with the same owners and cancellations are one ledger.   *)
LEMMA SameLedger ==
    ASSUME NEW f \in [Tags -> Fence], NEW g \in [Tags -> Fence],
           \A t \in Tags : f[t].owner = g[t].owner /\ f[t].canceled = g[t].canceled
    PROVE  LedgerOf(f) = LedgerOf(g)
BY DEF LedgerOf

(* A write of the fence file publishes its ledger, or changes nothing.      *)
LEMMA PersistPublishes ==
    ASSUME NEW candidate, NEW outcome, PersistFences(candidate, outcome)
    PROVE  \/ UNCHANGED <<LedgerOf(sidecar), LedgerOf(sidecarSynced)>>
           \/ Ledger!Publish(LedgerOf(candidate))
<1>1. CASE outcome = "lost"
    BY <1>1 DEF PersistFences
<1>2. CASE outcome /= "lost"
    <2>1. sidecar' = candidate /\ sidecarSynced' \in {candidate, sidecarSynced}
        BY <1>2 DEF PersistFences
    <2>2. QED
        BY <2>1 DEF Ledger!Publish
<1>3. QED
    BY <1>1, <1>2

LEMMA ResolvedLedger ==
    ASSUME NEW f \in [Tags -> Fence], WellFormed(f), AllResolvable(f)
    PROVE  \/ LedgerOf(Resolved(f)) = LedgerOf(f)
           \/ \E t \in Tags, m \in Ids :
                /\ m \notin f[t].canceled
                /\ LedgerOf(Resolved(f)) = [LedgerOf(f) EXCEPT ![t].owner = m]
<1>1. \A t \in Tags : /\ Resolved(f)[t] = ResolvedEntry(f, t)
                      /\ f[t] \in Fence
    BY DEF Resolved
<1>2. \A t \in Tags : ~HasPending(f, t) => Resolved(f)[t] = f[t]
    BY <1>1 DEF ResolvedEntry
<1>3. \A t \in Tags : HasPending(f, t) =>
          /\ Resolved(f)[t].canceled = f[t].canceled
          /\ Resolved(f)[t].owner \in {f[t].pending.owner, f[t].owner}
    <2> TAKE t \in Tags
    <2> HAVE HasPending(f, t)
    <2>1. f[t].pending.prevOwner = f[t].owner
        BY DEF AllResolvable, Resolvable
    <2>2. PICK o \in {f[t].pending.owner, f[t].pending.prevOwner} :
            Resolved(f)[t] = [f[t] EXCEPT !.pending = NoPending, !.owner = o]
        BY <1>1 DEF ResolvedEntry
    <2>3. QED
        BY <1>1, <2>1, <2>2 DEF Fence
<1>4. Resolved(f) \in [Tags -> Fence]
    BY ResolvedType
<1>5. CASE \A t \in Tags : HasPending(f, t) => Resolved(f)[t].owner = f[t].owner
    BY <1>2, <1>3, <1>4, <1>5, SameLedger
<1>6. CASE \E t \in Tags : HasPending(f, t) /\ Resolved(f)[t].owner /= f[t].owner
    <2>1. PICK t \in Tags : HasPending(f, t) /\ Resolved(f)[t].owner /= f[t].owner
        BY <1>6
    <2> DEFINE m == f[t].pending.owner
    <2>2. m \in Ids /\ m \notin f[t].canceled /\ Resolved(f)[t].owner = m
        BY <1>3, <2>1 DEF WellFormed
    <2>3. \A s \in Tags : s /= t => Resolved(f)[s] = f[s]
        BY <1>2, <2>1 DEF WellFormed
    <2>4. /\ LedgerOf(f)[t] = [owner |-> f[t].owner, canceled |-> f[t].canceled]
          /\ LedgerOf(Resolved(f))[t] = [owner |-> m, canceled |-> f[t].canceled]
          /\ \A s \in Tags : s /= t => LedgerOf(Resolved(f))[s] = LedgerOf(f)[s]
        BY <1>3, <2>1, <2>2, <2>3 DEF LedgerOf
    <2>5. [LedgerOf(f)[t] EXCEPT !.owner = m] = LedgerOf(Resolved(f))[t]
        BY <2>4
    <2>6. /\ LedgerOf(f) = [s \in Tags |-> LedgerOf(f)[s]]
          /\ LedgerOf(Resolved(f)) = [s \in Tags |-> LedgerOf(Resolved(f))[s]]
        BY DEF LedgerOf
    <2>7. LedgerOf(Resolved(f)) = [LedgerOf(f) EXCEPT ![t].owner = m]
        BY <2>4, <2>5, <2>6
    <2>8. QED
        BY <2>2, <2>7
<1>7. QED
    BY <1>5, <1>6

(* The step a resolution, an ensure or a boot-time recovery maps to.        *)
LEMMA ResolutionMaps ==
    ASSUME TypeOK, FenceFileInv, Up, AllResolvable(fences),
           NEW o, PersistFences(Resolved(fences), o)
    PROVE  [Ledger!Next]_<<LedgerOf(sidecar), LedgerOf(sidecarSynced)>>
<1>1. fences = sidecar /\ WellFormed(sidecar) /\ sidecar \in [Tags -> Fence]
    BY DEF FenceFileInv, MemoryIsFile, TypeOK
<1>2. CASE UNCHANGED <<LedgerOf(sidecar), LedgerOf(sidecarSynced)>>
    BY <1>2
<1>3. CASE Ledger!Publish(LedgerOf(Resolved(fences)))
    <2>1. CASE LedgerOf(Resolved(fences)) = LedgerOf(sidecar)
        BY <1>3, <2>1 DEF Ledger!Next, Ledger!Republish
    <2>2. CASE \E t \in Tags, m \in Ids :
                 /\ m \notin sidecar[t].canceled
                 /\ LedgerOf(Resolved(fences)) = [LedgerOf(sidecar) EXCEPT ![t].owner = m]
        <3>1. PICK t \in Tags, m \in Ids :
                /\ m \notin sidecar[t].canceled
                /\ LedgerOf(Resolved(fences)) = [LedgerOf(sidecar) EXCEPT ![t].owner = m]
            BY <2>2
        <3>2. LedgerOf(sidecar)[t].canceled = sidecar[t].canceled
            BY <1>1, LedgerEntries
        <3>3. Ledger!Claim(t, m)
            BY <1>3, <3>1, <3>2 DEF Ledger!Claim
        <3>4. QED
            BY <3>3 DEF Ledger!Next
    <2>3. QED
        BY <1>1, <2>1, <2>2, ResolvedLedger
<1>4. QED
    BY <1>2, <1>3, PersistPublishes

LEMMA StepMaps ==
    ASSUME TypeOK, FenceFileInv, [Next]_vars
    PROVE  [Ledger!Next]_<<LedgerOf(sidecar), LedgerOf(sidecarSynced)>>
<1> DEFINE view == <<LedgerOf(sidecar), LedgerOf(sidecarSynced)>>
           t == job.tag
           m == job.id
<1>0. /\ t \in Tags /\ m \in Ids \cup {NoId}
      /\ fences \in [Tags -> Fence] /\ sidecar \in [Tags -> Fence]
    BY JobFields DEF TypeOK
<1>1. Up => fences = sidecar
    BY DEF FenceFileInv, MemoryIsFile
<1>2. CASE UNCHANGED fenceFile
    BY <1>2 DEF fenceFile
<1>3. CASE Reserve /\ ~UNCHANGED fenceFile
    <2>1. PICK o \in Outcomes : PersistFences(Reserved(t, m), o)
        BY <1>3 DEF Reserve
    <2>2. m \in Ids /\ m \notin fences[t].canceled /\ fences = sidecar
          /\ ~AnyPending(fences)
        BY <1>0, <1>1, <1>3 DEF Reserve, Admitted, Up, FenceFileInv
    <2>3. Reserved(t, m) \in [Tags -> Fence]
        BY <1>0, FileEntryTypes
    <2>4. \A s \in Tags : Reserved(t, m)[s].owner = fences[s].owner
                          /\ Reserved(t, m)[s].canceled = fences[s].canceled
        BY <1>0, <2>2, ReservedIsWellFormed DEF Reserved
    <2>5. LedgerOf(Reserved(t, m)) = LedgerOf(sidecar)
        BY <1>0, <2>2, <2>3, <2>4, SameLedger
    <2>6. QED
        BY <2>1, <2>5, PersistPublishes DEF Ledger!Next, Ledger!Republish
<1>4. CASE Unreserve \/ Release
    <2>1. PICK o \in Outcomes : PersistFences(Withdrawn, o)
        BY <1>4 DEF Unreserve, Release
    <2>2. fences = sidecar /\ job.kind = "add"
        BY <1>1, <1>4 DEF Unreserve, Release, Up, FenceFileInv, StepsOfKind
    <2>3. \A s \in Tags : Withdrawn[s].owner = fences[s].owner
                          /\ Withdrawn[s].canceled = fences[s].canceled
        BY <1>4, <2>2, WithdrawnIsClear DEF Unreserve, Release, FenceFileInv
    <2>4. LedgerOf(Withdrawn) = LedgerOf(sidecar)
        BY <1>0, <2>2, <2>3, WithdrawnType, SameLedger
    <2>5. QED
        BY <2>1, <2>4, PersistPublishes DEF Ledger!Next, Ledger!Republish
<1>5. CASE Commit /\ ~UNCHANGED fenceFile
    <2>1. PICK o \in Outcomes : PersistFences(Committed(t, m), o)
        BY <1>5 DEF Commit
    <2>2. fences = sidecar /\ HasPending(sidecar, t) /\ sidecar[t].pending.owner = m
        BY <1>1, <1>5 DEF Commit, Up
    <2>3. m \in Ids /\ m \notin sidecar[t].canceled
        BY <1>0, <2>2 DEF FenceFileInv, WellFormed
    <2>4. LedgerOf(Committed(t, m)) = [LedgerOf(sidecar) EXCEPT ![t].owner = m]
        <3>1. ASSUME NEW s \in Tags
              PROVE  /\ Committed(t, m)[s].owner = IF s = t THEN m ELSE sidecar[s].owner
                     /\ Committed(t, m)[s].canceled = sidecar[s].canceled
            <4>1. sidecar[s] \in Fence
                BY <1>0
            <4>2. Committed(t, m)[s] = IF s = t THEN [sidecar[s] EXCEPT !.owner = m, !.pending = NoPending]
                                        ELSE sidecar[s]
                BY <1>0, <2>2 DEF Committed
            <4>3. QED
                BY <4>1, <4>2 DEF Fence
        <3> DEFINE old == LedgerOf(sidecar)
                   entry == [owner |-> m, canceled |-> sidecar[t].canceled]
        <3>2. old[t] = [owner |-> sidecar[t].owner, canceled |-> sidecar[t].canceled]
            BY <1>0 DEF LedgerOf
        <3>3. [old[t] EXCEPT !.owner = m] = entry
            BY <3>2
        <3>4. [old EXCEPT ![t].owner = m] = [s \in Tags |-> IF s = t THEN entry ELSE old[s]]
            BY <3>3 DEF LedgerOf
        <3>5. \A s \in Tags : LedgerOf(Committed(t, m))[s] = IF s = t THEN entry ELSE old[s]
            BY <3>1 DEF LedgerOf
        <3>6. LedgerOf(Committed(t, m)) = [s \in Tags |-> LedgerOf(Committed(t, m))[s]]
            BY DEF LedgerOf
        <3>7. QED
            BY <3>4, <3>5, <3>6
    <2>5. Ledger!Publish(LedgerOf(Committed(t, m))) => Ledger!Claim(t, m)
        BY <1>0, <2>3, <2>4, LedgerEntries DEF Ledger!Claim
    <2>6. QED
        BY <1>0, <2>1, <2>3, <2>5, PersistPublishes DEF Ledger!Next
<1>6. CASE Cancel /\ ~UNCHANGED fenceFile
    <2>1. PICK o \in Outcomes : PersistFences(Cancelled(t, m), o)
        BY <1>6 DEF Cancel
    <2>2. fences = sidecar /\ m \in Ids
        BY <1>0, <1>1, <1>6 DEF Cancel, Up
    <2>3. LedgerOf(Cancelled(t, m))
            = [LedgerOf(sidecar) EXCEPT ![t].canceled = @ \cup {m}]
        <3>1. ASSUME NEW s \in Tags
              PROVE  /\ Cancelled(t, m)[s].owner = sidecar[s].owner
                     /\ Cancelled(t, m)[s].canceled
                          = IF s = t THEN sidecar[s].canceled \cup {m} ELSE sidecar[s].canceled
            <4>1. sidecar[s] \in Fence
                BY <1>0
            <4>2. Cancelled(t, m)[s] = IF s = t THEN [sidecar[s] EXCEPT !.canceled = @ \cup {m}]
                                        ELSE sidecar[s]
                BY <1>0, <2>2 DEF Cancelled
            <4>3. QED
                BY <4>1, <4>2 DEF Fence
        <3> DEFINE old == LedgerOf(sidecar)
                   entry == [owner |-> sidecar[t].owner, canceled |-> sidecar[t].canceled \cup {m}]
        <3>2. old[t] = [owner |-> sidecar[t].owner, canceled |-> sidecar[t].canceled]
            BY <1>0 DEF LedgerOf
        <3>3. [old[t] EXCEPT !.canceled = @ \cup {m}] = entry
            <4> DEFINE e == old[t]
                       a == sidecar[t].owner
                       c == sidecar[t].canceled
            <4>1. e = [owner |-> a, canceled |-> c]
                BY <3>2
            <4> HIDE DEF e, a, c
            <4>2. [e EXCEPT !.canceled = @ \cup {m}] = [owner |-> a, canceled |-> c \cup {m}]
                BY ONLY <4>1, EntryWithCancelled
            <4>3. QED
                BY <4>2 DEF e, a, c
        <3>4. [old EXCEPT ![t].canceled = @ \cup {m}] = [s \in Tags |-> IF s = t THEN entry ELSE old[s]]
            BY <3>3 DEF LedgerOf
        <3>5. \A s \in Tags : LedgerOf(Cancelled(t, m))[s] = IF s = t THEN entry ELSE old[s]
            BY <3>1 DEF LedgerOf
        <3>6. LedgerOf(Cancelled(t, m)) = [s \in Tags |-> LedgerOf(Cancelled(t, m))[s]]
            BY DEF LedgerOf
        <3>7. QED
            BY <3>4, <3>5, <3>6
    <2>4. Ledger!Publish(LedgerOf(Cancelled(t, m))) => Ledger!Cancel(t, m)
        BY <2>3 DEF Ledger!Cancel
    <2>5. QED
        BY <1>0, <2>1, <2>2, <2>4, PersistPublishes DEF Ledger!Next
<1>7. CASE Complete /\ ~UNCHANGED fenceFile
    <2>1. PICK o \in Outcomes : PersistFences(Released(t), o)
        BY <1>7 DEF Complete
    <2>2. fences = sidecar /\ sidecar[t].owner /= NoId
        BY <1>1, <1>7 DEF Complete, Up
    <2>3. sidecar[t].owner \in sidecar[t].canceled
        BY <1>7, <2>2
        DEF Complete, FenceFileInv, StepsOfKind, RemoveIsCancelled
    <2>4. LedgerOf(Released(t)) = [LedgerOf(sidecar) EXCEPT ![t].owner = NoId]
        <3>1. ASSUME NEW s \in Tags
              PROVE  /\ Released(t)[s].owner = IF s = t THEN NoId ELSE sidecar[s].owner
                     /\ Released(t)[s].canceled = sidecar[s].canceled
            <4>1. sidecar[s] \in Fence
                BY <1>0
            <4>2. Released(t)[s] = IF s = t THEN [sidecar[s] EXCEPT !.owner = NoId]
                                        ELSE sidecar[s]
                BY <1>0, <2>2 DEF Released
            <4>3. QED
                BY <4>1, <4>2 DEF Fence
        <3> DEFINE old == LedgerOf(sidecar)
                   entry == [owner |-> NoId, canceled |-> sidecar[t].canceled]
        <3>2. old[t] = [owner |-> sidecar[t].owner, canceled |-> sidecar[t].canceled]
            BY <1>0 DEF LedgerOf
        <3>3. [old[t] EXCEPT !.owner = NoId] = entry
            BY <3>2
        <3>4. [old EXCEPT ![t].owner = NoId] = [s \in Tags |-> IF s = t THEN entry ELSE old[s]]
            BY <3>3 DEF LedgerOf
        <3>5. \A s \in Tags : LedgerOf(Released(t))[s] = IF s = t THEN entry ELSE old[s]
            BY <3>1 DEF LedgerOf
        <3>6. LedgerOf(Released(t)) = [s \in Tags |-> LedgerOf(Released(t))[s]]
            BY DEF LedgerOf
        <3>7. QED
            BY <3>4, <3>5, <3>6
    <2>5. Ledger!Publish(LedgerOf(Released(t))) => Ledger!Release(t)
        BY <1>0, <2>3, <2>4, LedgerEntries DEF Ledger!Release
    <2>6. QED
        BY <1>0, <2>1, <2>5, PersistPublishes DEF Ledger!Next
<1>8. CASE (Ensure \/ Resolve) /\ ~UNCHANGED fenceFile
    <2>1. PICK o \in Outcomes : PersistFences(Resolved(fences), o)
        BY <1>8 DEF Ensure, Resolve
    <2>2. AllResolvable(fences) /\ Up
        BY <1>8 DEF Ensure, Resolve, Up
    <2>3. QED
        BY <2>1, <2>2, ResolutionMaps
<1>9. CASE Crash
    <2>1. /\ sidecar' \in {sidecar, sidecarSynced} /\ sidecarSynced' = sidecar'
          \/ UNCHANGED fenceFile
        BY <1>9 DEF Crash
    <2>2. QED
        BY <1>2, <2>1 DEF Ledger!Next, Ledger!PowerLoss
<1>10. CASE Boot
    BY <1>10 DEF Boot
<1>11. QED
    <2>1. CASE Progress
        <3>1. \/ UNCHANGED fenceFile
              \/ Reserve \/ Unreserve \/ Release \/ Commit \/ Cancel \/ Complete
              \/ Ensure \/ Resolve
            BY <2>1 DEF Progress, Persist, Firewall, Activate, Deactivate, Delete,
               ClearLimiter, UndoConfig, UndoRuntime, UndoFirewall, Recover, Converge,
               OpenFirewall, Authorize, StartXray, StopXray, ReadInventory, Edit,
               EditRuntime, EditUndo,
           EditUndoRuntime, Save, SaveFirewall, SaveUndo, fenceFile
        <3>2. QED
            BY <3>1, <1>2, <1>3, <1>4, <1>5, <1>6, <1>7, <1>8
    <2>2. CASE Requests
        <3>1. UNCHANGED fenceFile
            BY <2>2, RequestFields
            DEF Requests, Submit, SetAuthorization, SubmitStart, SubmitStop
        <3>2. QED
            BY <3>1, <1>2
    <2>3. CASE Environment \/ Boot
        BY <2>3, <1>2, <1>9, <1>10 DEF Environment, CoreDies, OperatorStarts
    <2>4. CASE UNCHANGED vars
        BY <2>4, <1>2 DEF vars
    <2>5. QED
        BY <2>1, <2>2, <2>3, <2>4 DEF Next

LEMMA InitMaps == Init => Ledger!Init
<1> SUFFICES ASSUME Init PROVE Ledger!Init
    OBVIOUS
<1>1. sidecar \in [Tags -> Fence] /\ sidecarSynced = sidecar
    BY NullTypes DEF Init
<1>2. QED
    BY <1>1, LedgerEntries DEF Ledger!Init

(* Every behaviour of the agent, with its failed writes, crashes and power  *)
(* losses, is a behaviour of the mutation ledger.                           *)
THEOREM LedgerImplemented == Spec => ImplementsLedger
<1>1. TypeOK /\ FenceFileInv /\ [Next]_vars
        => [Ledger!Next]_<<LedgerOf(sidecar), LedgerOf(sidecarSynced)>>
    BY StepMaps
<1>2. QED
    BY <1>1, InitMaps, FenceFileCorrect, PTL
    DEF Spec, ImplementsLedger, Ledger!Spec, Ledger!ledgerVars

-----------------------------------------------------------------------------
(* The superseded remove *)

RemoveSteps ==
    UndoSteps \cup {"ensure", "cancel", "deactivate", "delete", "firewall",
                    "limiter", "complete"}

RemoveOnItsSteps == job.kind = "remove" => job.step \in RemoveSteps

LEMMA IdleDownKind == Idle.kind = "none" /\ Down.kind = "none"
BY TaskFields DEF Idle, Down

(* A handler moves along the steps of its own kind. *)
LEMMA RemoveStaysOnItsSteps ==
    ASSUME TypeOK, RemoveOnItsSteps, [Next]_vars
    PROVE  RemoveOnItsSteps'
<1>0. job \in Job
    BY DEF TypeOK
<1>1. ASSUME Finish PROVE RemoveOnItsSteps'
    BY <1>1, IdleDownKind DEF Finish, RemoveOnItsSteps
<1>2. ASSUME NEW step \in RemoveSteps, Goto(step) PROVE RemoveOnItsSteps'
    BY <1>0, <1>2, GotoFields DEF RemoveOnItsSteps
<1>3. ASSUME NEW step, Goto(step), job.kind /= "remove" PROVE RemoveOnItsSteps'
    BY <1>0, <1>3, GotoFields DEF RemoveOnItsSteps
<1>4. CASE Ensure
    <2>1. CASE job.kind = "remove"
        <3>1. FirstStep(job.kind) \in RemoveSteps
            BY <2>1 DEF FirstStep, RemoveSteps
        <3>2. QED
            BY <1>1, <1>2, <1>4, <3>1 DEF Ensure
    <2>2. CASE job.kind /= "remove"
        BY <1>1, <1>3, <1>4, <2>2 DEF Ensure
    <2>3. QED
        BY <2>1, <2>2
<1>5. CASE Reserve \/ Unreserve \/ Persist \/ Activate \/ Commit \/ Release
    <2>1. job.kind /= "remove"
        BY <1>5 DEF Reserve, Unreserve, Persist, Activate, Commit, Release,
           RemoveOnItsSteps, RemoveSteps, UndoSteps
    <2>2. job'.kind \in {"none", job.kind}
        <3>1. CASE Reserve
            BY <1>0, <3>1, IdleDownKind DEF Reserve, Finish, Job
        <3>2. CASE Unreserve \/ Persist \/ Activate \/ Commit \/ Release
            BY <1>0, <3>2, GotoFields, IdleDownKind
            DEF Unreserve, Persist, Activate, Commit, Release, Finish
        <3>3. QED
            BY <1>5, <3>1, <3>2
    <2>3. QED
        BY <2>1, <2>2 DEF RemoveOnItsSteps
<1>6. CASE Cancel \/ Deactivate \/ Delete \/ ClearLimiter \/ Complete
    <2>1. CASE Cancel
        <3>1. CASE Finish
            BY <1>1, <3>1
        <3>2. CASE job' = [job EXCEPT !.step = "deactivate", !.prev = config]
            BY <1>0, <3>2 DEF RemoveOnItsSteps, RemoveSteps, Job
        <3>3. QED
            BY <2>1, <3>1, <3>2 DEF Cancel
    <2>2. CASE Deactivate \/ Delete \/ ClearLimiter \/ Complete
        <3>1. \/ Finish
              \/ \E step \in {"delete", "firewall", "undoConfig", "complete"} : Goto(step)
            BY <2>2 DEF Deactivate, Delete, ClearLimiter, Complete
        <3>2. {"delete", "firewall", "undoConfig", "complete"} \subseteq RemoveSteps
            BY DEF RemoveSteps, UndoSteps
        <3>3. QED
            BY <1>1, <1>2, <3>1, <3>2
    <2>3. QED
        BY <1>6, <2>1, <2>2
<1>7. CASE Firewall \/ UndoConfig \/ UndoRuntime \/ UndoFirewall
    <2>1. CASE Firewall
        <3>1. PICK good \in BOOLEAN :
                Goto(IF ~good THEN "undoConfig"
                     ELSE IF job.kind = "add" THEN "activate" ELSE "limiter")
            BY <2>1 DEF Firewall
        <3>2. QED
            BY <1>2, <1>3, <3>1 DEF RemoveSteps, UndoSteps
    <2>2. CASE UndoConfig \/ UndoRuntime
        BY <1>0, <2>2
        DEF UndoConfig, UndoRuntime, RemoveOnItsSteps, RemoveSteps, UndoSteps, Job
    <2>3. CASE UndoFirewall
        <3>1. PICK uncertain : AfterUndo(uncertain)
            BY <2>3 DEF UndoFirewall
        <3>2. QED
            BY <1>1, <1>3, <3>1 DEF AfterUndo
    <2>4. QED
        BY <1>7, <2>1, <2>2, <2>3
<1>8. CASE \/ Recover \/ Converge \/ OpenFirewall \/ Resolve
           \/ Authorize \/ StartXray \/ StopXray
           \/ ReadInventory \/ Edit \/ EditRuntime \/ EditUndo \/ EditUndoRuntime
           \/ Save \/ SaveFirewall \/ SaveUndo
    <2>1. job.kind /= "remove"
        BY <1>8 DEF Recover, Converge, OpenFirewall, Resolve, Authorize, StartXray,
           StopXray, ReadInventory, Edit, EditRuntime, EditUndo,
           EditUndoRuntime, Save, SaveFirewall, SaveUndo,
           RemoveOnItsSteps, RemoveSteps, UndoSteps
    <2>2. job'.kind \in {"none", "auth", job.kind}
        <3>1. \A good : AfterRecovery(good) => job'.kind \in {"none", "auth", job.kind}
            BY <1>0, GotoFields, TaskFields, IdleDownKind
            DEF AfterRecovery, Grant, Finish
        <3>2. CASE Recover \/ Converge \/ OpenFirewall \/ Resolve
            BY <1>0, <3>1, <3>2, GotoFields DEF Recover, Converge, OpenFirewall, Resolve
        <3>3. CASE Authorize \/ StartXray \/ StopXray \/ ReadInventory
            BY <1>0, <3>3, GotoFields, IdleDownKind
            DEF Authorize, StartXray, StopXray, ReadInventory, Finish
        <3>4. CASE \/ Edit \/ EditRuntime \/ EditUndo \/ EditUndoRuntime
                   \/ SaveFirewall \/ SaveUndo
            BY <1>0, <3>4, GotoFields, IdleDownKind
            DEF Edit, EditRuntime, EditUndo, EditUndoRuntime, SaveFirewall, SaveUndo,
                Finish, Job
        <3>5. CASE Save
            BY <1>0, <3>5, IdleDownKind DEF Save, Job
        <3>6. QED
            BY <1>8, <3>2, <3>3, <3>4, <3>5
    <2>3. QED
        BY <2>1, <2>2 DEF RemoveOnItsSteps
<1>9. CASE Requests
    <2>1. CASE Submit
        <3>1. PICK kind, t, m : Request(kind, t, m, "ensure")
            BY <2>1 DEF Submit
        <3>2. job'.step = "ensure"
            BY <3>1, RequestFields
        <3>3. QED
            BY <3>2 DEF RemoveOnItsSteps, RemoveSteps
    <2>2. CASE SetAuthorization \/ SubmitStart \/ SubmitStop
        <3>1. \A t, m, step : Request("auth", t, m, step) \/ Request("stop", t, m, step)
                => job'.kind \in {"auth", "stop"}
            BY DEF Request, Task
        <3>2. job'.kind \in {"auth", "start", "stop"}
            BY <2>2, <3>1, TaskFields DEF SetAuthorization, SubmitStart, SubmitStop
        <3>3. QED
            BY <3>2 DEF RemoveOnItsSteps
    <2>3. QED
        BY <1>9, <2>1, <2>2 DEF Requests
<1>10. CASE Environment \/ Boot
    <2>1. job' = job \/ job' = Down \/ job'.kind = "boot"
        BY <1>10, TaskFields DEF Environment, CoreDies, OperatorStarts, Crash, Boot
    <2>2. QED
        BY <2>1, IdleDownKind DEF RemoveOnItsSteps
<1>11. CASE UNCHANGED vars
    BY <1>11 DEF vars, RemoveOnItsSteps
<1>12. QED
    BY <1>4, <1>5, <1>6, <1>7, <1>8, <1>9, <1>10, <1>11 DEF Next, Progress

LEMMA SupersededStep ==
    ASSUME TypeOK, FenceFileInv, RemoveOnItsSteps, [Next]_vars,
           job.kind = "remove", job' /= job, job' /= Down,
           sidecar[job.tag].owner \notin {NoId, job.id}
    PROVE  UNCHANGED <<config, runtime>>
<1>1. job.step \in {"ensure", "cancel"}
    BY DEF FenceFileInv, RemoveIsCancelled, RemoveOnItsSteps, RemoveSteps
<1>2. CASE Progress
    <2>1. Ensure \/ Cancel
        BY <1>1, <1>2 DEF Progress, Ensure, Cancel, Reserve, Unreserve, Persist, Firewall,
           Activate, Commit, Deactivate, Delete, ClearLimiter, Complete, UndoConfig,
           UndoRuntime, UndoFirewall, Release, Recover, Converge, OpenFirewall, Resolve,
           Authorize, StartXray, StopXray, ReadInventory, Edit, EditRuntime, EditUndo,
           EditUndoRuntime, Save,
           SaveFirewall, SaveUndo
    <2>2. QED
        BY <2>1 DEF Ensure, Cancel, configFile, xray
<1>3. CASE Requests
    <2>1. job = Idle
        BY <1>3, RequestFields DEF Requests, Submit, SetAuthorization, SubmitStart,
                                   SubmitStop
    <2>2. QED
        BY <2>1, IdleDownKind
<1>4. CASE Boot
    BY <1>4, IdleDownKind DEF Boot
<1>5. QED
    BY <1>2, <1>3, <1>4
    DEF Next, Environment, CoreDies, OperatorStarts, Crash, vars

(* A remove that a newer owner has overtaken changes nothing, at any step.  *)
THEOREM SupersededRemoveIsHarmless == Spec => SupersededRemoveTouchesNothing
<1>1. Init => RemoveOnItsSteps
    BY IdleDownKind DEF Init, RemoveOnItsSteps
<1>2. Spec => []RemoveOnItsSteps
    BY <1>1, InitType, NextType, RemoveStaysOnItsSteps, PTL DEF Spec
<1>3. TypeOK /\ FenceFileInv /\ RemoveOnItsSteps /\ [Next]_vars
        => [ job.kind = "remove" /\ job' /= job /\ job' /= Down
             /\ sidecar[job.tag].owner \notin {NoId, job.id}
             => UNCHANGED <<config, runtime>> ]_vars
    BY SupersededStep
<1>4. QED
    BY <1>2, <1>3, FenceFileCorrect, PTL DEF Spec, SupersededRemoveTouchesNothing

=============================================================================
