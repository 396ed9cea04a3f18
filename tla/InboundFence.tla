---------------------------- MODULE InboundFence ----------------------------
(***************************************************************************)
(* The inbound mutation fence of the agent: how an add or a remove of an   *)
(* Xray inbound, identified by a mutation id, is carried through the fence *)
(* sidecar (a write-ahead log beside the agent configuration), the durable *)
(* Xray configuration, the port firewall and the live Xray runtime, and    *)
(* how an interrupted one is converged afterwards                          *)
(* (inbound_mutation_fence.go, inbound_firewall_sync.go and the handlers   *)
(* of management_handler.go that run under inboundsMu).                    *)
(*                                                                         *)
(* One handler holds inboundsMu from its first to its last step; job is    *)
(* the handler that holds it.  Each file write, runtime call and firewall  *)
(* run is a step of its own, so a crash falls between any two of them, and *)
(* each may fail.  A write of an atomically replaced file has three        *)
(* outcomes: "ok"; "lost", an error that left the old file in place; and   *)
(* "unsynced", an error after the rename, when the new file is in place    *)
(* but its directory entry was not synchronised.                           *)
(***************************************************************************)
EXTENDS Naturals, FiniteSets

CONSTANTS
    Tags,           \* inbound tags
    Ids,            \* mutation ids the control plane issues
    NoId,           \* the empty mutation id, and the empty owner
    Bodies,         \* digests of inbound definitions
    Absent,         \* the digest of no inbound
    Payload,        \* Payload[m]: the definition the add with id m carries
    OperatorBodies, \* what a whole-configuration save may put in for a tag
    EditBodies,     \* what a client edit may turn a definition into
    Nobody,         \* writer of the empty definition
    Operator,       \* writer of a whole-configuration save
    Embedded,       \* TRUE: Xray runs inside the agent; FALSE: a service
    Kinds,          \* the kinds of request this instance issues
    PowerLossToo,   \* TRUE: a crash may also lose unsynchronised renames
    MaxRequests, MaxFaults, MaxCrashes  \* bounds of the environment

ASSUME ConstantsAssumption ==
    /\ Tags /= {}
    /\ NoId \notin Ids
    /\ Absent \notin Bodies
    /\ Payload \in [Ids \cup {NoId} -> Bodies]
    /\ OperatorBodies \subseteq Bodies \cup {Absent}
    /\ EditBodies \subseteq Bodies
    /\ {Nobody, Operator} \cap (Ids \cup {NoId}) = {} /\ Nobody /= Operator
    /\ Embedded \in BOOLEAN /\ PowerLossToo \in BOOLEAN
    /\ MaxRequests \in Nat /\ MaxFaults \in Nat /\ MaxCrashes \in Nat

VARIABLES
    sidecar,        \* the fence file as the file system shows it
    sidecarSynced,  \* the fence file a power loss falls back to at worst
    config,         \* the Xray configuration's inbounds, by tag
    configSynced,   \* the same after a power loss, at worst
    firewallSynced, \* the firewall helper last ran, well, on this config
    fences,         \* h.inboundMutationFences
    ready,          \* h.inboundMutationRecoveryReady
    authorized,     \* h.xrayAuthorized, persisted with the agent config
    xrayUp,         \* the Xray core accepts runtime calls
    runtime,        \* the inbounds it serves
    job,            \* the handler that holds inboundsMu, and its next step
    seen,           \* the last inventory the control plane read, by tag
    added,          \* per tag: the last add acknowledged and not touched since
    removed,        \* <<tag, id>>: the removes acknowledged
    deferred,       \* tags whose edit was kept from the runtime
    budget          \* what the bounds leave: requests, faults, crashes

fenceFile  == <<sidecar, sidecarSynced, fences>>
configFile == <<config, configSynced, firewallSynced>>
xray       == <<xrayUp, runtime>>
history    == <<seen, added, removed, deferred>>
vars == <<fenceFile, configFile, xray, history, ready, authorized, job, budget>>

-----------------------------------------------------------------------------
(* The data. An inbound definition remembers who wrote it; the code sees   *)
(* only its digest, the body. The empty owner is NoId, as in the code.     *)

Writers == Ids \cup {NoId, Nobody, Operator}
Inbound == [by: Writers, body: Bodies \cup {Absent}]
NoInbound == [by |-> Nobody, body |-> Absent]

Pending == [owner: Ids \cup {NoId}, intended: Bodies \cup {Absent},
            prevOwner: Ids \cup {NoId}, prevBody: Bodies \cup {Absent}]
NoPending == [owner |-> NoId, intended |-> Absent,
              prevOwner |-> NoId, prevBody |-> Absent]

Fence == [owner: Ids \cup {NoId}, canceled: SUBSET Ids, pending: Pending]
NoFence == [owner |-> NoId, canceled |-> {}, pending |-> NoPending]

NoConfig == [t \in Tags |-> NoInbound]
Outcomes == {"ok", "lost", "unsynced"}

Steps == {"down", "idle", "ensure",
          "reserve", "unreserve", "persist", "firewall", "activate", "commit",
          "cancel", "deactivate", "delete", "limiter", "complete",
          "undoConfig", "undoRuntime", "undoFirewall", "release",
          "start", "stop", "recover", "converge", "openFirewall", "resolve",
          "authorize", "inventory", "edit", "editRuntime", "editUndo", "editUndoRuntime",
          "save", "saveFirewall", "saveUndo", "saveRefirewall"}

JobKinds == {"none", "boot", "add", "remove", "save", "edit", "list",
             "auth", "start", "stop"}

(* prev is the configuration snapshot and saved the fence entry the         *)
(* handler would restore; of an undo, restored tells that the config write  *)
(* succeeded and uncertain that some part of it did not.                    *)
Job == [step: Steps, kind: JobKinds, tag: Tags, id: Ids \cup {NoId},
        conditional: BOOLEAN, prev: [Tags -> Inbound], saved: Fence,
        restored: BOOLEAN, uncertain: BOOLEAN]

AnyTag == CHOOSE t \in Tags : TRUE

Task(kind, t, m, step) ==
    [step |-> step, kind |-> kind, tag |-> t, id |-> m, conditional |-> FALSE,
     prev |-> NoConfig, saved |-> NoFence,
     restored |-> FALSE, uncertain |-> FALSE]

Idle == Task("none", AnyTag, NoId, "idle")
Down == Task("none", AnyTag, NoId, "down")

Goto(step) == job' = [job EXCEPT !.step = step]
Finish == job' = Idle

-----------------------------------------------------------------------------
(* Faults and file writes *)

(* A step that goes wrong spends a fault. *)
Blame(good) ==
    IF good THEN UNCHANGED budget
            ELSE /\ budget.faults > 0
                 /\ budget' = [budget EXCEPT !.faults = @ - 1]

(* Mutant: the memory copy ignores a write that was applied but not synced. *)
PersistFencesForgetful(candidate, outcome) ==
    /\ Blame(outcome = "ok")
    /\ sidecar' = IF outcome = "lost" THEN sidecar ELSE candidate
    /\ sidecarSynced' = IF outcome = "ok" THEN candidate ELSE sidecarSynced
    /\ fences' = IF outcome = "ok" THEN candidate ELSE fences

(* The memory copy follows the file unless the write left the old one in    *)
(* place: inboundMutationFenceWriteApplied tells the two errors apart.      *)
PersistFences(candidate, outcome) ==
    /\ Blame(outcome = "ok")
    /\ sidecar' = IF outcome = "lost" THEN sidecar ELSE candidate
    /\ sidecarSynced' = IF outcome = "ok" THEN candidate ELSE sidecarSynced
    /\ fences' = IF outcome = "lost" THEN fences ELSE candidate

WriteConfig(candidate, outcome) ==
    /\ Blame(outcome = "ok")
    /\ config' = IF outcome = "lost" THEN config ELSE candidate
    /\ configSynced' = IF outcome = "ok" THEN candidate ELSE configSynced
    /\ firewallSynced' = (firewallSynced /\ config' = config)

(* os.WriteFile and an unsynchronised rename: in place, not yet durable. *)
WriteConfigUnsynced(candidate, good) ==
    /\ Blame(good)
    /\ config' = IF good THEN candidate ELSE config
    /\ UNCHANGED configSynced
    /\ firewallSynced' = (firewallSynced /\ config' = config)

ReconcileFirewall(good) ==
    /\ Blame(good)
    /\ firewallSynced' = good
    /\ UNCHANGED <<config, configSynced>>

-----------------------------------------------------------------------------
(* The live runtime *)

Serves(t) == runtime[t].body /= Absent
Loaded(i) == IF i.body = Absent THEN NoInbound ELSE i

(* A failed runtime call may have had any part of its effect. A core that   *)
(* is down fails every call, which costs no fault.                          *)
RuntimeAdd(t, inbound, good) ==
    /\ UNCHANGED xrayUp
    /\ IF good
       THEN xrayUp /\ runtime' = [runtime EXCEPT ![t] = inbound] /\ UNCHANGED budget
       ELSE IF xrayUp
            THEN /\ Blame(FALSE)
                 /\ \E now \in {runtime[t], NoInbound, inbound} :
                        runtime' = [runtime EXCEPT ![t] = now]
            ELSE UNCHANGED <<runtime, budget>>

RuntimeRemove(t, good) == RuntimeAdd(t, NoInbound, good)

HasPending(f, t) == f[t].pending /= NoPending
AnyPending(f) == \E t \in Tags : HasPending(f, t)

(* isManagedInboundTagLocked *)
Managed(f, t) == f[t].owner /= NoId \/ HasPending(f, t)

(* Mutant: an edit reaches the runtime whatever the authorization. *)
NeverKeptFromRuntime(t) == FALSE

(* replaceRuntimeInbound: an edit of a suspended inbound stays on disk. *)
KeptFromRuntime(t) == ~authorized /\ Managed(fences, t)

ReplaceRuntime(t, inbound, good) ==
    IF KeptFromRuntime(t)
    THEN good /\ UNCHANGED <<xray, budget>>
    ELSE RuntimeAdd(t, inbound, good)

-----------------------------------------------------------------------------
(* Pending mutations: the durable configuration decides which way they went *)

(* Mutant: only a mutation that reached the configuration can be resolved. *)
ResolvableForwardOnly(f, t) ==
    /\ f[t].pending.prevOwner = f[t].owner
    /\ config[t].body = f[t].pending.intended

Resolvable(f, t) ==
    /\ f[t].pending.prevOwner = f[t].owner
    /\ config[t].body \in {f[t].pending.intended, f[t].pending.prevBody}

AllResolvable(f) == \A t \in Tags : HasPending(f, t) => Resolvable(f, t)

(* Mutant: a pending mutation is always rolled forward. *)
RolledForwardEntry(f, t) ==
    IF ~HasPending(f, t) THEN f[t]
    ELSE [f[t] EXCEPT !.pending = NoPending, !.owner = f[t].pending.owner]

ResolvedEntry(f, t) ==
    IF ~HasPending(f, t) THEN f[t]
    ELSE [f[t] EXCEPT
            !.pending = NoPending,
            !.owner = IF config[t].body = f[t].pending.intended
                      THEN f[t].pending.owner ELSE f[t].pending.prevOwner]

Resolved(f) == [t \in Tags |-> ResolvedEntry(f, t)]

-----------------------------------------------------------------------------
(* Requests and the ensure step every handler starts with *)

Request(kind, t, m, step) ==
    /\ job = Idle
    /\ kind \in Kinds
    /\ budget.requests > 0
    /\ budget' = [budget EXCEPT !.requests = @ - 1]
    /\ \E c \in (IF kind = "add" /\ m /= NoId /\ "list" \in Kinds
                 THEN BOOLEAN ELSE {FALSE}) :
            job' = [Task(kind, t, m, step) EXCEPT !.conditional = c]
    /\ UNCHANGED <<fenceFile, configFile, xray, ready, seen, removed, deferred>>

(* manageInbound, setXrayConfig and listInbounds: any add, remove, client   *)
(* edit, whole-configuration save or inventory read, in any order, any      *)
(* number of times, whatever was asked before.                              *)
Submit ==
    /\ UNCHANGED authorized
    /\ \/ \E t \in Tags, m \in Ids \cup {NoId}, kind \in {"add", "remove"} :
            /\ Request(kind, t, m, "ensure")
            /\ added' = [added EXCEPT ![t] = NoId]
       \/ \E t \in Tags, kind \in {"edit", "list"} :
            Request(kind, t, NoId, "ensure") /\ UNCHANGED added
       \/ /\ Request("save", AnyTag, NoId, "ensure")
          /\ added' = [t \in Tags |-> NoId]

FirstStep(kind) ==
    CASE kind = "add" -> "reserve"
      [] kind = "remove" -> "cancel"
      [] kind = "edit" -> "edit"
      [] kind = "save" -> "save"
      [] kind = "list" -> "inventory"
      [] OTHER -> "idle"

(* Mutant: a handler waits only for a pending mutation of its own tag. *)
EnsureOwnTag ==
    /\ job.step = "ensure"
    /\ IF HasPending(fences, job.tag) THEN Finish ELSE Goto(FirstStep(job.kind))
    /\ UNCHANGED <<fenceFile, budget>>
    /\ UNCHANGED <<configFile, xray, history, ready, authorized>>

(* ensureInboundMutationFencesLocked: nothing is done while a pending       *)
(* mutation waits for the runtime; one that has converged is resolved       *)
(* before the handler goes on.                                              *)
Ensure ==
    /\ job.step = "ensure"
    /\ \/ /\ ~AnyPending(fences)
          /\ Goto(FirstStep(job.kind))
          /\ UNCHANGED <<fenceFile, budget>>
       \/ /\ AnyPending(fences)
          /\ ~ready \/ ~AllResolvable(fences)
          /\ Finish
          /\ UNCHANGED <<fenceFile, budget>>
       \/ /\ AnyPending(fences) /\ ready /\ AllResolvable(fences)
          /\ \E o \in Outcomes :
                /\ PersistFences(Resolved(fences), o)
                /\ IF o = "ok" THEN Goto(FirstStep(job.kind)) ELSE Finish
    /\ UNCHANGED <<configFile, xray, history, ready, authorized>>

-----------------------------------------------------------------------------
(* add: reserve, persist, firewall, activate, commit *)

(* Mutant: the digest of a conditional replacement is not compared. *)
ExpectedOwnerOnly(t) ==
    /\ fences[t].owner = seen[t].owner
    /\ config[t].body /= Absent

(* The expected owner and digest of a conditional replacement are the ones  *)
(* the control plane last read.                                             *)
Expected(t) ==
    /\ fences[t].owner = seen[t].owner
    /\ config[t].body /= Absent
    /\ config[t].body = seen[t].body

(* Mutant: a cancelled mutation is admitted like any other. *)
AdmittedThoughCanceled(t, m) ==
    /\ authorized \/ m = NoId
    /\ job.conditional => Expected(t)
    /\ m = NoId => fences[t].owner = NoId /\ fences[t].canceled = {}

(* manageInbound and beginInboundAddMutationLocked *)
Admitted(t, m) ==
    /\ authorized \/ m = NoId
    /\ job.conditional => Expected(t)
    /\ IF m = NoId
       THEN fences[t].owner = NoId /\ fences[t].canceled = {}
       ELSE m \notin fences[t].canceled

(* Mutant: the reservation does not record the definition it replaces. *)
ReservedWithoutPrevious(t, m) ==
    [fences EXCEPT ![t].pending =
        [owner |-> m, intended |-> Payload[m],
         prevOwner |-> fences[t].owner, prevBody |-> Absent]]

Reserved(t, m) ==
    [fences EXCEPT ![t].pending =
        [owner |-> m, intended |-> Payload[m],
         prevOwner |-> fences[t].owner, prevBody |-> config[t].body]]

Reserve ==
    /\ job.step = "reserve"
    /\ UNCHANGED <<configFile, xray, history, ready, authorized>>
    /\ LET t == job.tag
           m == job.id
           begun == [job EXCEPT !.prev = config, !.saved = fences[t]]
       IN \/ ~Admitted(t, m) /\ Finish /\ UNCHANGED <<fenceFile, budget>>
          \/ /\ Admitted(t, m) /\ m = NoId
             /\ job' = [begun EXCEPT !.step = "persist"]
             /\ UNCHANGED <<fenceFile, budget>>
          \/ /\ Admitted(t, m) /\ m /= NoId
             /\ \E o \in Outcomes :
                  /\ PersistFences(Reserved(t, m), o)
                  /\ \/ o = "ok" /\ job' = [begun EXCEPT !.step = "persist"]
                     \/ o = "unsynced" /\ job' = [begun EXCEPT !.step = "unreserve"]
                     \/ o = "lost" /\ Finish

(* The entry as it was before the reservation. *)
Withdrawn == [fences EXCEPT ![job.tag] = job.saved]

(* A reservation that may not be durable is taken back before the request   *)
(* is refused.                                                              *)
Unreserve ==
    /\ job.step = "unreserve"
    /\ \E o \in Outcomes : PersistFences(Withdrawn, o)
    /\ Finish
    /\ UNCHANGED <<configFile, xray, history, ready, authorized>>

(* persistInboundAtPath *)
Persist ==
    /\ job.step = "persist"
    /\ \E o \in Outcomes :
          /\ WriteConfig([config EXCEPT ![job.tag] =
                            [by |-> job.id, body |-> Payload[job.id]]], o)
          /\ Goto(IF o = "ok" THEN "firewall" ELSE "undoConfig")
    /\ UNCHANGED <<fenceFile, xray, history, ready, authorized>>

(* Mutant: a firewall failure does not stop the mutation. *)
FirewallIgnored ==
    /\ job.step = "firewall"
    /\ \E good \in BOOLEAN :
          /\ ReconcileFirewall(good)
          /\ Goto(IF job.kind = "add" THEN "activate" ELSE "limiter")
    /\ UNCHANGED <<fenceFile, xray, history, ready, authorized>>

(* reconcileInboundFirewall, after an add's or a remove's config write *)
Firewall ==
    /\ job.step = "firewall"
    /\ \E good \in BOOLEAN :
          /\ ReconcileFirewall(good)
          /\ Goto(IF ~good THEN "undoConfig"
                  ELSE IF job.kind = "add" THEN "activate" ELSE "limiter")
    /\ UNCHANGED <<fenceFile, xray, history, ready, authorized>>

(* addInbound, or the embedded core's RemoveInbound and AddInbound *)
Activate ==
    /\ job.step = "activate"
    /\ \E good \in BOOLEAN :
          /\ RuntimeAdd(job.tag, config[job.tag], good)
          /\ IF ~good THEN Goto("undoConfig")
             ELSE IF job.id = NoId THEN Finish ELSE Goto("commit")
    /\ UNCHANGED <<fenceFile, configFile, history, ready, authorized>>

Committed(t, m) ==
    [fences EXCEPT ![t].owner = m, ![t].pending = NoPending]

(* Mutant: a commit that is in place but not synced is acknowledged. *)
AppliedIsEnough(outcome) == outcome /= "lost"

(* Success is reported only for a write that reached the disk.              *)
Acknowledged(outcome) == outcome = "ok"

(* commitInboundMutationLocked: the acknowledgement of an add *)
Commit ==
    /\ job.step = "commit"
    /\ LET t == job.tag
           m == job.id
           current == /\ HasPending(fences, t) /\ fences[t].pending.owner = m
                      /\ config[t].body = fences[t].pending.intended
       IN \/ ~current /\ UNCHANGED <<fenceFile, added, budget>>
          \/ /\ current
             /\ \E o \in Outcomes :
                  /\ PersistFences(Committed(t, m), o)
                  /\ added' = IF Acknowledged(o) THEN [added EXCEPT ![t] = m] ELSE added
    /\ Finish
    /\ UNCHANGED <<configFile, xray, seen, removed, deferred, ready, authorized>>

-----------------------------------------------------------------------------
(* remove: cancel, deactivate, delete, firewall, limiter, complete *)

(* Mutant: the cancellation is not recorded. *)
CancelledNowhere(t, m) == fences

Cancelled(t, m) == [fences EXCEPT ![t].canceled = @ \cup {m}]

(* Mutant: a remove is carried out whoever owns the tag now. *)
NeverSuperseded(t, m) == FALSE

Superseded(t, m) == fences[t].owner /= NoId /\ fences[t].owner /= m

(* beginInboundMutationLocked: the cancellation is recorded before anything *)
(* is touched; a remove that a newer owner has overtaken touches nothing.   *)
Cancel ==
    /\ job.step = "cancel"
    /\ UNCHANGED <<configFile, xray, seen, added, deferred, ready, authorized>>
    /\ LET t == job.tag
           m == job.id
           go == job' = [job EXCEPT !.step = "deactivate", !.prev = config]
       IN \/ /\ m = NoId
             /\ IF fences[t].owner = NoId THEN go ELSE Finish
             /\ UNCHANGED <<fenceFile, removed, budget>>
          \/ /\ m /= NoId
             /\ \E o \in Outcomes :
                  /\ PersistFences(Cancelled(t, m), o)
                  /\ IF o /= "ok" THEN Finish /\ UNCHANGED removed
                     ELSE IF Superseded(t, m)
                          THEN Finish /\ removed' = removed \cup {<<t, m>>}
                          ELSE go /\ UNCHANGED removed

(* Mutant: the remove goes on when the runtime did not answer. *)
DeactivateAnyway ==
    /\ job.step = "deactivate"
    /\ \E good \in BOOLEAN : RuntimeRemove(job.tag, good)
    /\ Goto("delete")
    /\ UNCHANGED <<fenceFile, configFile, history, ready, authorized>>

(* removeInbound: only "not found" counts as removed *)
Deactivate ==
    /\ job.step = "deactivate"
    /\ \E good \in BOOLEAN :
          /\ RuntimeRemove(job.tag, good)
          /\ IF good THEN Goto("delete") ELSE Finish
    /\ UNCHANGED <<fenceFile, configFile, history, ready, authorized>>

(* removeInboundFromConfigAtPath *)
Delete ==
    /\ job.step = "delete"
    /\ \E o \in Outcomes :
          /\ WriteConfig([config EXCEPT ![job.tag] = NoInbound], o)
          /\ Goto(IF o = "ok" THEN "firewall" ELSE "undoConfig")
    /\ UNCHANGED <<fenceFile, xray, history, ready, authorized>>

(* clearRemovedWireGuardLimiterState *)
ClearLimiter ==
    /\ job.step = "limiter"
    /\ \E good \in BOOLEAN :
          Blame(good) /\ Goto(IF good THEN "complete" ELSE "undoConfig")
    /\ UNCHANGED <<fenceFile, configFile, xray, history, ready, authorized>>

Released(t) == [fences EXCEPT ![t].owner = NoId]

(* completeInboundMutationRemovalLocked: the acknowledgement of a remove *)
Complete ==
    /\ job.step = "complete"
    /\ Finish
    /\ UNCHANGED <<configFile, xray, seen, added, deferred, ready, authorized>>
    /\ LET t == job.tag
           m == job.id
           owned == fences[t].owner /= NoId /\ m \in {NoId, fences[t].owner}
           ack == removed' = IF m = NoId THEN removed ELSE removed \cup {<<t, m>>}
       IN \/ ~owned /\ ack /\ UNCHANGED <<fenceFile, budget>>
          \/ /\ owned
             /\ \E o \in Outcomes :
                  /\ PersistFences(Released(t), o)
                  /\ IF o = "ok" THEN ack ELSE UNCHANGED removed

-----------------------------------------------------------------------------
(* The undo of a failed add or remove (rollbackExternalInboundMutation,     *)
(* rollbackEmbeddedInboundMutation): configuration, runtime, firewall, each *)
(* tried whatever became of the one before.                                 *)

UndoConfig ==
    /\ job.step = "undoConfig"
    /\ \E o \in Outcomes :
          /\ WriteConfig(job.prev, o)
          /\ job' = [job EXCEPT !.step = "undoRuntime",
                                !.restored = (o = "ok"), !.uncertain = (o /= "ok")]
    /\ UNCHANGED <<fenceFile, xray, history, ready, authorized>>

(* Only the embedded undo of a replaced inbound goes through                *)
(* replaceRuntimeInbound, which keeps a suspended inbound off the runtime.  *)
RestoreRuntime(t, inbound, good) ==
    IF Embedded /\ inbound.body /= Absent
    THEN ReplaceRuntime(t, inbound, good)
    ELSE RuntimeAdd(t, Loaded(inbound), good)

UndoRuntime ==
    /\ job.step = "undoRuntime"
    /\ \E good \in BOOLEAN :
          /\ RestoreRuntime(job.tag, job.prev[job.tag], good)
          /\ job' = [job EXCEPT !.step = "undoFirewall",
                                !.uncertain = @ \/ ~good]
    /\ UNCHANGED <<fenceFile, configFile, history, ready, authorized>>

(* applyInboundAddMutationLocked: an add whose undo is certain gives its    *)
(* reservation back; an uncertain one leaves it to recovery.                *)
AfterUndo(uncertain) ==
    IF job.kind = "remove" THEN Finish /\ UNCHANGED ready
    ELSE IF uncertain THEN Goto("recover") /\ ready' = FALSE
    ELSE /\ UNCHANGED ready
         /\ IF job.id = NoId THEN Finish ELSE Goto("release")

UndoFirewall ==
    /\ job.step = "undoFirewall"
    /\ \/ /\ ~job.restored
          /\ AfterUndo(TRUE)
          /\ UNCHANGED <<configFile, budget>>
       \/ /\ job.restored
          /\ \E good \in BOOLEAN :
                ReconcileFirewall(good) /\ AfterUndo(job.uncertain \/ ~good)
    /\ UNCHANGED <<fenceFile, xray, history, authorized>>

(* rollbackInboundMutationLocked *)
Release ==
    /\ job.step = "release"
    /\ \E o \in Outcomes : PersistFences(Withdrawn, o)
    /\ Finish
    /\ UNCHANGED <<configFile, xray, history, ready, authorized>>

-----------------------------------------------------------------------------
(* Recovery: pending mutations are converged to the runtime, then the       *)
(* firewall, and only then resolved.                                        *)

(* ApplyXrayAuthorization: a grant recovers first what is pending. *)
Grant == Task("auth", AnyTag, NoId,
              IF AnyPending(fences') THEN "recover" ELSE "authorize")

(* Where the handler goes when its recovery ends: main applies the          *)
(* authorization whatever became of it, and so tries what is left again.    *)
AfterRecovery(good) ==
    IF job.kind = "boot" THEN job' = Grant
    ELSE IF job.kind = "auth" /\ good THEN Goto("authorize") ELSE Finish

(* At boot and inside a request a stopped core is left stopped and the      *)
(* recovery deferred; after a start, and on a grant, it is known to run.    *)
NeedsRunningCore == job.kind \in {"boot", "add"}

(* Mutant: pending mutations are resolved without converging the runtime. *)
RecoverWithoutRuntime ==
    /\ job.step = "recover"
    /\ UNCHANGED <<fenceFile, configFile, xray, history, authorized, budget>>
    /\ ready' = TRUE
    /\ IF AnyPending(fences) THEN Goto("resolve") ELSE AfterRecovery(TRUE)

Recover ==
    /\ job.step = "recover"
    /\ UNCHANGED <<fenceFile, configFile, xray, history, authorized, budget>>
    /\ \/ ~AnyPending(fences) /\ ready' = TRUE /\ AfterRecovery(TRUE)
       \/ /\ AnyPending(fences)
          /\ ready' = FALSE
          /\ IF AllResolvable(fences) /\ (NeedsRunningCore => xrayUp)
             THEN Goto("converge") ELSE AfterRecovery(FALSE)

(* convergePendingInboundRuntimeLocked: each pending tag is made to serve   *)
(* what the configuration says, or nothing. It stops at the first failure.  *)
Converged(tags) ==
    [t \in Tags |-> IF t \in tags /\ ~(KeptFromRuntime(t) /\ config[t].body /= Absent)
                    THEN Loaded(config[t]) ELSE runtime[t]]

Converge ==
    /\ job.step = "converge"
    /\ UNCHANGED fenceFile
    /\ LET pending == {t \in Tags : HasPending(fences, t)}
       IN \/ /\ xrayUp
             /\ runtime' = Converged(pending)
             /\ Goto("openFirewall")
             /\ UNCHANGED budget
          \/ /\ IF xrayUp THEN Blame(FALSE) ELSE UNCHANGED budget
             /\ \E done \in SUBSET pending :
                    runtime' = IF xrayUp THEN Converged(done) ELSE runtime
             /\ AfterRecovery(FALSE)
    /\ UNCHANGED <<configFile, xrayUp, history, ready, authorized>>

OpenFirewall ==
    /\ job.step = "openFirewall"
    /\ UNCHANGED fenceFile
    /\ \E good \in BOOLEAN :
          /\ ReconcileFirewall(good)
          /\ IF good THEN Goto("resolve") /\ ready' = TRUE
                     ELSE AfterRecovery(FALSE) /\ UNCHANGED ready
    /\ UNCHANGED <<xray, history, authorized>>

(* resolvePendingInboundMutationsLocked *)
Resolve ==
    /\ job.step = "resolve"
    /\ \/ /\ AllResolvable(fences)
          /\ \E o \in Outcomes :
                PersistFences(Resolved(fences), o) /\ AfterRecovery(o = "ok")
       \/ /\ ~AllResolvable(fences)
          /\ UNCHANGED <<fenceFile, budget>> /\ AfterRecovery(FALSE)
    /\ UNCHANGED <<configFile, xray, history, ready, authorized>>

-----------------------------------------------------------------------------
(* Authorization and the life of the Xray core *)

(* ApplyXrayAuthorization *)
SetAuthorization ==
    /\ \E a \in BOOLEAN :
          /\ authorized' = a
          /\ Request("auth", AnyTag, NoId,
                     IF a /\ AnyPending(fences) THEN "recover" ELSE "authorize")
    /\ UNCHANGED added

(* applyManagedInboundAuthorizationLocked: a denial takes the managed       *)
(* inbounds off the runtime, a grant puts back those that do not run. Each  *)
(* tag is tried on its own; failed is the set that went wrong.              *)
AuthorizedRuntime(failed) ==
    [t \in Tags |->
        IF ~Managed(fences, t) \/ t \in failed THEN runtime[t]
        ELSE IF ~authorized THEN NoInbound
        ELSE IF Serves(t) THEN runtime[t] ELSE Loaded(config[t])]

Authorize ==
    /\ job.step = "authorize"
    /\ IF xrayUp
       THEN \E failed \in SUBSET {t \in Tags : Managed(fences, t)} :
                /\ Blame(failed = {})
                /\ runtime' = AuthorizedRuntime(failed)
       ELSE UNCHANGED <<runtime, budget>>
    /\ Finish
    /\ UNCHANGED <<fenceFile, configFile, xrayUp, history, ready, authorized>>

(* The embedded core is started without the suspended tags; a service loads *)
(* the whole file.                                                          *)
LoadedRuntime ==
    [t \in Tags |-> IF Embedded /\ KeptFromRuntime(t) THEN NoInbound
                    ELSE Loaded(config[t])]

(* An explicit start or restart may be asked for again and again: it costs  *)
(* no request.                                                              *)
SubmitStart ==
    /\ job = Idle
    /\ "start" \in Kinds
    /\ job' = Task("start", AnyTag, NoId, "start")
    /\ UNCHANGED <<fenceFile, configFile, xray, history, ready, authorized, budget>>

(* StartXray, RestartXray, and the embedded start at boot *)
StartXray ==
    /\ job.step = "start"
    /\ \E good \in BOOLEAN :
          /\ Blame(good)
          /\ \/ /\ xrayUp' = good
                /\ runtime' = IF good THEN LoadedRuntime ELSE NoConfig
             \/ ~good /\ ~Embedded /\ UNCHANGED xray
          /\ IF good \/ job.kind = "boot"
             THEN Goto(IF authorized THEN "recover" ELSE "authorize")
             ELSE Finish
    /\ deferred' = {}
    /\ UNCHANGED <<fenceFile, configFile, seen, added, removed, ready, authorized>>

SubmitStop ==
    /\ Request("stop", AnyTag, NoId, "stop")
    /\ UNCHANGED <<authorized, added>>

StopXray ==
    /\ job.step = "stop"
    /\ xrayUp' = FALSE /\ runtime' = NoConfig
    /\ Finish
    /\ UNCHANGED <<fenceFile, configFile, history, ready, authorized, budget>>

(* The core dies on its own; a service may also be started again by its     *)
(* supervisor or its operator, and then loads the whole file.               *)
CoreDies ==
    /\ xrayUp
    /\ budget.crashes > 0 /\ budget' = [budget EXCEPT !.crashes = @ - 1]
    /\ ~Embedded
    /\ xrayUp' = FALSE /\ runtime' = NoConfig
    /\ UNCHANGED <<fenceFile, configFile, history, ready, authorized, job>>

OperatorStarts ==
    /\ ~Embedded /\ ~xrayUp
    /\ xrayUp' = TRUE
    /\ runtime' = [t \in Tags |-> Loaded(config[t])]
    /\ deferred' = {}
    /\ UNCHANGED <<fenceFile, configFile, seen, added, removed, ready, authorized,
                   job, budget>>

-----------------------------------------------------------------------------
(* The other writers of the configuration, and the inventory *)

(* listInbounds *)
ReadInventory ==
    /\ job.step = "inventory"
    /\ seen' = [t \in Tags |-> [owner |-> fences[t].owner, body |-> config[t].body]]
    /\ Finish
    /\ UNCHANGED <<fenceFile, configFile, xray, ready, authorized, added, removed,
                   deferred, budget>>

(* manageInboundClient, manageInboundSniffingExclude: rename without a      *)
(* sync; an edit that finds its change made, or nothing to change, is the   *)
(* no-op that only retries the runtime.                                     *)
Edit ==
    /\ job.step = "edit"
    /\ \/ /\ config[job.tag].body = Absent
          /\ Finish /\ UNCHANGED <<configFile, budget>>
       \/ /\ config[job.tag].body /= Absent
          /\ \E good \in BOOLEAN, b \in EditBodies \cup {config[job.tag].body} :
                /\ WriteConfigUnsynced([config EXCEPT ![job.tag].body = b], good)
                /\ job' = IF good THEN [job EXCEPT !.step = "editRuntime", !.prev = config]
                                  ELSE Idle
    /\ UNCHANGED <<fenceFile, xray, history, ready, authorized>>

(* A failure is reported as a warning: the file has the new definition.     *)
(* Only a WireGuard peer, which needs the embedded core, is undone.         *)
EditRuntime ==
    /\ job.step = "editRuntime"
    /\ \E good \in BOOLEAN :
          /\ ReplaceRuntime(job.tag, config[job.tag], good)
          /\ Finish \/ (~good /\ Embedded /\ Goto("editUndo"))
    /\ deferred' = IF KeptFromRuntime(job.tag) THEN deferred \cup {job.tag} ELSE deferred
    /\ UNCHANGED <<fenceFile, configFile, seen, added, removed, ready, authorized>>

(* rollbackWireGuardClientMutation: both are tried. *)
EditUndo ==
    /\ job.step = "editUndo"
    /\ \E o \in Outcomes : WriteConfig(job.prev, o)
    /\ Goto("editUndoRuntime")
    /\ UNCHANGED <<fenceFile, xray, history, ready, authorized>>

EditUndoRuntime ==
    /\ job.step = "editUndoRuntime"
    /\ \E good \in BOOLEAN : ReplaceRuntime(job.tag, job.prev[job.tag], good)
    /\ Finish
    /\ UNCHANGED <<fenceFile, configFile, history, ready, authorized>>

SavedInbounds(t) == {config[t]} \cup [by: {Operator}, body: OperatorBodies]

(* setXrayConfig: os.WriteFile, then the firewall; the runtime keeps what   *)
(* it serves until it is restarted.                                         *)
Save ==
    /\ job.step = "save"
    /\ \E good \in BOOLEAN, new \in [Tags -> UNION {SavedInbounds(t) : t \in Tags}] :
          /\ \A t \in Tags : new[t] \in SavedInbounds(t)
          /\ WriteConfigUnsynced(new, good)
          /\ job' = IF good THEN [job EXCEPT !.step = "saveFirewall", !.prev = config]
                            ELSE Idle
    /\ UNCHANGED <<fenceFile, xray, history, ready, authorized>>

SaveFirewall ==
    /\ job.step \in {"saveFirewall", "saveRefirewall"}
    /\ \E good \in BOOLEAN :
          /\ ReconcileFirewall(good)
          /\ IF good \/ job.step = "saveRefirewall" THEN Finish ELSE Goto("saveUndo")
    /\ UNCHANGED <<fenceFile, xray, history, ready, authorized>>

SaveUndo ==
    /\ job.step = "saveUndo"
    /\ \E o \in Outcomes :
          /\ WriteConfig(job.prev, o)
          /\ IF o = "ok" THEN Goto("saveRefirewall") ELSE Finish
    /\ UNCHANGED <<fenceFile, xray, history, ready, authorized>>

-----------------------------------------------------------------------------
(* Crash and boot *)

(* The agent dies between two steps, taking the embedded core with it. A    *)
(* power loss (with a service core too: the host goes down) may also lose   *)
(* every rename and write that was not synchronised, file by file.          *)
Crash ==
    /\ job.step /= "down"
    /\ budget.crashes > 0 /\ budget' = [budget EXCEPT !.crashes = @ - 1]
    /\ job' = Down
    /\ \/ /\ UNCHANGED <<fenceFile, configFile>>
          /\ IF Embedded THEN xrayUp' = FALSE /\ runtime' = NoConfig
                         ELSE UNCHANGED xray
       \/ /\ PowerLossToo
          /\ sidecar' \in {sidecar, sidecarSynced} /\ sidecarSynced' = sidecar'
          /\ config' \in {config, configSynced} /\ configSynced' = config'
          /\ firewallSynced' = (firewallSynced /\ config' = config)
          /\ UNCHANGED fences
          /\ xrayUp' = FALSE /\ runtime' = NoConfig
    /\ UNCHANGED <<history, ready, authorized>>

(* main: the fence file is loaded, an embedded core started with the        *)
(* suspended tags left out; then recovery when authorized, and the          *)
(* authorization is applied.                                                *)
Boot ==
    /\ job = Down
    /\ fences' = sidecar
    /\ ready' = FALSE
    /\ job' = Task("boot", AnyTag, NoId,
                   IF Embedded THEN "start"
                   ELSE IF authorized THEN "recover" ELSE "authorize")
    /\ UNCHANGED <<sidecar, sidecarSynced, configFile, xray, history, authorized, budget>>

-----------------------------------------------------------------------------
(* The agent starts on a host with no fence file, with whatever the         *)
(* operator's configuration holds, authorized or not; a service core may    *)
(* already run.                                                             *)
Init ==
    /\ sidecar = [t \in Tags |-> NoFence] /\ sidecarSynced = sidecar /\ fences = sidecar
    /\ config \in [Tags -> {NoInbound} \cup [by: {Operator}, body: OperatorBodies]]
    /\ configSynced = config /\ firewallSynced = TRUE
    /\ ready = FALSE /\ authorized \in BOOLEAN
    /\ xrayUp \in (IF Embedded THEN {FALSE} ELSE BOOLEAN)
    /\ runtime = [t \in Tags |-> IF xrayUp THEN Loaded(config[t]) ELSE NoInbound]
    /\ job = Down
    /\ seen = [t \in Tags |-> [owner |-> NoId, body |-> Absent]]
    /\ added = [t \in Tags |-> NoId] /\ removed = {} /\ deferred = {}
    /\ budget = [requests |-> MaxRequests, faults |-> MaxFaults, crashes |-> MaxCrashes]

(* What the handler holding the lock does next. *)
Progress ==
    \/ Ensure
    \/ Reserve \/ Unreserve \/ Persist \/ Firewall \/ Activate \/ Commit
    \/ Cancel \/ Deactivate \/ Delete \/ ClearLimiter \/ Complete
    \/ UndoConfig \/ UndoRuntime \/ UndoFirewall \/ Release
    \/ Recover \/ Converge \/ OpenFirewall \/ Resolve
    \/ Authorize \/ StartXray \/ StopXray
    \/ ReadInventory \/ Edit \/ EditRuntime \/ EditUndo \/ EditUndoRuntime
    \/ Save \/ SaveFirewall \/ SaveUndo

Requests == Submit \/ SetAuthorization \/ SubmitStart \/ SubmitStop

Environment == CoreDies \/ OperatorStarts \/ Crash

Next == Progress \/ Requests \/ Environment \/ Boot

Spec == Init /\ [][Next]_vars

(* Handlers run to their end, the service manager restarts a dead agent,    *)
(* and somebody keeps asking for a start: the code itself never starts a    *)
(* stopped core to recover.                                                 *)
Fairness == WF_vars(Progress) /\ WF_vars(Boot) /\ SF_vars(SubmitStart)

FairSpec == Spec /\ Fairness

=============================================================================
