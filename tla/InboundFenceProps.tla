-------------------------- MODULE InboundFenceProps --------------------------
(***************************************************************************)
(* What InboundFence must guarantee: the properties the runs check, and    *)
(* the ledger it implements.                                               *)
(***************************************************************************)
EXTENDS InboundFence

(* The variables hold what the code can store in them.                      *)
TypeOK ==
    /\ sidecar \in [Tags -> Fence] /\ sidecarSynced \in [Tags -> Fence]
    /\ fences \in [Tags -> Fence]
    /\ config \in [Tags -> Inbound] /\ configSynced \in [Tags -> Inbound]
    /\ runtime \in [Tags -> Inbound]
    /\ firewallSynced \in BOOLEAN /\ ready \in BOOLEAN
    /\ authorized \in BOOLEAN /\ xrayUp \in BOOLEAN
    /\ job \in Job
    /\ seen \in [Tags -> [owner: Ids \cup {NoId}, body: Bodies \cup {Absent}]]
    /\ added \in [Tags -> Ids \cup {NoId}]
    /\ removed \subseteq Tags \X Ids /\ deferred \subseteq Tags
    /\ budget \in [requests: Nat, faults: Nat, crashes: Nat]

Up == job.step /= "down"
AtRest == job = Idle

-----------------------------------------------------------------------------
(* Cache coherence: while the agent runs, its copy of the fence file is the *)
(* file the next boot would load, whichever writes failed and however       *)
(* (the six call sites of persistInboundMutationFenceStatesLocked).         *)
MemoryIsFile == Up => fences = sidecar

(* At most one mutation is in flight on the whole agent, so recovery never  *)
(* has to order two: a second reservation waits for the first to resolve.   *)
AtMostOnePending ==
    \A s, t \in Tags : HasPending(sidecar, s) /\ HasPending(sidecar, t) => s = t

(* A reservation is never held by a mutation that was cancelled: a remove   *)
(* that arrives before its own add stops that add for good.                 *)
PendingNotCanceled ==
    \A t \in Tags : HasPending(sidecar, t) =>
        sidecar[t].pending.owner \notin sidecar[t].canceled

(* Once a remove has been acknowledged, as done or as superseded, nothing   *)
(* its mutation wrote comes back: not in the configuration, not as an owner *)
(* and not as a pending one, whatever late, repeated or interrupted request *)
(* follows (the promise of beginInboundMutationLocked).                     *)
RemovedStaysRemoved ==
    \A t \in Tags, m \in Ids : <<t, m>> \in removed =>
        /\ config[t].by /= m
        /\ sidecar[t].owner /= m /\ sidecar[t].pending.owner /= m

(* Nor is it served: the remove is acknowledged only when the runtime       *)
(* inbound stopped serving traffic ("do not mutate disk or acknowledge the  *)
(* generation" otherwise, management_handler.go).                           *)
RemovedNotServed ==
    \A t \in Tags, m \in Ids : <<t, m>> \in removed => runtime[t].by /= m

(* An acknowledged add survives every crash: after a power loss the fence   *)
(* file still names it and the configuration still holds what it wrote.     *)
AddedIsDurable ==
    \A t \in Tags : added[t] /= NoId =>
        /\ sidecarSynced[t].owner = added[t]
        /\ sidecarSynced[t].pending = NoPending
        /\ configSynced[t].by = added[t]

(* With no handler in flight and nothing pending, an owner's inbound (or    *)
(* one no digest tells from it) is in the configuration, unless the         *)
(* operator replaced the file or the owner's own removal is under way.      *)
OwnerHasInbound ==
    \A t \in Tags :
        AtRest /\ sidecar[t].owner /= NoId /\ sidecar[t].pending = NoPending =>
            \/ config[t].by \in {sidecar[t].owner, Operator}
            \/ config[t].body = Payload[sidecar[t].owner]
            \/ config[t] = NoInbound /\ sidecar[t].owner \in sidecar[t].canceled

(* Recovery can always decide: whenever a mutation is pending the           *)
(* configuration holds either what it intended or what it found.            *)
CrashLeavesResolvable == AllResolvable(sidecar)

-----------------------------------------------------------------------------
(* The strengthening that makes the invariants of the fence file inductive. *)

(* Of a fence file: at most one tag is pending, for an id never cancelled.  *)
WellFormed(file) ==
    /\ \A s, t \in Tags : HasPending(file, s) /\ HasPending(file, t) => s = t
    /\ \A t \in Tags : HasPending(file, t) =>
          file[t].pending.owner \in Ids \ file[t].canceled

(* Which handler can be at which step. *)
StepsOfKind ==
    /\ job.step \in {"reserve", "unreserve", "persist", "activate", "commit",
                     "release"} => job.kind = "add"
    /\ job.step \in {"cancel", "deactivate", "delete", "limiter", "complete"}
         => job.kind = "remove"
    /\ job.step \in {"firewall", "undoConfig", "undoRuntime", "undoFirewall"}
         => job.kind \in {"add", "remove"}
    /\ job.step \in {"unreserve", "commit", "release"} => job.id /= NoId

UndoSteps == {"undoConfig", "undoRuntime", "undoFirewall"}

(* While an add is carried out nothing but its own reservation is pending,  *)
(* and the entry it would give back is the one it found.                    *)
AddHoldsReservation ==
    job.kind = "add" /\ job.step \in UndoSteps \cup
            {"unreserve", "persist", "firewall", "activate", "commit", "release"} =>
        /\ \A t \in Tags : HasPending(sidecar, t) => t = job.tag
        /\ job.saved.pending = NoPending
        /\ job.saved.owner = sidecar[job.tag].owner
        /\ job.saved.canceled = sidecar[job.tag].canceled

(* While a remove is carried out its id is cancelled and nobody else owns   *)
(* the tag; without an id nobody owns it at all.                            *)
RemoveIsCancelled ==
    job.kind = "remove" /\ job.step \in UndoSteps \cup
            {"deactivate", "delete", "firewall", "limiter", "complete"} =>
        /\ sidecar[job.tag].owner \in {NoId, job.id}
        /\ job.id /= NoId => job.id \in sidecar[job.tag].canceled

(* The fence file is well formed, in memory's view and in a power loss's,   *)
(* and every handler finds in it what its earlier steps left there.         *)
FenceFileInv ==
    /\ MemoryIsFile
    /\ WellFormed(sidecar) /\ WellFormed(sidecarSynced)
    /\ job.step \in {"reserve", "cancel"} => ~AnyPending(sidecar)
    /\ StepsOfKind
    /\ AddHoldsReservation
    /\ RemoveIsCancelled

-----------------------------------------------------------------------------
(* The strengthening that relates the fence file to the configuration.      *)

(* Where a handler is: past the ensure step, at work on nothing a mutation  *)
(* has reserved, or carrying one out; from its work on it holds the         *)
(* configuration it found, which it may restore.                            *)
FreshSteps == {"reserve", "cancel", "inventory", "edit", "save"}
WorkSteps ==
    {"deactivate", "delete", "limiter", "complete", "editRuntime", "editUndo",
     "editUndoRuntime", "saveFirewall", "saveUndo", "saveRefirewall"}
CarryingSteps == UndoSteps \cup {"persist", "firewall", "activate", "commit"}
PrevSteps == WorkSteps \cup CarryingSteps \cup {"unreserve", "release"}

(* What an add has written is in place and durable, the firewall is open    *)
(* for it, and in the end a running core serves it.                         *)
AddIsWritten ==
    /\ job.kind = "add" /\ job.step \in {"firewall", "activate", "commit"} =>
          /\ config[job.tag] = [by |-> job.id, body |-> Payload[job.id]]
          /\ configSynced[job.tag] = config[job.tag]
    /\ job.step \in {"activate", "commit"} => firewallSynced
    /\ job.step = "commit" /\ xrayUp => runtime[job.tag] = config[job.tag]

(* An acknowledged add is in every copy a crash can leave, and in the       *)
(* configuration that a handler of another tag would restore.               *)
IsOwner(m, entry) == entry.owner = m /\ entry.pending = NoPending

AddedIsKept ==
    /\ \A t \in Tags : added[t] /= NoId =>
          /\ IsOwner(added[t], sidecar[t]) /\ IsOwner(added[t], sidecarSynced[t])
          /\ config[t].by = added[t] /\ configSynced[t].by = added[t]
          /\ job.step \in PrevSteps => job.prev[t].by = added[t]
    /\ job.kind \in {"add", "remove"} => added[job.tag] = NoId
    /\ job.kind = "save" => \A t \in Tags : added[t] = NoId
    /\ job.step \in {"save", "saveFirewall", "saveUndo"} => job.kind = "save"

(* A conditional add found what the control plane had last read.            *)
SeenIsReplaced ==
    /\ job.conditional => job.kind = "add" /\ job.id /= NoId
    /\ job.conditional /\ job.step \in {"persist", "firewall", "activate", "commit"} =>
          /\ sidecar[job.tag].owner = seen[job.tag].owner
          /\ sidecar[job.tag].pending.prevBody = seen[job.tag].body

AddConfigInv == AddIsWritten /\ AddedIsKept /\ SeenIsReplaced

(* What is pending can be decided; and only an add that carries a mutation  *)
(* id works on the configuration while anything is pending, its own.        *)
PendingIsDecidable ==
    /\ AllResolvable(sidecar)
    /\ job.step \in FreshSteps \cup WorkSteps => ~AnyPending(sidecar)
    /\ job.step \in CarryingSteps =>
          \/ /\ ~AnyPending(sidecar)
             /\ job.kind = "add" => job.id = NoId /\ sidecar[job.tag].owner = NoId
          \/ /\ job.kind = "add" /\ job.id /= NoId
             /\ sidecar[job.tag].pending =
                   [owner |-> job.id, intended |-> Payload[job.id],
                    prevOwner |-> job.saved.owner, prevBody |-> job.prev[job.tag].body]

(* By its digest a definition can be told to be m's.                        *)
DefinitionsDiffer ==
    \A m \in Ids :
        /\ Payload[m] \notin EditBodies
        /\ \A n \in Ids \cup {NoId} : Payload[m] = Payload[n] => m = n

(* Whose a definition is says what it may be.                               *)
WriterKnown(i) ==
    /\ i.by = Nobody => i = NoInbound
    /\ i.by \in Ids \cup {NoId} => i.body \in {Payload[i.by]} \cup EditBodies

WritersKnown ==
    \A t \in Tags : WriterKnown(config[t]) /\ (job.step \in PrevSteps => WriterKnown(job.prev[t]))

(* i is the inbound the owner of t stands for, unless t has no owner.       *)
StandsFor(i, t) ==
    LET owner == sidecar[t].owner IN
    \/ owner = NoId
    \/ i.by \in {owner, Operator}
    \/ i.body = Payload[owner]
    \/ i = NoInbound /\ owner \in sidecar[t].canceled

Intended(t) == HasPending(sidecar, t) /\ config[t].body = sidecar[t].pending.intended

(* Whoever owns a tag, now or when the pending mutation is given up, has    *)
(* its inbound in the configuration, and in the one a handler may restore.  *)
OwnersStand ==
    /\ \A t \in Tags :
          /\ Intended(t) \/ StandsFor(config[t], t)
          /\ job.step \in PrevSteps => StandsFor(job.prev[t], t)
          /\ HasPending(sidecar, t) =>
                sidecar[t].pending.intended = Payload[sidecar[t].pending.owner]
    /\ \/ job.step \in {"unreserve", "release"}
       \/ job.step \in {"undoRuntime", "undoFirewall"} /\ job.restored
       => config = job.prev

(* What was removed is cancelled, unowned and nowhere to be restored from.  *)
RemovedIsGone ==
    /\ \A t \in Tags, m \in Ids : <<t, m>> \in removed =>
          /\ m \in sidecar[t].canceled /\ sidecar[t].owner /= m
          /\ config[t].by /= m
          /\ job.step \in PrevSteps => job.prev[t].by /= m
    /\ job.kind = "remove" /\ job.step \in {"firewall", "limiter", "complete"} =>
          config[job.tag] = NoInbound

-----------------------------------------------------------------------------
(* The strengthening that relates both to the runtime of an embedded core,  *)
(* which nobody but the agent starts.                                       *)

(* Nor does the operator save a definition that can be taken for m's.       *)
OperatorDiffers == \A m \in Ids : Payload[m] \notin OperatorBodies

(* Whose the tag is once the configuration has decided what is pending.     *)
Decided(t) == IF Intended(t) THEN sidecar[t].pending.owner ELSE sidecar[t].owner

(* If a mutation wrote i at all, it was the owner's.                        *)
IsOf(i, owner) == i.by \in Ids => i.by = owner

OperatorKnown(i) == i.by = Operator => i.body \in OperatorBodies \cup EditBodies

ConfigIsOwners ==
    \A t \in Tags :
        /\ IsOf(config[t], Decided(t)) /\ OperatorKnown(config[t])
        /\ job.step \in PrevSteps =>
              IsOf(job.prev[t], sidecar[t].owner) /\ OperatorKnown(job.prev[t])

(* The runtime follows the configuration: nothing is pending, or the        *)
(* handler has put back or converged what is, or recovery has not to.       *)
Settled(t) ==
    \/ ~HasPending(sidecar, t)
    \/ job.step \in {"unreserve", "commit", "release", "openFirewall", "resolve"}
    \/ job.step = "undoFirewall" /\ ~job.uncertain
    \/ ready /\ job.step \notin CarryingSteps

(* What is pending is carried out, and recovered, only while authorized.    *)
RecoverySteps == {"recover", "converge", "openFirewall", "resolve"}

PendingIsAuthorized ==
    job.step \in CarryingSteps \cup RecoverySteps /\ AnyPending(sidecar) => authorized

(* A mutation whose inbound is served owns the tag, or will once what is    *)
(* pending is decided; a remove goes on only with the tag out of service.   *)
RuntimeIsOwners ==
    /\ \A t \in Tags : Settled(t) => IsOf(runtime[t], Decided(t))
    /\ job.kind = "remove" /\ job.step \in {"delete", "firewall", "limiter", "complete"} =>
          runtime[job.tag] = NoInbound
    /\ job.step \in {"undoRuntime", "undoFirewall"} => job.restored \/ job.uncertain

(* An owner that a resolution would publish is served already.              *)
NextOwnerIsServed ==
    \A t \in Tags :
        /\ HasPending(sidecar, t) /\ Decided(t) /= sidecar[t].owner
        /\ Settled(t) /\ job.step /= "recover" /\ xrayUp /\ authorized
        => runtime[t].body = config[t].body

-----------------------------------------------------------------------------
(* Action properties *)

(* A remove overtaken by a newer owner changes neither the configuration    *)
(* nor the runtime, at any of its steps.                                    *)
SupersededRemoveTouchesNothing ==
    [][ job.kind = "remove" /\ job' /= job /\ job' /= Down
        /\ sidecar[job.tag].owner \notin {NoId, job.id}
        => UNCHANGED <<config, runtime>> ]_vars

(* The acknowledgement of an add is given only when the configuration, the  *)
(* firewall and, while the core runs, the runtime agree on what it wrote.   *)
AddedMeansServed ==
    [][ \A t \in Tags : added'[t] /= added[t] /\ added'[t] /= NoId =>
            /\ config'[t] = [by |-> added'[t], body |-> Payload[added'[t]]]
            /\ firewallSynced'
            /\ xrayUp' => runtime'[t] = config'[t] ]_vars

(* However ownership is decided, by an add or by a recovery after a crash,  *)
(* it becomes visible only when an authorized running core serves the       *)
(* inbound the owner stands for.                                            *)
OwnerPublishedWhenServed ==
    [][ \A t \in Tags :
            fences'[t].owner \notin {NoId, fences[t].owner} /\ job /= Down
            /\ xrayUp' /\ authorized' => runtime'[t].body = config'[t].body ]_vars

(* While managed inbounds are suspended no step of the agent puts one on    *)
(* the runtime. (A service core that loads its file is not a step of the    *)
(* agent until the agent itself asks for the start.)                        *)
NoResurrection ==
    [][ ~authorized' /\ job' /= job /\ (job.step = "start" => Embedded) =>
            \A t \in Tags : Managed(fences', t) /\ ~Serves(t)
                              => runtime'[t].body = Absent ]_vars

(* A conditional replacement that is acknowledged replaced exactly the      *)
(* generation the control plane had read, however stale the reading was.    *)
ConditionalReplacesWhatWasSeen ==
    [][ \A t \in Tags : added'[t] /= added[t] /\ added'[t] /= NoId /\ job.conditional =>
            /\ sidecar[t].owner = seen[t].owner
            /\ sidecar[t].pending.prevBody = seen[t].body ]_vars

(* A client edit that was kept from the runtime while its inbound was       *)
(* suspended is on the runtime after the next grant that reports success.   *)
GrantAppliesDeferredEdit ==
    [][ job.step = "authorize" /\ authorized /\ xrayUp /\ job' /= Down
        /\ budget' = budget =>
            \A t \in deferred : Managed(fences, t)
                => runtime'[t].body = config[t].body ]_vars

-----------------------------------------------------------------------------
(* Liveness: faults and crashes end, starts go on. Then, once the server is *)
(* authorized for good, no mutation stays pending: the inbound API, blocked *)
(* while one is, comes back.                                                *)
PendingIsResolved == <>[]authorized => []<>(~AnyPending(sidecar))

-----------------------------------------------------------------------------
(* The ledger this implements: owners and cancellations as the fence file   *)
(* shows them, and as a power loss would leave them.                        *)

LedgerOf(file) ==
    [t \in Tags |-> [owner |-> file[t].owner, canceled |-> file[t].canceled]]

Ledger == INSTANCE MutationLedger
            WITH ledger <- LedgerOf(sidecar), durable <- LedgerOf(sidecarSynced)

(* Every behaviour of the agent is a behaviour of the ledger: a cancelled   *)
(* mutation never becomes an owner, an owner is dropped only by its own     *)
(* cancellation, and a power loss forgets only unsynchronised writes.       *)
ImplementsLedger == Ledger!Spec

=============================================================================
