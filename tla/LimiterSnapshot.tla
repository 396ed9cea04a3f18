---------------------------- MODULE LimiterSnapshot ----------------------------
(***************************************************************************)
(* The limiter state that survives a restart (limiter/persistent.go), and  *)
(* the WireGuard inbounds of the embedded core that depend on it: Xray     *)
(* does not say which user a WireGuard source is, so an inbound with peers *)
(* may only serve while the limiter knows that it has to tell them apart.  *)
(*                                                                         *)
(* Two files, the snapshot and the marker that one is required, under one  *)
(* lock; the limiter of the running core; xray.json and the inbounds of    *)
(* the core, which requests change under inboundsMu. Authorization and the *)
(* mutation ledger are in InboundFence. Only the addresses of a snapshot   *)
(* are kept here; the rates are in Limiter.                                *)
(***************************************************************************)
EXTENDS Naturals

CONSTANTS
    Tags, Addrs,    \* inbounds; the host addresses of their peers
    None,           \* no snapshot, mapping, limiter state or inbound
    MaxFaults       \* bound: file operations and additions to the core that fail

ASSUME SnapshotAssumption ==
    /\ \A S \in SUBSET Addrs : S /= None
    /\ \A f \in [Tags -> (SUBSET Addrs) \cup {None}] : f /= None
    /\ MaxFaults \in Nat

VARIABLES
    disk,       \* the two files as the process finds them
    durable,    \* and as the last directory sync left them
    limiter,    \* InboundInfo of each tag: mappings, and WireGuardIdentityRequired
    core,       \* the embedded core runs
    config,     \* the peers of each inbound in xray.json
    active,     \* and of those the core serves
    op,         \* what holds the lock of persistentSnapshots
    change,     \* the request that holds inboundsMu
    acked,      \* what was last acknowledged for each tag
    doubtful,   \* tags of which a failed or interrupted operation may have left the files changed
    half,       \* tags of which one failed halfway since the core was started
    faults

files == <<disk, durable, faults>>
runtime == <<limiter, core, active>>
vars == <<files, runtime, config, op, change, acked, doubtful, half>>

Mappings == (SUBSET Addrs) \cup {None}
Snapshots == [Tags -> Mappings] \cup {None}
Files == [snapshot : Snapshots, marker : BOOLEAN]
NoInfo == [peers |-> None, required |-> FALSE]
NoChange == [step |-> "idle"]
NoOp == [kind |-> "none"]

Peers(m) == IF m = None THEN {} ELSE m
Mapping(f, t) == IF f.snapshot = None THEN None ELSE f.snapshot[t]
Empty == [t \in Tags |-> None]
With(f, t, m) == [f EXCEPT !.snapshot = [(IF @ = None THEN Empty ELSE @) EXCEPT ![t] = m]]

Without(f, t) == With(f, t, None)
Info(m) == [peers |-> m, required |-> Peers(m) /= {}]

LockFree == op = NoOp
Doubt(t) == doubtful' = doubtful \cup {t} /\ half' = half \cup {t}
Sure(t) == doubtful' = doubtful \ {t} /\ UNCHANGED half
NoDoubt == UNCHANGED <<doubtful, half>>

-----------------------------------------------------------------------------
(* writePersistentFileAtomic and the removals: the file is changed, then    *)
(* its directory is synchronised, for both files. "failed" is before the    *)
(* rename, "unsynced" after it; both are the same error to the caller.      *)
Outcomes == {"ok", "failed", "unsynced"}
Good(o) == o = "ok"

Put(new, o) ==
    /\ o \in Outcomes
    /\ disk' = IF o = "failed" THEN disk ELSE new
    /\ durable' = IF Good(o) THEN new ELSE durable
    /\ IF Good(o) THEN UNCHANGED faults ELSE faults > 0 /\ faults' = faults - 1

(* Mutant: what was there before the delivery is forgotten. *)
DeliverWriteFirst(t, m, o) ==
    /\ LockFree
    /\ Put(With(disk, t, m), o)
    /\ IF Good(o) THEN /\ op' = [kind |-> "deliver", tag |-> t, peers |-> m, before |-> With(disk, t, m)]
                       /\ NoDoubt
                  ELSE op' = op /\ IF o = "unsynced" THEN Doubt(t) ELSE NoDoubt
    /\ UNCHANGED <<config, change, acked>> /\ UNCHANGED runtime

(* PersistAndApplyInboundSnapshot, from both channels: the file first. An   *)
(* error of the write is returned as it is, whatever the file holds now.    *)
DeliverWrite(t, m, o) ==
    /\ LockFree
    /\ Put(With(disk, t, m), o)
    /\ IF Good(o) THEN /\ op' = [kind |-> "deliver", tag |-> t, peers |-> m, before |-> disk]
                       /\ NoDoubt
                  ELSE op' = op /\ IF o = "unsynced" THEN Doubt(t) ELSE NoDoubt
    /\ UNCHANGED <<config, change, acked>> /\ UNCHANGED runtime

(* Mutant: the requirement follows the delivered mappings. *)
SyncForgetful(t, m) == [limiter EXCEPT ![t] = Info(m)]

(* SyncInboundLimiterWithSharedLimit: once required, identity stays so.     *)
Sync(t, m) ==
    [limiter EXCEPT ![t] = [peers |-> m, required |-> @.required \/ Peers(m) /= {}]]

(* Then the limiter of the core, which it needs: without one, the file goes *)
(* back to what it was.                                                     *)
DeliverApply ==
    /\ op.kind = "deliver" /\ core
    /\ limiter' = Sync(op.tag, op.peers)
    /\ acked' = [acked EXCEPT ![op.tag] = op.peers]
    /\ op' = NoOp
    /\ Sure(op.tag)
    /\ UNCHANGED <<files, core, active, config, change>>

(* restorePersistentSnapshotsLocked; a snapshot that did not exist is       *)
(* removed. The marker is as it was.                                        *)
DeliverRestore(o) ==
    /\ op.kind = "deliver" /\ ~core
    /\ Put([disk EXCEPT !.snapshot = op.before.snapshot], o)
    /\ op' = NoOp
    /\ IF Good(o) THEN NoDoubt ELSE Doubt(op.tag)
    /\ UNCHANGED <<config, change, acked>> /\ UNCHANGED runtime

-----------------------------------------------------------------------------
(* Requests about an inbound, one at a time under inboundsMu. "client" adds *)
(* or removes a peer; "add" brings a whole inbound, "remove" takes it away. *)
(* to: what t shall be; from: what it was; undoing: this is the rollback.   *)
ChangeSteps == {"save", "check", "swap", "drop", "delete", "undo"}
Kinds == {"client", "add", "remove"}
Goto(step) == change' = [change EXCEPT !.step = step]

(* requireWireGuardInboundPeerMappings and RequireWireGuardPeerMappings:    *)
(* every address is mapped on disk, and the marker is there.                *)
Required(t, peers) ==
    peers = {} \/ (disk.snapshot /= None /\ peers \subseteq Peers(disk.snapshot[t]))

Mark(peers, o) ==
    IF peers = {} \/ disk.marker THEN Good(o) /\ UNCHANGED files
    ELSE Put([disk EXCEPT !.marker = TRUE], o)

Begin(kind, t, to) ==
    change' = [step |-> IF kind = "remove" THEN "drop" ELSE "save", kind |-> kind, tag |-> t,
               to |-> to, from |-> config[t], undoing |-> FALSE]

(* manageInboundClient up to the write: only an addition is checked.        *)
(* manageInbound of an inbound: all its peers are.                          *)
Arrive(kind, t, to, o) ==
    LET new == Peers(to) \ (IF kind = "client" THEN Peers(config[t]) ELSE {}) IN
    /\ change = NoChange
    /\ \/ kind = "client" /\ config[t] /= None /\ to /= None
       \/ kind = "add" /\ to /= None
       \/ kind = "remove" /\ to = None
    /\ IF new = {} THEN Good(o) /\ UNCHANGED files
       ELSE LockFree /\ Required(t, new) /\ Mark(new, o)
    /\ IF Good(o) THEN Begin(kind, t, to) ELSE UNCHANGED change
    /\ UNCHANGED <<config, op, acked>> /\ NoDoubt /\ UNCHANGED runtime

Fault(bad) == IF bad THEN faults > 0 /\ faults' = faults - 1 ELSE UNCHANGED faults
SameFiles == UNCHANGED <<disk, durable>>

(* The configuration is replaced by a rename: changed, or as it was.        *)
Save(bad) ==
    /\ change.step = "save"
    /\ Fault(bad) /\ SameFiles
    /\ config' = IF bad THEN config ELSE [config EXCEPT ![change.tag] = change.to]
    /\ CASE bad /\ change.kind = "client" -> change' = NoChange
         [] bad /\ change.kind /= "client" -> Goto("undo")
         [] OTHER -> Goto(CASE change.kind = "client" -> "check"
                            [] change.kind = "add" -> "swap"
                            [] OTHER -> "delete")
    /\ UNCHANGED <<op, acked>> /\ NoDoubt /\ UNCHANGED runtime

Fail == IF change.undoing THEN change' = NoChange ELSE Goto("undo")

(* replaceRuntimeInbound looks at the mappings again.                       *)
Check(o) ==
    /\ change.step = "check" /\ LockFree
    /\ IF Required(change.tag, Peers(change.to))
       THEN Mark(Peers(change.to), o) /\ IF Good(o) THEN Goto("swap") ELSE Fail
       ELSE Good(o) /\ UNCHANGED files /\ Fail
    /\ UNCHANGED <<config, op, acked>> /\ NoDoubt /\ UNCHANGED runtime

(* RemoveInbound, whose result is not looked at, and AddInbound.            *)
Swap(bad) ==
    /\ change.step = "swap"
    /\ Fault(bad) /\ SameFiles
    /\ core \/ ~bad
    /\ active' = IF core THEN [active EXCEPT ![change.tag] = IF bad THEN None ELSE change.to]
                         ELSE active
    /\ IF core /\ ~bad THEN change' = NoChange ELSE Fail
    /\ UNCHANGED <<limiter, core, config, op, acked>> /\ NoDoubt

(* A removal stops the inbound first; that it does not run is no error, but *)
(* that the core does not is.                                               *)
Drop ==
    /\ change.step = "drop"
    /\ active' = IF core THEN [active EXCEPT ![change.tag] = None] ELSE active
    /\ IF core THEN Goto("save") ELSE change' = NoChange
    /\ UNCHANGED <<files, limiter, core, config, op, acked>> /\ NoDoubt

(* The rollbacks: the file of before, and the inbound of before with it.    *)
Undo(bad) ==
    /\ change.step = "undo"
    /\ Fault(bad) /\ SameFiles
    /\ config' = IF bad THEN config ELSE [config EXCEPT ![change.tag] = change.from]
    /\ IF change.from = None
       THEN /\ change' = NoChange
            /\ active' = IF core THEN [active EXCEPT ![change.tag] = None] ELSE active
       ELSE /\ change' = [change EXCEPT !.step = "check", !.to = change.from, !.undoing = TRUE]
            /\ UNCHANGED active
    /\ UNCHANGED <<limiter, core, op, acked>> /\ NoDoubt

-----------------------------------------------------------------------------
(* DeleteWireGuardInboundState, the last thing a removal does: only when    *)
(* there was a WireGuard inbound or something is left of one. Held: what   *)
(* the two files were.                                                      *)
Deleting(step) == op' = [kind |-> "delete", tag |-> change.tag, step |-> step, before |-> disk]
Refused == op' = NoOp /\ Fail

ToClear(t) ==
    change.from /= None \/ Peers(Mapping(disk, t)) /= {} \/ limiter[t].required

DeleteWrite(o) ==
    LET t == change.tag
        unreadable == ~core \/ (disk.marker /\ disk.snapshot = None)
    IN
    /\ change.step = "delete" /\ LockFree
    /\ \/ /\ Fault(~unreadable) /\ Good(o) \* a read may fail as well
          /\ Fail /\ SameFiles /\ UNCHANGED op
       \/ /\ ~unreadable /\ ~ToClear(t) /\ Good(o)
          /\ change' = NoChange /\ UNCHANGED <<files, op>>
       \/ /\ ~unreadable /\ ToClear(t) /\ Mapping(disk, t) = None /\ Good(o)
          /\ Deleting("unmark") /\ UNCHANGED <<files, change>>
       \/ /\ ~unreadable /\ ToClear(t) /\ Mapping(disk, t) /= None
          /\ Put(Without(disk, t), o)
          /\ Deleting(IF Good(o) THEN "unmark" ELSE "restore") /\ UNCHANGED change
    /\ UNCHANGED <<config, acked>> /\ NoDoubt /\ UNCHANGED runtime

AnyPeers(f) == \E t \in Tags : Peers(Mapping(f, t)) /= {}

(* Mutant: the limiter keeps what the disk no longer has. *)
DroppedFromDisk(t) ==
    /\ acked' = [acked EXCEPT ![t] = None]
    /\ op' = NoOp /\ change' = NoChange
    /\ IF op.before.snapshot /= disk.snapshot THEN Sure(t) ELSE NoDoubt
    /\ UNCHANGED limiter

Dropped(t) ==
    /\ limiter' = [limiter EXCEPT ![t] = NoInfo]
    /\ acked' = [acked EXCEPT ![t] = None]
    /\ op' = NoOp /\ change' = NoChange
    /\ IF op.before.snapshot /= disk.snapshot THEN Sure(t) ELSE NoDoubt

(* The marker goes with the last mapping of any tag, then the limiter state.*)
DeleteUnmark(o) ==
    /\ op.kind = "delete" /\ op.step = "unmark"
    /\ IF disk.marker /\ ~AnyPeers(disk)
       THEN /\ Put([disk EXCEPT !.marker = FALSE], o)
            /\ IF Good(o) THEN Dropped(op.tag)
               ELSE /\ op' = [op EXCEPT !.step = "restore"]
                    /\ UNCHANGED <<limiter, acked, change>> /\ NoDoubt
       ELSE Good(o) /\ Dropped(op.tag) /\ UNCHANGED files
    /\ UNCHANGED <<core, active, config>>

(* restorePersistentWireGuardDeleteLocked: the snapshot, then the marker,   *)
(* the second even when the first fails.                                    *)
DeleteRestore(o) ==
    /\ op.kind = "delete" /\ op.step = "restore"
    /\ Put([disk EXCEPT !.snapshot = op.before.snapshot], o)
    /\ IF Good(o) THEN NoDoubt ELSE Doubt(op.tag)
    /\ op' = [op EXCEPT !.step = "remark"]
    /\ UNCHANGED <<config, change, acked>> /\ UNCHANGED runtime

DeleteRemark(o) ==
    /\ op.kind = "delete" /\ op.step = "remark"
    /\ Put([disk EXCEPT !.marker = op.before.marker], o)
    /\ IF Good(o) THEN NoDoubt ELSE Doubt(op.tag)
    /\ Refused
    /\ UNCHANGED <<config, acked>> /\ UNCHANGED runtime

-----------------------------------------------------------------------------
(* The core *)

(* wireGuardInboundTagsMissingPersistentMappings                            *)
Complete(t) ==
    Peers(config[t]) /= {} => config[t] \subseteq Peers(Mapping(disk, t))

(* Start, under both locks: refused without the snapshot that the marker    *)
(* requires; an inbound whose peers are not all mapped is left out.         *)
Start ==
    /\ ~core /\ LockFree /\ change = NoChange
    /\ ~(disk.marker /\ disk.snapshot = None)
    /\ core' = TRUE
    /\ limiter' = [t \in Tags |-> Info(Mapping(disk, t))]
    /\ active' = [t \in Tags |-> IF Complete(t) THEN config[t] ELSE None]
    /\ half' = {}
    /\ UNCHANGED <<files, config, op, change, acked, doubtful>>

Down ==
    /\ core' = FALSE
    /\ limiter' = [t \in Tags |-> NoInfo]
    /\ active' = Empty

(* Stop needs no readable snapshot. *)
Stop ==
    /\ core /\ LockFree /\ change = NoChange
    /\ Down
    /\ UNCHANGED <<files, config, op, change, acked>> /\ NoDoubt

Interrupted ==
    /\ Down
    /\ op' = NoOp /\ change' = NoChange
    /\ IF LockFree THEN NoDoubt ELSE Doubt(op.tag)
    /\ UNCHANGED <<config, acked, faults>>

(* The process dies; the files are what they were. *)
Kill == Interrupted /\ SameFiles

(* The machine does: each file is found as last seen or as last synced.     *)
PowerLoss ==
    /\ Interrupted
    /\ \E s \in {disk.snapshot, durable.snapshot}, m \in {disk.marker, durable.marker} :
          disk' = [snapshot |-> s, marker |-> m]
    /\ durable' = disk'

Init ==
    /\ disk = [snapshot |-> None, marker |-> FALSE] /\ durable = disk
    /\ limiter = [t \in Tags |-> NoInfo] /\ core = FALSE
    /\ config = Empty /\ active = Empty
    /\ op = NoOp /\ change = NoChange
    /\ acked = Empty /\ doubtful = {} /\ half = {}
    /\ faults = MaxFaults

Deliver ==
    \/ \E t \in Tags, m \in SUBSET Addrs, o \in Outcomes : DeliverWrite(t, m, o)
    \/ DeliverApply
    \/ \E o \in Outcomes : DeliverRestore(o)

Request ==
    \/ \E kind \in Kinds, t \in Tags, to \in Mappings, o \in Outcomes : Arrive(kind, t, to, o)
    \/ \E bad \in BOOLEAN : Save(bad) \/ Swap(bad) \/ Undo(bad)
    \/ Drop
    \/ \E o \in Outcomes : Check(o)

Delete ==
    \E o \in Outcomes :
        DeleteWrite(o) \/ DeleteUnmark(o) \/ DeleteRestore(o) \/ DeleteRemark(o)

Next == Deliver \/ Request \/ Delete \/ Start \/ Stop \/ Kill \/ PowerLoss

Spec == Init /\ [][Next]_vars

-----------------------------------------------------------------------------
Delivery == [kind : {"deliver"}, tag : Tags, peers : Mappings, before : Files]
Removal == [kind : {"delete"}, tag : Tags, step : {"unmark", "restore", "remark"},
            before : Files]
Change == [step : ChangeSteps, kind : Kinds, tag : Tags,
           to : Mappings, from : Mappings, undoing : BOOLEAN]

TypeOK ==
    /\ disk \in Files /\ durable \in Files
    /\ limiter \in [Tags -> [peers : Mappings, required : BOOLEAN]] /\ core \in BOOLEAN
    /\ config \in [Tags -> Mappings] /\ active \in [Tags -> Mappings]
    /\ acked \in [Tags -> Mappings]
    /\ half \subseteq Tags /\ doubtful \subseteq Tags /\ faults \in 0 .. MaxFaults
    /\ op = NoOp \/ op \in Delivery \/ op \in Removal
    /\ change = NoChange \/ change \in Change

(* An inbound with peers is only served while the limiter requires their   *)
(* identity, so that none of its traffic passes as anonymous: across       *)
(* deliveries that empty the mappings, removals, rollbacks and restarts.   *)
(* Not so after a write of which only the directory sync failed: the file  *)
(* then vouches for addresses the limiter has not been told of.            *)
ActivePeersIdentified ==
    \A t \in Tags : core /\ Peers(active[t]) /= {} => limiter[t].required \/ t \in half

(* WithPersistentInboundSnapshots: disk and limiter are never left on      *)
(* different generations of a snapshot, by a delivery, a removal or a      *)
(* start.                                                                  *)
LimiterIsDisk ==
    core /\ LockFree => \A t \in Tags \ (half \cap doubtful) : limiter[t].peers = Mapping(disk, t)

(* What was acknowledged is what is found after a crash or a power loss;   *)
(* what was refused, never. Unless a file operation failed halfway.        *)
AckedSurvives ==
    LockFree => \A t \in Tags \ doubtful : /\ Mapping(disk, t) = acked[t]
                                           /\ Mapping(durable, t) = acked[t]

-----------------------------------------------------------------------------
(* The strengthening that makes these inductive.                           *)

(* A peer the limiter knows of is one whose identity it requires.           *)
LimiterRequires ==
    \A t \in Tags : Peers(limiter[t].peers) /= {} => limiter[t].required

(* The inbound that a request is about to add was found required, and the   *)
(* one that it takes away no longer runs.                                   *)
ChangeIsSafe ==
    /\ (change.step = "swap" \/ (change.step = "save" /\ change.kind = "add")) =>
          (core /\ Peers(change.to) /= {}
            => limiter[change.tag].required \/ change.tag \in half)
    /\ change.step = "delete" \/ (change.step = "save" /\ change.kind = "remove") =>
          active[change.tag] = None
    /\ change.step = "drop" => change.kind = "remove"

(* What holds the lock knows the files of before, which were those that the *)
(* limiter has and that were acknowledged; of other tags they still are.    *)
BeforeIsKnown ==
    ~LockFree =>
        /\ core => \A s \in Tags \ (half \cap doubtful) :
                      limiter[s].peers = Mapping(op.before, s)
        /\ \A s \in Tags \ doubtful : Mapping(op.before, s) = acked[s]
        /\ \A s \in Tags \ {op.tag} : Mapping(disk, s) = Mapping(op.before, s)
        /\ \A s \in Tags \ (doubtful \cup {op.tag}) : Mapping(durable, s) = acked[s]

(* What a delivery has written is on the disk for good; a removal has       *)
(* cleared its mapping, or is putting it back.                              *)
OpIsWritten ==
    /\ op.kind = "deliver" =>
          Mapping(disk, op.tag) = op.peers /\ Mapping(durable, op.tag) = op.peers
    /\ op.kind = "delete" =>
          /\ change.step = "delete" /\ change.tag = op.tag
          /\ op.step = "unmark" =>
                /\ Mapping(disk, op.tag) = None
                /\ \/ Mapping(durable, op.tag) = None
                   \/ op.tag \in doubtful /\ op.before.snapshot = disk.snapshot
          /\ op.step = "remark" =>
                \/ op.tag \in half \cap doubtful
                \/ /\ disk.snapshot = op.before.snapshot
                   /\ durable.snapshot = op.before.snapshot

SnapshotInv ==
    /\ ActivePeersIdentified /\ LimiterIsDisk /\ AckedSurvives
    /\ LimiterRequires /\ ChangeIsSafe /\ BeforeIsKnown /\ OpIsWritten

================================================================================
