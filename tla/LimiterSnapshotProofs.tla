------------------------- MODULE LimiterSnapshotProofs -------------------------
(***************************************************************************)
(* LimiterSnapshot, for every set of inbounds and addresses and any number *)
(* of failures: the files, the limiter and the inbounds that are served    *)
(* agree, whatever fails or is interrupted.                                *)
(***************************************************************************)
EXTENDS LimiterSnapshot, TLAPS

USE SnapshotAssumption

-----------------------------------------------------------------------------
(* The operators the actions are built from.                               *)

LEMMA NullTypes ==
    /\ None \in Mappings /\ Empty \in [Tags -> Mappings] /\ NoInfo.peers = None
    /\ NoInfo \in [peers : Mappings, required : BOOLEAN]
    /\ SUBSET Addrs \subseteq Mappings
BY DEF Mappings, Empty, NoInfo

LEMMA PeersOfNone == Peers(None) = {}
BY DEF Peers

(* What holds the lock, and the request that holds inboundsMu.             *)
LEMMA OpForms ==
    ASSUME TypeOK
    PROVE  /\ LockFree => op.kind = "none"
           /\ ~LockFree => op.kind \in {"deliver", "delete"} /\ op.tag \in Tags
                           /\ op.before \in Files
           /\ op.kind = "deliver" => op \in Delivery /\ op.peers \in Mappings
           /\ op.kind = "delete" => op \in Removal
                                    /\ op.step \in {"unmark", "restore", "remark"}
BY DEF TypeOK, LockFree, NoOp, Delivery, Removal

LEMMA ChangeForms ==
    ASSUME TypeOK, change.step /= "idle"
    PROVE  /\ change \in Change /\ change.tag \in Tags /\ change.kind \in Kinds
           /\ change.to \in Mappings /\ change.from \in Mappings /\ change.undoing \in BOOLEAN
BY DEF TypeOK, NoChange, Change

LEMMA NoChangeIdle == NoChange.step = "idle" /\ NoOp.kind = "none"
BY DEF NoChange, NoOp

LEMMA GotoFields ==
    ASSUME change \in Change, NEW step \in ChangeSteps, Goto(step)
    PROVE  /\ change' \in Change /\ change'.step = step /\ change'.kind = change.kind
           /\ change'.tag = change.tag /\ change'.to = change.to
           /\ change'.from = change.from /\ change'.undoing = change.undoing
BY DEF Goto, Change

LEMMA FailMoves ==
    ASSUME change \in Change, Fail
    PROVE  change' = NoChange \/ (change' \in Change /\ change'.step = "undo")
BY GotoFields DEF Fail, ChangeSteps

(* A snapshot with the mapping of one tag changed, a marker set or cleared. *)
LEMMA WithEntries ==
    ASSUME NEW f \in Files, NEW t \in Tags, NEW m \in Mappings
    PROVE  /\ With(f, t, m) \in Files /\ Mapping(With(f, t, m), t) = m
           /\ \A s \in Tags \ {t} : Mapping(With(f, t, m), s) = Mapping(f, s)
<1> DEFINE base == IF f.snapshot = None THEN Empty ELSE f.snapshot
           new == [base EXCEPT ![t] = m]
<1>1. f.snapshot \in Snapshots /\ f.marker \in BOOLEAN
    BY DEF Files
<1>2. base \in [Tags -> Mappings] /\ new \in [Tags -> Mappings]
    BY <1>1, NullTypes DEF Snapshots
<1>3. new /= None
    BY <1>2 DEF Mappings
<1>4. With(f, t, m) \in Files /\ With(f, t, m).snapshot = new
    BY <1>1, <1>2 DEF With, Files, Snapshots
<1>5. \A s \in Tags : Mapping(With(f, t, m), s) = new[s]
    BY <1>3, <1>4 DEF Mapping
<1>6. \A s \in Tags : Mapping(f, s) = base[s]
    BY DEF Mapping, Empty
<1>7. QED
    BY <1>2, <1>4, <1>5, <1>6

LEMMA MarkerEntries ==
    ASSUME NEW f \in Files, NEW b \in BOOLEAN
    PROVE  /\ [f EXCEPT !.marker = b] \in Files
           /\ [f EXCEPT !.marker = b].snapshot = f.snapshot
BY DEF Files

LEMMA SnapshotEntries ==
    ASSUME NEW f \in Files, NEW s \in Snapshots
    PROVE  /\ [f EXCEPT !.snapshot = s] \in Files
           /\ [f EXCEPT !.snapshot = s].snapshot = s
BY DEF Files

LEMMA MappingType ==
    ASSUME NEW f \in Files, NEW t \in Tags
    PROVE  Mapping(f, t) \in Mappings
BY NullTypes DEF Mapping, Files, Snapshots

LEMMA InfoType ==
    ASSUME NEW m \in Mappings
    PROVE  /\ Info(m) \in [peers : Mappings, required : BOOLEAN]
           /\ Info(m).peers = m /\ (Peers(m) /= {} => Info(m).required)
BY DEF Info

(* An atomic file write: the disk may have the new file, and durably only   *)
(* after a success.                                                         *)
LEMMA PutEffect ==
    ASSUME disk \in Files, durable \in Files, faults \in 0 .. MaxFaults,
           NEW new \in Files, NEW o, Put(new, o)
    PROVE  /\ disk' \in Files /\ durable' \in Files /\ faults' \in 0 .. MaxFaults
           /\ disk' \in {disk, new} /\ durable' \in {durable, new}
           /\ Good(o) => disk' = new /\ durable' = new
           /\ ~Good(o) => durable' = durable
           /\ ~Good(o) /\ o /= "unsynced" => disk' = disk
BY DEF Put, Good, Outcomes

LEMMA MarkEffect ==
    ASSUME disk \in Files, durable \in Files, faults \in 0 .. MaxFaults,
           NEW peers, NEW o, Mark(peers, o)
    PROVE  /\ disk' \in Files /\ durable' \in Files /\ faults' \in 0 .. MaxFaults
           /\ disk'.snapshot = disk.snapshot
           /\ durable'.snapshot \in {durable.snapshot, disk.snapshot}
<1>1. CASE UNCHANGED files
    BY <1>1 DEF files
<1>2. CASE Put([disk EXCEPT !.marker = TRUE], o)
    BY <1>2, MarkerEntries, PutEffect
<1>3. QED
    BY <1>1, <1>2 DEF Mark

LEMMA FaultEffect ==
    ASSUME faults \in 0 .. MaxFaults, NEW bad, Fault(bad)
    PROVE  faults' \in 0 .. MaxFaults
BY DEF Fault

-----------------------------------------------------------------------------
(* Type correctness                                                         *)

FilesType == disk \in Files /\ durable \in Files /\ faults \in 0 .. MaxFaults
RuntimeType ==
    /\ limiter \in [Tags -> [peers : Mappings, required : BOOLEAN]] /\ core \in BOOLEAN
    /\ active \in [Tags -> Mappings]
HistoryType == acked \in [Tags -> Mappings] /\ half \subseteq Tags /\ doubtful \subseteq Tags
OpType == op = NoOp \/ op \in Delivery \/ op \in Removal
ChangeType == change = NoChange \/ change \in Change

LEMMA TypeParts ==
    TypeOK <=> /\ FilesType /\ RuntimeType /\ HistoryType /\ OpType /\ ChangeType
               /\ config \in [Tags -> Mappings]
BY DEF TypeOK, FilesType, RuntimeType, HistoryType, OpType, ChangeType

LEMMA TypePartsNext ==
    ASSUME FilesType', RuntimeType', HistoryType', OpType', ChangeType',
           config' \in [Tags -> Mappings]
    PROVE  TypeOK'
BY DEF TypeOK, FilesType, RuntimeType, HistoryType, OpType, ChangeType

LEMMA DoubtType ==
    ASSUME HistoryType, NEW t \in Tags, UNCHANGED acked, Doubt(t) \/ NoDoubt \/ Sure(t)
    PROVE  HistoryType'
BY DEF HistoryType, Doubt, NoDoubt, Sure

LEMMA PutType ==
    ASSUME FilesType, NEW new \in Files, NEW o, Put(new, o)
    PROVE  FilesType'
BY PutEffect DEF FilesType

LEMMA FaultType ==
    ASSUME FilesType, NEW bad, Fault(bad), SameFiles
    PROVE  FilesType'
BY FaultEffect DEF FilesType, SameFiles

LEMMA FailType == ASSUME change \in Change, Fail PROVE ChangeType'
BY FailMoves DEF ChangeType

LEMMA SameRuntimeType == ASSUME RuntimeType, UNCHANGED runtime PROVE RuntimeType'
BY DEF RuntimeType, runtime

LEMMA DeliverType ==
    ASSUME TypeOK, Deliver
    PROVE  TypeOK'
<1>0. /\ FilesType /\ RuntimeType /\ HistoryType /\ OpType /\ ChangeType
      /\ config \in [Tags -> Mappings] /\ disk \in Files
    BY TypeParts DEF FilesType
<1>1. ASSUME NEW t \in Tags, NEW m \in SUBSET Addrs, NEW o \in Outcomes, DeliverWrite(t, m, o)
      PROVE  TypeOK'
    <2>1. m \in Mappings /\ With(disk, t, m) \in Files
        BY <1>0, NullTypes, WithEntries
    <2>2. FilesType'
        BY <1>0, <1>1, <2>1, PutType DEF DeliverWrite
    <2>3. HistoryType'
        BY <1>0, <1>1, DoubtType DEF DeliverWrite
    <2>4. OpType'
        BY <1>0, <1>1, <2>1 DEF DeliverWrite, OpType, Delivery
    <2>5. RuntimeType' /\ ChangeType' /\ config' \in [Tags -> Mappings]
        BY <1>0, <1>1, SameRuntimeType DEF DeliverWrite, ChangeType
    <2>6. QED
        BY <2>2, <2>3, <2>4, <2>5, TypePartsNext
<1>2. CASE DeliverApply
    <2>1. op.tag \in Tags /\ op.peers \in Mappings
        BY <1>2, OpForms DEF DeliverApply, NoOp, LockFree
    <2>2. RuntimeType'
        BY <1>0, <1>2, <2>1 DEF DeliverApply, Sync, RuntimeType
    <2>3. HistoryType'
        BY <1>0, <1>2, <2>1 DEF DeliverApply, HistoryType, Sure
    <2>4. FilesType' /\ OpType' /\ ChangeType' /\ config' \in [Tags -> Mappings]
        BY <1>0, <1>2 DEF DeliverApply, files, FilesType, OpType, ChangeType
    <2>5. QED
        BY <2>2, <2>3, <2>4, TypePartsNext
<1>3. ASSUME NEW o \in Outcomes, DeliverRestore(o) PROVE TypeOK'
    <2>1. op.tag \in Tags /\ op.before.snapshot \in Snapshots
        BY <1>3, OpForms DEF DeliverRestore, NoOp, LockFree, Files
    <2>2. FilesType'
        BY <1>0, <1>3, <2>1, SnapshotEntries, PutType DEF DeliverRestore
    <2>3. HistoryType'
        BY <1>0, <1>3, <2>1, DoubtType DEF DeliverRestore
    <2>4. RuntimeType' /\ OpType' /\ ChangeType' /\ config' \in [Tags -> Mappings]
        BY <1>0, <1>3, SameRuntimeType DEF DeliverRestore, OpType, ChangeType
    <2>5. QED
        BY <2>2, <2>3, <2>4, TypePartsNext
<1>4. QED
    BY <1>1, <1>2, <1>3 DEF Deliver

LEMMA RequestType ==
    ASSUME TypeOK, Request
    PROVE  TypeOK'
<1>0. /\ FilesType /\ RuntimeType /\ HistoryType /\ OpType /\ ChangeType
      /\ config \in [Tags -> Mappings] /\ disk \in Files
      /\ active \in [Tags -> Mappings]
    BY TypeParts DEF FilesType, RuntimeType
<1>1. ASSUME NEW kind \in Kinds, NEW t \in Tags, NEW to \in Mappings, NEW o \in Outcomes,
             Arrive(kind, t, to, o)
      PROVE  TypeOK'
    <2>1. FilesType'
        BY <1>0, <1>1, MarkEffect DEF Arrive, FilesType, files
    <2>2. ChangeType'
        <3>1. Begin(kind, t, to) => change' \in Change
            <4>1. config[t] \in Mappings
                BY <1>0
            <4>2. CASE kind = "remove"
                BY <4>1, <4>2 DEF Begin, Change, ChangeSteps
            <4>3. CASE kind /= "remove"
                BY <4>1, <4>3 DEF Begin, Change, ChangeSteps
            <4>4. QED
                BY <4>2, <4>3
        <3>2. QED
            BY <1>0, <1>1, <3>1 DEF Arrive, ChangeType
    <2>3. RuntimeType' /\ HistoryType' /\ OpType' /\ config' \in [Tags -> Mappings]
        BY <1>0, <1>1, SameRuntimeType DEF Arrive, NoDoubt, HistoryType, OpType
    <2>4. QED
        BY <2>1, <2>2, <2>3, TypePartsNext
<1>2. ASSUME NEW bad \in BOOLEAN, Save(bad) \/ Swap(bad) \/ Undo(bad)
      PROVE  TypeOK'
    <2>0. change \in Change /\ change.tag \in Tags /\ change.to \in Mappings
          /\ change.from \in Mappings
        BY <1>2, ChangeForms DEF Save, Swap, Undo
    <2>1. FilesType'
        BY <1>0, <1>2, FaultType DEF Save, Swap, Undo
    <2>2. config' \in [Tags -> Mappings]
        BY <1>0, <1>2, <2>0 DEF Save, Swap, Undo
    <2>3. CASE Save(bad)
        <3>1. ChangeType'
            BY <2>0, <2>3, GotoFields DEF Save, ChangeType, ChangeSteps
        <3>2. RuntimeType' /\ HistoryType' /\ OpType'
            BY <1>0, <2>3, SameRuntimeType DEF Save, NoDoubt, HistoryType, OpType
        <3>3. QED
            BY <2>1, <2>2, <3>1, <3>2, TypePartsNext
    <2>4. CASE Swap(bad)
        <3>1. ChangeType'
            BY <2>0, <2>4, FailType DEF Swap, ChangeType
        <3>2. RuntimeType' /\ HistoryType' /\ OpType'
            BY <1>0, <2>0, <2>4, NullTypes DEF Swap, NoDoubt, HistoryType, OpType, RuntimeType
        <3>3. QED
            BY <2>1, <2>2, <3>1, <3>2, TypePartsNext
    <2>5. CASE Undo(bad)
        <3>1. ChangeType'
            BY <2>0, <2>5 DEF Undo, ChangeType, Change, ChangeSteps
        <3>2. RuntimeType' /\ HistoryType' /\ OpType'
            BY <1>0, <2>0, <2>5, NullTypes DEF Undo, NoDoubt, HistoryType, OpType, RuntimeType
        <3>3. QED
            BY <2>1, <2>2, <3>1, <3>2, TypePartsNext
    <2>6. QED
        BY <1>2, <2>3, <2>4, <2>5
<1>3. CASE Drop
    <2>0. change \in Change /\ change.tag \in Tags
        BY <1>3, ChangeForms DEF Drop
    <2>1. ChangeType'
        BY <1>3, <2>0, GotoFields DEF Drop, ChangeType, ChangeSteps
    <2>2. RuntimeType'
        BY <1>0, <1>3, <2>0, NullTypes DEF Drop, RuntimeType
    <2>3. FilesType' /\ HistoryType' /\ OpType' /\ config' \in [Tags -> Mappings]
        BY <1>0, <1>3 DEF Drop, files, FilesType, HistoryType, NoDoubt, OpType
    <2>4. QED
        BY <2>1, <2>2, <2>3, TypePartsNext
<1>4. ASSUME NEW o \in Outcomes, Check(o) PROVE TypeOK'
    <2>0. change \in Change
        BY <1>4, ChangeForms DEF Check
    <2>1. ChangeType'
        BY <1>4, <2>0, GotoFields, FailType DEF Check, ChangeType, ChangeSteps
    <2>2. FilesType'
        BY <1>0, <1>4, MarkEffect DEF Check, FilesType, files
    <2>3. RuntimeType' /\ HistoryType' /\ OpType' /\ config' \in [Tags -> Mappings]
        BY <1>0, <1>4, SameRuntimeType DEF Check, NoDoubt, HistoryType, OpType
    <2>4. QED
        BY <2>1, <2>2, <2>3, TypePartsNext
<1>5. QED
    BY <1>1, <1>2, <1>3, <1>4 DEF Request

(* What a removal gives up, it gives up for the request that waits for it.  *)
LEMMA DeleteType ==
    ASSUME TypeOK, OpIsWritten, Delete
    PROVE  TypeOK'
<1>0. /\ FilesType /\ RuntimeType /\ HistoryType /\ OpType /\ ChangeType
      /\ config \in [Tags -> Mappings] /\ disk \in Files
    BY TypeParts DEF FilesType
<1>1. ASSUME NEW o \in Outcomes, DeleteWrite(o) PROVE TypeOK'
    <2>0. change \in Change /\ change.tag \in Tags
        BY <1>1, ChangeForms DEF DeleteWrite
    <2>1. FilesType'
        <3>1. With(disk, change.tag, None) \in Files
            BY <1>0, <2>0, NullTypes, WithEntries
        <3>2. QED
            BY <1>0, <1>1, <3>1, FaultType, PutType
            DEF DeleteWrite, Without, FilesType, files, SameFiles
    <2>2. ChangeType'
        BY <1>1, <2>0, FailType DEF DeleteWrite, ChangeType
    <2>3. OpType'
        <3>1. Deleting("unmark") \/ Deleting("restore") => op' \in Removal
            BY <1>0, <2>0 DEF Deleting, Removal
        <3>2. QED
            BY <1>0, <1>1, <3>1 DEF DeleteWrite, OpType
    <2>4. RuntimeType' /\ HistoryType' /\ config' \in [Tags -> Mappings]
        BY <1>0, <1>1, SameRuntimeType DEF DeleteWrite, NoDoubt, HistoryType
    <2>5. QED
        BY <2>1, <2>2, <2>3, <2>4, TypePartsNext
<1>2. ASSUME op.kind = "delete"
      PROVE  /\ op \in Removal /\ op.tag \in Tags /\ op.before \in Files
             /\ op.before.snapshot \in Snapshots /\ op.before.marker \in BOOLEAN
    BY <1>2, OpForms, NoChangeIdle DEF LockFree, Files
<1>3. ASSUME NEW o \in Outcomes, DeleteUnmark(o) PROVE TypeOK'
    <2>0. op \in Removal /\ op.tag \in Tags
        BY <1>2, <1>3 DEF DeleteUnmark
    <2>1. FilesType'
        BY <1>0, <1>3, MarkerEntries, PutType DEF DeleteUnmark, FilesType, files
    <2>2. CASE Dropped(op.tag)
        <3>1. RuntimeType'
            BY <1>0, <1>3, <2>0, <2>2, NullTypes DEF DeleteUnmark, Dropped, RuntimeType
        <3>2. HistoryType'
            BY <1>0, <2>0, <2>2, NullTypes DEF Dropped, HistoryType, Sure, NoDoubt
        <3>3. OpType' /\ ChangeType' /\ config' \in [Tags -> Mappings]
            BY <1>0, <1>3, <2>2 DEF DeleteUnmark, Dropped, OpType, ChangeType
        <3>4. QED
            BY <2>1, <3>1, <3>2, <3>3, TypePartsNext
    <2>3. CASE /\ op' = [op EXCEPT !.step = "restore"]
               /\ UNCHANGED <<limiter, acked, change>> /\ NoDoubt
        <3>1. OpType'
            BY <2>0, <2>3 DEF OpType, Removal
        <3>2. /\ RuntimeType' /\ HistoryType' /\ ChangeType'
              /\ config' \in [Tags -> Mappings]
            BY <1>0, <1>3, <2>3
            DEF DeleteUnmark, RuntimeType, HistoryType, ChangeType, NoDoubt
        <3>3. QED
            BY <2>1, <3>1, <3>2, TypePartsNext
    <2>4. QED
        BY <1>3, <2>2, <2>3 DEF DeleteUnmark
<1>4. ASSUME NEW o \in Outcomes, DeleteRestore(o) PROVE TypeOK'
    <2>0. op \in Removal /\ op.tag \in Tags /\ op.before.snapshot \in Snapshots
        BY <1>2, <1>4 DEF DeleteRestore
    <2>1. FilesType'
        BY <1>0, <1>4, <2>0, SnapshotEntries, PutType DEF DeleteRestore
    <2>2. OpType'
        BY <1>4, <2>0 DEF DeleteRestore, OpType, Removal
    <2>3. HistoryType'
        BY <1>0, <1>4, <2>0, DoubtType DEF DeleteRestore
    <2>4. RuntimeType' /\ ChangeType' /\ config' \in [Tags -> Mappings]
        BY <1>0, <1>4, SameRuntimeType DEF DeleteRestore, ChangeType
    <2>5. QED
        BY <2>1, <2>2, <2>3, <2>4, TypePartsNext
<1>5. ASSUME NEW o \in Outcomes, DeleteRemark(o) PROVE TypeOK'
    <2>0. op.tag \in Tags /\ op.before.marker \in BOOLEAN /\ change \in Change
        BY <1>2, <1>5, ChangeForms DEF DeleteRemark, OpIsWritten
    <2>1. FilesType'
        BY <1>0, <1>5, <2>0, MarkerEntries, PutType DEF DeleteRemark
    <2>2. OpType' /\ ChangeType'
        BY <1>5, <2>0, FailType DEF DeleteRemark, Refused, OpType
    <2>3. HistoryType'
        BY <1>0, <1>5, <2>0, DoubtType DEF DeleteRemark
    <2>4. RuntimeType' /\ config' \in [Tags -> Mappings]
        BY <1>0, <1>5, SameRuntimeType DEF DeleteRemark
    <2>5. QED
        BY <2>1, <2>2, <2>3, <2>4, TypePartsNext
<1>6. QED
    BY <1>1, <1>3, <1>4, <1>5 DEF Delete

LEMMA LifeType ==
    ASSUME TypeOK, Start \/ Stop \/ Kill \/ PowerLoss
    PROVE  TypeOK'
<1>0. /\ FilesType /\ RuntimeType /\ HistoryType /\ OpType /\ ChangeType
      /\ config \in [Tags -> Mappings]
    BY TypeParts
<1>1. Down => RuntimeType'
    BY NullTypes DEF Down, RuntimeType
<1>2. CASE Start
    <2>1. \A t \in Tags : Info(Mapping(disk, t)) \in [peers : Mappings, required : BOOLEAN]
        BY <1>0, MappingType, InfoType DEF FilesType
    <2>2. RuntimeType'
        BY <1>0, <1>2, <2>1, NullTypes DEF Start, RuntimeType
    <2>3. FilesType' /\ HistoryType' /\ OpType' /\ ChangeType' /\ config' \in [Tags -> Mappings]
        BY <1>0, <1>2 DEF Start, files, FilesType, HistoryType, OpType, ChangeType
    <2>4. QED
        BY <2>2, <2>3, TypePartsNext
<1>3. CASE Stop
    <2>1. FilesType' /\ HistoryType' /\ OpType' /\ ChangeType' /\ config' \in [Tags -> Mappings]
        BY <1>0, <1>3 DEF Stop, files, NoDoubt, FilesType, HistoryType, OpType, ChangeType
    <2>2. QED
        BY <1>1, <1>3, <2>1, TypePartsNext DEF Stop
<1>4. CASE Interrupted /\ FilesType'
    <2>1. HistoryType'
        <3>1. ~LockFree => op.tag \in Tags
            BY OpForms
        <3>2. QED
            BY <1>0, <1>4, <3>1 DEF Interrupted, HistoryType, Doubt, NoDoubt
    <2>2. OpType' /\ ChangeType' /\ config' \in [Tags -> Mappings]
        BY <1>0, <1>4 DEF Interrupted, OpType, ChangeType
    <2>3. QED
        BY <1>1, <1>4, <2>1, <2>2, TypePartsNext DEF Interrupted
<1>5. CASE Kill
    BY <1>0, <1>4, <1>5 DEF Kill, Interrupted, SameFiles, FilesType
<1>6. CASE PowerLoss
    <2>1. \A s \in {disk.snapshot, durable.snapshot}, m \in {disk.marker, durable.marker} :
            [snapshot |-> s, marker |-> m] \in Files
        BY <1>0 DEF FilesType, Files
    <2>2. FilesType'
        BY <1>0, <1>6, <2>1 DEF PowerLoss, Interrupted, FilesType
    <2>3. QED
        BY <1>4, <1>6, <2>2 DEF PowerLoss
<1>7. QED
    BY <1>2, <1>3, <1>5, <1>6

LEMMA InitType == Init => TypeOK
<1> SUFFICES ASSUME Init PROVE TypeOK
    OBVIOUS
<1>1. disk \in Files /\ durable \in Files
    BY DEF Init, Files, Snapshots
<1>2. limiter \in [Tags -> [peers : Mappings, required : BOOLEAN]]
    BY NullTypes DEF Init
<1>3. /\ config \in [Tags -> Mappings] /\ active \in [Tags -> Mappings]
      /\ acked \in [Tags -> Mappings]
    BY NullTypes DEF Init
<1>4. faults \in 0 .. MaxFaults
    BY DEF Init, SnapshotAssumption
<1>5. QED
    BY <1>1, <1>2, <1>3, <1>4 DEF Init, TypeOK

LEMMA NextType == TypeOK /\ OpIsWritten /\ [Next]_vars => TypeOK'
<1>1. TypeOK /\ UNCHANGED vars => TypeOK'
    BY DEF vars, files, runtime, TypeOK
<1>2. QED
    BY <1>1, DeliverType, RequestType, DeleteType, LifeType DEF Next

-----------------------------------------------------------------------------
(* Files, limiter and acknowledgements                                      *)

(* What the properties of the files say of what they depend on: nothing of  *)
(* the marker, and nothing of the requests.                                 *)
LEMMA FilesAside ==
    ASSUME TypeOK, LimiterIsDisk, AckedSurvives, LimiterRequires, BeforeIsKnown,
           UNCHANGED <<limiter, core, op, acked, doubtful, half>>,
           \/ SameFiles
           \/ /\ LockFree /\ disk'.snapshot = disk.snapshot
              /\ durable'.snapshot \in {disk.snapshot, durable.snapshot}
    PROVE  LimiterIsDisk' /\ AckedSurvives' /\ LimiterRequires' /\ BeforeIsKnown'
<1>1. \A t \in Tags : Mapping(disk', t) = Mapping(disk, t)
    BY DEF SameFiles, Mapping
<1>2. LimiterIsDisk'
    BY <1>1 DEF LimiterIsDisk, LockFree
<1>3. AckedSurvives'
    <2>1. \A t \in Tags : Mapping(durable', t) \in {Mapping(disk, t), Mapping(durable, t)}
        BY DEF SameFiles, Mapping
    <2>2. QED
        BY <1>1, <2>1 DEF AckedSurvives, LockFree
<1>4. LimiterRequires'
    BY DEF LimiterRequires
<1>5. BeforeIsKnown'
    BY <1>1 DEF BeforeIsKnown, LockFree, SameFiles
<1>6. QED
    BY <1>2, <1>3, <1>4, <1>5

(* An address that the disk maps, while nobody writes, is one that the      *)
(* limiter requires.                                                        *)
LEMMA RequiredIsRequired ==
    ASSUME TypeOK, LimiterIsDisk, LimiterRequires, core, LockFree,
           NEW t \in Tags, NEW peers, Required(t, peers), peers /= {}
    PROVE  limiter[t].required \/ t \in half
<1>1. Peers(Mapping(disk, t)) /= {}
    <2>1. disk.snapshot /= None /\ peers \subseteq Peers(disk.snapshot[t])
        BY DEF Required
    <2>2. QED
        BY <2>1 DEF Mapping
<1>2. t \notin half => limiter[t].peers = Mapping(disk, t)
    BY DEF LimiterIsDisk
<1>3. QED
    BY <1>1, <1>2 DEF LimiterRequires

(* Steps of a request that do not touch a removal in progress.              *)
LEMMA WrittenAside ==
    ASSUME TypeOK, OpIsWritten, UNCHANGED <<op, doubtful, half>>,
           change.step /= "delete", SameFiles \/ LockFree
    PROVE  OpIsWritten'
<1>1. op.kind /= "delete"
    BY DEF OpIsWritten
<1>2. CASE SameFiles
    BY <1>1, <1>2 DEF OpIsWritten, SameFiles, Mapping
<1>3. CASE LockFree
    BY <1>3, OpForms DEF OpIsWritten
<1>4. QED
    BY <1>2, <1>3

-----------------------------------------------------------------------------
(* Requests                                                                 *)

LEMMA ArriveKeeps ==
    ASSUME TypeOK, SnapshotInv, NEW kind \in Kinds, NEW t \in Tags, NEW to \in Mappings,
           NEW o \in Outcomes, Arrive(kind, t, to, o)
    PROVE  SnapshotInv'
<1>0. /\ ActivePeersIdentified /\ LimiterIsDisk /\ AckedSurvives /\ LimiterRequires
      /\ ChangeIsSafe /\ BeforeIsKnown /\ OpIsWritten
    BY DEF SnapshotInv
<1>1. /\ UNCHANGED <<limiter, core, active, op, acked, doubtful, half>>
      /\ change.step = "idle"
    BY NoChangeIdle DEF Arrive, runtime, NoDoubt
<1>2. \/ SameFiles
      \/ /\ LockFree /\ disk'.snapshot = disk.snapshot
         /\ durable'.snapshot \in {disk.snapshot, durable.snapshot}
    BY MarkEffect DEF Arrive, TypeOK, files, SameFiles
<1>3. ActivePeersIdentified'
    BY <1>0, <1>1 DEF ActivePeersIdentified
<1>4. LimiterIsDisk' /\ AckedSurvives' /\ LimiterRequires' /\ BeforeIsKnown'
    BY <1>0, <1>1, <1>2, FilesAside
<1>5. OpIsWritten'
    BY <1>0, <1>1, <1>2, WrittenAside
<1>6. ChangeIsSafe'
    <2>1. CASE UNCHANGED change
        BY <1>0, <1>1, <2>1 DEF ChangeIsSafe
    <2>2. CASE Begin(kind, t, to) /\ kind = "remove"
        BY <2>2 DEF Begin, ChangeIsSafe
    <2>3. CASE Begin(kind, t, to) /\ kind = "client"
        BY <2>3 DEF Begin, ChangeIsSafe
    <2>4. CASE Begin(kind, t, to) /\ kind = "add"
        <3>1. core /\ Peers(to) /= {} => limiter[t].required \/ t \in half
            BY <1>0, <2>4, RequiredIsRequired DEF Arrive
        <3>2. change'.step = "save" /\ change'.kind = "add" /\ change'.tag = t /\ change'.to = to
            BY <2>4 DEF Begin
        <3>3. QED
            BY <1>1, <3>1, <3>2 DEF ChangeIsSafe
    <2>5. QED
        BY <2>1, <2>2, <2>3, <2>4 DEF Arrive, Kinds
<1>7. QED
    BY <1>3, <1>4, <1>5, <1>6 DEF SnapshotInv

(* The steps of a request, all but the first: they leave what was decided   *)
(* of the files, of which they may only set the marker.                     *)
LEMMA StepLeavesFiles ==
    ASSUME TypeOK, SnapshotInv,
           UNCHANGED <<limiter, core, op, acked, doubtful, half>>,
           change.step /= "delete",
           \/ SameFiles
           \/ /\ LockFree /\ disk'.snapshot = disk.snapshot
              /\ durable'.snapshot \in {disk.snapshot, durable.snapshot},
           ActivePeersIdentified', ChangeIsSafe'
    PROVE  SnapshotInv'
<1>1. /\ LimiterIsDisk /\ AckedSurvives /\ LimiterRequires /\ BeforeIsKnown /\ OpIsWritten
    BY DEF SnapshotInv
<1>2. LimiterIsDisk' /\ AckedSurvives' /\ LimiterRequires' /\ BeforeIsKnown'
    BY <1>1, FilesAside
<1>3. OpIsWritten'
    BY <1>1, WrittenAside
<1>4. QED
    BY <1>2, <1>3 DEF SnapshotInv

(* A request that ends, or turns to its undo, relies on nothing.            *)
LEMMA OverIsSafe ==
    ASSUME change'.step \in {"idle", "undo", "check"}
    PROVE  ChangeIsSafe'
BY DEF ChangeIsSafe

LEMMA SaveKeeps ==
    ASSUME TypeOK, SnapshotInv, NEW bad \in BOOLEAN, Save(bad)
    PROVE  SnapshotInv'
<1>0. /\ ActivePeersIdentified /\ ChangeIsSafe /\ change.step = "save" /\ change \in Change
      /\ change.kind \in Kinds
    BY ChangeForms DEF SnapshotInv, Save
<1>1. UNCHANGED <<limiter, core, active, op, acked, doubtful, half>> /\ SameFiles
    BY DEF Save, runtime, NoDoubt
<1>2. ActivePeersIdentified'
    BY <1>0, <1>1 DEF ActivePeersIdentified
<1>3. \/ change' = NoChange \/ Goto("undo")
      \/ Goto("check")
      \/ Goto("swap") /\ change.kind = "add"
      \/ Goto("delete") /\ change.kind = "remove"
    BY <1>0 DEF Save, Kinds
<1>4. CASE change' = NoChange \/ Goto("undo") \/ Goto("check")
    <2>1. change'.step \in {"idle", "undo", "check"}
        BY <1>0, <1>4, GotoFields, NoChangeIdle DEF ChangeSteps
    <2>2. QED
        BY <1>0, <1>1, <1>2, <2>1, OverIsSafe, StepLeavesFiles
<1>5. CASE Goto("swap") /\ change.kind = "add"
    <2>1. change'.step = "swap" /\ change'.tag = change.tag /\ change'.to = change.to
        BY <1>0, <1>5, GotoFields DEF ChangeSteps
    <2>2. ChangeIsSafe'
        BY <1>0, <1>1, <1>5, <2>1 DEF ChangeIsSafe
    <2>3. QED
        BY <1>0, <1>1, <1>2, <2>2, StepLeavesFiles
<1>6. CASE Goto("delete") /\ change.kind = "remove"
    <2>1. change'.step = "delete" /\ change'.tag = change.tag
        BY <1>0, <1>6, GotoFields DEF ChangeSteps
    <2>2. ChangeIsSafe'
        BY <1>0, <1>1, <1>6, <2>1 DEF ChangeIsSafe
    <2>3. QED
        BY <1>0, <1>1, <1>2, <2>2, StepLeavesFiles
<1>7. QED
    BY <1>3, <1>4, <1>5, <1>6

LEMMA CheckKeeps ==
    ASSUME TypeOK, SnapshotInv, NEW o \in Outcomes, Check(o)
    PROVE  SnapshotInv'
<1>0. /\ ActivePeersIdentified /\ LimiterIsDisk /\ LimiterRequires /\ change.step = "check"
      /\ change \in Change /\ change.tag \in Tags /\ LockFree
    BY ChangeForms DEF SnapshotInv, Check
<1>1. UNCHANGED <<limiter, core, active, op, acked, doubtful, half>>
    BY DEF Check, runtime, NoDoubt
<1>2. /\ disk'.snapshot = disk.snapshot
      /\ durable'.snapshot \in {disk.snapshot, durable.snapshot}
    BY MarkEffect DEF Check, TypeOK, files
<1>3. ActivePeersIdentified'
    BY <1>0, <1>1 DEF ActivePeersIdentified
<1>4. ChangeIsSafe'
    <2>1. CASE Goto("swap") /\ Required(change.tag, Peers(change.to))
        <3>1. change'.step = "swap" /\ change'.tag = change.tag /\ change'.to = change.to
            BY <1>0, <2>1, GotoFields DEF ChangeSteps
        <3>2. core /\ Peers(change.to) /= {} =>
                limiter[change.tag].required \/ change.tag \in half
            BY <1>0, <2>1, RequiredIsRequired
        <3>3. QED
            BY <1>1, <3>1, <3>2 DEF ChangeIsSafe
    <2>2. CASE Fail
        BY <1>0, <2>2, FailMoves, NoChangeIdle, OverIsSafe
    <2>3. QED
        BY <2>1, <2>2 DEF Check
<1>5. QED
    BY <1>0, <1>1, <1>2, <1>3, <1>4, StepLeavesFiles

LEMMA SwapKeeps ==
    ASSUME TypeOK, SnapshotInv, NEW bad \in BOOLEAN, Swap(bad)
    PROVE  SnapshotInv'
<1>0. /\ ActivePeersIdentified /\ ChangeIsSafe /\ change.step = "swap" /\ change \in Change
      /\ change.tag \in Tags /\ active \in [Tags -> Mappings]
    BY ChangeForms DEF SnapshotInv, Swap, TypeOK
<1>1. UNCHANGED <<limiter, core, op, acked, doubtful, half>> /\ SameFiles
    BY DEF Swap, NoDoubt
<1>2. ActivePeersIdentified'
    <2>1. ASSUME NEW t \in Tags, core, Peers(active'[t]) /= {}
          PROVE  limiter[t].required \/ t \in half
        <3>1. CASE t = change.tag /\ ~bad
            BY <1>0, <2>1, <3>1 DEF Swap, ChangeIsSafe
        <3>2. CASE t = change.tag /\ bad
            BY <1>0, <2>1, <3>2, PeersOfNone DEF Swap
        <3>3. CASE t /= change.tag
            BY <1>0, <2>1, <3>3 DEF Swap, ActivePeersIdentified
        <3>4. QED
            BY <3>1, <3>2, <3>3
    <2>2. QED
        BY <1>1, <2>1 DEF ActivePeersIdentified
<1>3. ChangeIsSafe'
    BY <1>0, FailMoves, NoChangeIdle, OverIsSafe DEF Swap
<1>4. QED
    BY <1>0, <1>1, <1>2, <1>3, StepLeavesFiles

LEMMA DropUndoKeep ==
    ASSUME TypeOK, SnapshotInv, Drop \/ \E bad \in BOOLEAN : Undo(bad)
    PROVE  SnapshotInv'
<1>0. /\ ActivePeersIdentified /\ ChangeIsSafe /\ change.step \in {"drop", "undo"}
      /\ change \in Change /\ change.tag \in Tags /\ active \in [Tags -> Mappings]
    BY ChangeForms DEF SnapshotInv, Drop, Undo, TypeOK
<1>1. UNCHANGED <<limiter, core, op, acked, doubtful, half>> /\ SameFiles
    BY DEF Drop, Undo, NoDoubt, files, SameFiles
<1>2. active' \in {active, [active EXCEPT ![change.tag] = None]}
    BY DEF Drop, Undo
<1>3. ActivePeersIdentified'
    <2>1. \A t \in Tags : active'[t] = active[t] \/ Peers(active'[t]) = {}
        BY <1>0, <1>2, PeersOfNone
    <2>2. QED
        BY <1>0, <1>1, <2>1 DEF ActivePeersIdentified
<1>4. ChangeIsSafe'
    <2>1. CASE Drop /\ core
        <3>1. change'.step = "save" /\ change'.kind = "remove" /\ change'.tag = change.tag
            BY <1>0, <2>1, GotoFields DEF Drop, ChangeSteps, ChangeIsSafe
        <3>2. active'[change.tag] = None
            BY <1>0, <2>1 DEF Drop
        <3>3. QED
            BY <3>1, <3>2 DEF ChangeIsSafe
    <2>2. CASE Drop /\ ~core
        BY <2>2, NoChangeIdle, OverIsSafe DEF Drop
    <2>3. CASE \E bad \in BOOLEAN : Undo(bad)
        <3>1. change'.step \in {"idle", "check"}
            BY <1>0, <2>3, NoChangeIdle DEF Undo, Change
        <3>2. QED
            BY <3>1, OverIsSafe
    <2>4. QED
        BY <2>1, <2>2, <2>3
<1>5. QED
    BY <1>0, <1>1, <1>3, <1>4, StepLeavesFiles

LEMMA RequestKeeps == ASSUME TypeOK, SnapshotInv, Request PROVE SnapshotInv'
BY ArriveKeeps, SaveKeeps, CheckKeeps, SwapKeeps, DropUndoKeep DEF Request

-----------------------------------------------------------------------------
(* Deliveries                                                               *)

(* A step that leaves the core and the request alone.                       *)
LEMMA RuntimeAside ==
    ASSUME UNCHANGED <<limiter, core, active, change>>, half \subseteq half',
           ActivePeersIdentified, LimiterRequires, ChangeIsSafe
    PROVE  ActivePeersIdentified' /\ LimiterRequires' /\ ChangeIsSafe'
BY DEF ActivePeersIdentified, LimiterRequires, ChangeIsSafe

LEMMA DeliverWriteKeeps ==
    ASSUME TypeOK, SnapshotInv, NEW t \in Tags, NEW m \in SUBSET Addrs, NEW o \in Outcomes,
           DeliverWrite(t, m, o)
    PROVE  SnapshotInv'
<1> DEFINE new == With(disk, t, m)
<1>0. /\ ActivePeersIdentified /\ LimiterIsDisk /\ AckedSurvives /\ LimiterRequires
      /\ ChangeIsSafe /\ LockFree /\ op.kind = "none"
    BY OpForms DEF SnapshotInv, DeliverWrite
<1>1. /\ new \in Files /\ Mapping(new, t) = m
      /\ \A s \in Tags \ {t} : Mapping(new, s) = Mapping(disk, s)
    <2>1. m \in Mappings /\ disk \in Files
        BY NullTypes DEF TypeOK
    <2>2. QED
        BY <2>1, WithEntries
<1>2. /\ disk' \in {disk, new} /\ durable' \in {durable, new}
      /\ Good(o) => disk' = new /\ durable' = new
      /\ ~Good(o) => durable' = durable
      /\ ~Good(o) /\ o /= "unsynced" => disk' = disk
    BY <1>1, PutEffect DEF DeliverWrite, TypeOK
<1>3. UNCHANGED <<limiter, core, active, change, acked>>
    BY DEF DeliverWrite, runtime
<1>4. half \subseteq half' /\ doubtful \subseteq doubtful'
    BY DEF DeliverWrite, Doubt, NoDoubt
<1>5. ActivePeersIdentified' /\ LimiterRequires' /\ ChangeIsSafe'
    BY <1>0, <1>3, <1>4, RuntimeAside
<1>6. CASE Good(o)
    <2>1. /\ op' = [kind |-> "deliver", tag |-> t, peers |-> m, before |-> disk]
          /\ UNCHANGED <<half, doubtful>>
        BY <1>6 DEF DeliverWrite, NoDoubt
    <2>2. /\ op'.kind = "deliver" /\ op'.tag = t /\ op'.peers = m /\ op'.before = disk
          /\ ~LockFree'
        BY <2>1 DEF LockFree, NoOp
    <2>3. LimiterIsDisk' /\ AckedSurvives'
        BY <2>2 DEF LimiterIsDisk, AckedSurvives
    <2>4. OpIsWritten'
        BY <1>1, <1>2, <1>6, <2>2 DEF OpIsWritten
    <2>5. BeforeIsKnown'
        BY <1>0, <1>1, <1>2, <1>3, <1>6, <2>1, <2>2
        DEF BeforeIsKnown, LimiterIsDisk, AckedSurvives
    <2>6. QED
        BY <1>5, <2>3, <2>4, <2>5 DEF SnapshotInv
<1>7. CASE ~Good(o)
    <2>1. op' = op /\ LockFree' /\ op'.kind = "none"
        BY <1>0, <1>7 DEF DeliverWrite, LockFree
    <2>2. BeforeIsKnown' /\ OpIsWritten'
        BY <2>1 DEF BeforeIsKnown, OpIsWritten
    <2>3. /\ o = "unsynced" => t \in half' /\ t \in doubtful'
          /\ \A s \in Tags : s \notin half' \cap doubtful' =>
                s \notin half \cap doubtful /\ Mapping(disk', s) = Mapping(disk, s)
          /\ \A s \in Tags : s \notin doubtful' =>
                s \notin doubtful /\ Mapping(disk', s) = Mapping(disk, s)
        <3>1. o = "unsynced" => t \in half' /\ t \in doubtful'
            BY <1>7 DEF DeliverWrite, Doubt
        <3>2. \A s \in Tags : Mapping(disk', s) = Mapping(disk, s)
                              \/ (s = t /\ o = "unsynced")
            BY <1>1, <1>2, <1>7
        <3>3. QED
            BY <1>4, <3>1, <3>2
    <2>4. LimiterIsDisk'
        BY <1>0, <1>3, <2>1, <2>3 DEF LimiterIsDisk
    <2>5. AckedSurvives'
        BY <1>0, <1>2, <1>3, <1>7, <2>1, <2>3 DEF AckedSurvives
    <2>6. QED
        BY <1>5, <2>2, <2>4, <2>5 DEF SnapshotInv
<1>8. QED
    BY <1>6, <1>7

LEMMA DeliverApplyKeeps ==
    ASSUME TypeOK, SnapshotInv, DeliverApply
    PROVE  SnapshotInv'
<1>0. /\ ActivePeersIdentified /\ LimiterRequires /\ ChangeIsSafe /\ BeforeIsKnown
      /\ OpIsWritten /\ op.kind = "deliver" /\ core
    BY DEF SnapshotInv, DeliverApply
<1>1. /\ ~LockFree /\ op.tag \in Tags /\ op.peers \in Mappings
      /\ Mapping(disk, op.tag) = op.peers /\ Mapping(durable, op.tag) = op.peers
    BY <1>0, OpForms DEF OpIsWritten, NoOp, LockFree
<1>2. /\ UNCHANGED <<disk, durable, core, active, change, half>>
      /\ op'.kind = "none" /\ LockFree' /\ doubtful' = doubtful \ {op.tag}
    BY NoChangeIdle DEF DeliverApply, files, Sure, LockFree
<1>3. /\ limiter'[op.tag].peers = op.peers
      /\ limiter'[op.tag].required =
            (limiter[op.tag].required \/ Peers(op.peers) /= {})
      /\ \A s \in Tags \ {op.tag} : limiter'[s] = limiter[s]
    <2>1. limiter \in [Tags -> [peers : Mappings, required : BOOLEAN]]
        BY DEF TypeOK
    <2>2. limiter' = Sync(op.tag, op.peers)
        BY DEF DeliverApply
    <2>3. QED
        BY <1>1, <2>1, <2>2 DEF Sync
<1>4. /\ acked'[op.tag] = op.peers /\ \A s \in Tags \ {op.tag} : acked'[s] = acked[s]
    BY <1>1 DEF DeliverApply, TypeOK
<1>5. \A s \in Tags : limiter[s].required => limiter'[s].required
    BY <1>3
<1>6. ActivePeersIdentified'
    BY <1>0, <1>2, <1>5 DEF ActivePeersIdentified
<1>7. LimiterRequires'
    BY <1>0, <1>3 DEF LimiterRequires
<1>8. ChangeIsSafe'
    <2>1. change.step /= "idle" => change.tag \in Tags
        BY ChangeForms
    <2>2. QED
        BY <1>0, <1>2, <1>5, <2>1 DEF ChangeIsSafe
<1>9. LimiterIsDisk'
    <2>1. ASSUME NEW s \in Tags, s \notin half' \cap doubtful'
          PROVE  limiter'[s].peers = Mapping(disk', s)
        <3>1. CASE s = op.tag
            BY <1>1, <1>2, <1>3, <3>1
        <3>2. CASE s /= op.tag
            BY <1>0, <1>1, <1>2, <1>3, <2>1, <3>2 DEF BeforeIsKnown
        <3>3. QED
            BY <3>1, <3>2
    <2>2. QED
        BY <2>1 DEF LimiterIsDisk
<1>10. AckedSurvives'
    <2>1. ASSUME NEW s \in Tags, s \notin doubtful'
          PROVE  Mapping(disk', s) = acked'[s] /\ Mapping(durable', s) = acked'[s]
        <3>1. CASE s = op.tag
            BY <1>1, <1>2, <1>4, <3>1
        <3>2. CASE s /= op.tag
            BY <1>0, <1>1, <1>2, <1>4, <2>1, <3>2 DEF BeforeIsKnown
        <3>3. QED
            BY <3>1, <3>2
    <2>2. QED
        BY <2>1 DEF AckedSurvives
<1>11. BeforeIsKnown' /\ OpIsWritten'
    BY <1>2 DEF BeforeIsKnown, OpIsWritten
<1>12. QED
    BY <1>6, <1>7, <1>8, <1>9, <1>10, <1>11 DEF SnapshotInv

LEMMA DeliverRestoreKeeps ==
    ASSUME TypeOK, SnapshotInv, NEW o \in Outcomes, DeliverRestore(o)
    PROVE  SnapshotInv'
<1> DEFINE old == [disk EXCEPT !.snapshot = op.before.snapshot]
<1>0. /\ ActivePeersIdentified /\ LimiterRequires /\ ChangeIsSafe /\ BeforeIsKnown
      /\ op.kind = "deliver" /\ ~core
    BY DEF SnapshotInv, DeliverRestore
<1>1. ~LockFree /\ op.tag \in Tags /\ op.before \in Files
    BY <1>0, OpForms DEF NoOp, LockFree
<1>2. old \in Files /\ \A s \in Tags : Mapping(old, s) = Mapping(op.before, s)
    <2>1. old \in Files /\ old.snapshot = op.before.snapshot
        BY <1>1, SnapshotEntries DEF TypeOK, Files
    <2>2. QED
        BY <2>1 DEF Mapping
<1>3. /\ disk' \in {disk, old} /\ durable' \in {durable, old}
      /\ Good(o) => disk' = old /\ durable' = old
    BY <1>2, PutEffect DEF DeliverRestore, TypeOK
<1>4. /\ UNCHANGED <<limiter, core, active, change, acked>>
      /\ op'.kind = "none" /\ LockFree'
      /\ half \subseteq half' /\ doubtful \subseteq doubtful'
      /\ Good(o) \/ op.tag \in doubtful'
    BY NoChangeIdle DEF DeliverRestore, runtime, Doubt, NoDoubt, LockFree
<1>5. ActivePeersIdentified' /\ LimiterRequires' /\ ChangeIsSafe'
    BY <1>0, <1>4, RuntimeAside
<1>6. LimiterIsDisk'
    BY <1>0, <1>4 DEF LimiterIsDisk
<1>7. AckedSurvives'
    <2>1. ASSUME NEW s \in Tags, s \notin doubtful'
          PROVE  Mapping(disk', s) = acked[s] /\ Mapping(durable', s) = acked[s]
        <3>1. Mapping(old, s) = acked[s]
            BY <1>0, <1>1, <1>2, <1>4, <2>1 DEF BeforeIsKnown
        <3>2. CASE Good(o)
            BY <1>3, <3>1, <3>2
        <3>3. CASE s /= op.tag
            BY <1>0, <1>1, <1>3, <1>4, <2>1, <3>1, <3>3 DEF BeforeIsKnown
        <3>4. QED
            BY <1>4, <2>1, <3>2, <3>3
    <2>2. QED
        BY <1>4, <2>1 DEF AckedSurvives
<1>8. BeforeIsKnown' /\ OpIsWritten'
    BY <1>4 DEF BeforeIsKnown, OpIsWritten
<1>9. QED
    BY <1>5, <1>6, <1>7, <1>8 DEF SnapshotInv

-----------------------------------------------------------------------------
(* Removals                                                                 *)

LEMMA DeleteWriteKeeps ==
    ASSUME TypeOK, SnapshotInv, NEW o \in Outcomes, DeleteWrite(o)
    PROVE  SnapshotInv'
<1> DEFINE t == change.tag
           new == Without(disk, t)
<1>0. /\ ActivePeersIdentified /\ LimiterIsDisk /\ AckedSurvives /\ LimiterRequires
      /\ ChangeIsSafe /\ BeforeIsKnown /\ LockFree /\ op.kind = "none"
      /\ change.step = "delete" /\ change \in Change /\ t \in Tags
    BY OpForms, ChangeForms DEF SnapshotInv, DeleteWrite
<1>1. UNCHANGED <<limiter, core, active, acked, doubtful, half>>
    BY DEF DeleteWrite, runtime, NoDoubt
<1>2. CASE (Fail \/ change' = NoChange) /\ SameFiles /\ UNCHANGED op
    <2>1. change'.step \in {"idle", "undo"}
        BY <1>0, <1>2, FailMoves, NoChangeIdle
    <2>2. LimiterIsDisk' /\ AckedSurvives' /\ LimiterRequires' /\ BeforeIsKnown'
        BY <1>0, <1>1, <1>2, FilesAside
    <2>3. ActivePeersIdentified' /\ OpIsWritten'
        BY <1>0, <1>1, <1>2 DEF ActivePeersIdentified, OpIsWritten
    <2>4. ChangeIsSafe'
        BY <2>1, OverIsSafe
    <2>5. QED
        BY <2>2, <2>3, <2>4 DEF SnapshotInv
<1>3. ASSUME NEW step \in {"unmark", "restore"}, Deleting(step), UNCHANGED change,
             \A s \in Tags \ {t} : Mapping(disk', s) = Mapping(disk, s),
             \A s \in Tags \ {t} : \/ Mapping(durable', s) = Mapping(durable, s)
                                   \/ Mapping(durable', s) = Mapping(disk, s),
             step = "unmark" => /\ Mapping(disk', t) = None
                                /\ \/ Mapping(durable', t) = None
                                   \/ t \in doubtful /\ disk'.snapshot = disk.snapshot
      PROVE  SnapshotInv'
    <2>1. /\ op'.kind = "delete" /\ op'.tag = t /\ op'.step = step /\ op'.before = disk
          /\ ~LockFree'
        BY <1>3 DEF Deleting, LockFree, NoOp
    <2>2. ActivePeersIdentified' /\ LimiterRequires' /\ ChangeIsSafe'
        BY <1>0, <1>1, <1>3, RuntimeAside
    <2>3. LimiterIsDisk' /\ AckedSurvives'
        BY <2>1 DEF LimiterIsDisk, AckedSurvives
    <2>4. BeforeIsKnown'
        BY <1>0, <1>1, <1>3, <2>1 DEF BeforeIsKnown, LimiterIsDisk, AckedSurvives
    <2>5. OpIsWritten'
        BY <1>0, <1>1, <1>3, <2>1 DEF OpIsWritten
    <2>6. QED
        BY <2>2, <2>3, <2>4, <2>5 DEF SnapshotInv
<1>4. CASE SameFiles /\ Mapping(disk, t) = None /\ Deleting("unmark") /\ UNCHANGED change
    <2>1. Mapping(durable, t) = None \/ t \in doubtful
        BY <1>0, <1>4 DEF AckedSurvives
    <2>2. QED
        BY <1>3, <1>4, <2>1 DEF SameFiles
<1>5. CASE /\ Put(new, o) /\ Deleting(IF Good(o) THEN "unmark" ELSE "restore")
           /\ UNCHANGED change
    <2>1. /\ new \in Files /\ Mapping(new, t) = None
          /\ \A s \in Tags \ {t} : Mapping(new, s) = Mapping(disk, s)
        <3>1. None \in Mappings /\ disk \in Files
            BY NullTypes DEF TypeOK
        <3>2. QED
            BY <1>0, <3>1, WithEntries DEF Without
    <2>2. /\ disk' \in {disk, new} /\ durable' \in {durable, new}
          /\ Good(o) => disk' = new /\ durable' = new
        BY <1>5, <2>1, PutEffect DEF TypeOK
    <2>3. CASE Good(o)
        BY <1>3, <1>5, <2>1, <2>2, <2>3
    <2>4. CASE ~Good(o)
        BY <1>3, <1>5, <2>1, <2>2, <2>4
    <2>5. QED
        BY <2>3, <2>4
<1>6. QED
    BY <1>2, <1>4, <1>5 DEF DeleteWrite, files, SameFiles

(* A removal that goes on or gives up finds the inbound stopped.            *)
LEMMA Removing ==
    ASSUME TypeOK, SnapshotInv, op.kind = "delete"
    PROVE  /\ ~LockFree /\ op \in Removal /\ op.tag \in Tags /\ op.before \in Files
           /\ op.before.snapshot \in Snapshots /\ op.before.marker \in BOOLEAN
           /\ change.step = "delete" /\ change.tag = op.tag /\ change \in Change
           /\ active[op.tag] = None
<1>1. ~LockFree /\ op \in Removal /\ op.tag \in Tags /\ op.before \in Files
    BY OpForms, NoChangeIdle DEF LockFree
<1>2. change.step = "delete" /\ change.tag = op.tag
    BY DEF SnapshotInv, OpIsWritten
<1>3. QED
    BY <1>1, <1>2, ChangeForms DEF SnapshotInv, ChangeIsSafe, Files

LEMMA DeleteUnmarkKeeps ==
    ASSUME TypeOK, SnapshotInv, NEW o \in Outcomes, DeleteUnmark(o)
    PROVE  SnapshotInv'
<1> DEFINE t == op.tag
<1>0. /\ ActivePeersIdentified /\ LimiterRequires /\ ChangeIsSafe /\ BeforeIsKnown
      /\ OpIsWritten /\ op.kind = "delete" /\ op.step = "unmark"
    BY DEF SnapshotInv, DeleteUnmark
<1>1. /\ ~LockFree /\ op \in Removal /\ t \in Tags /\ change.step = "delete"
      /\ change.tag = t /\ active[t] = None
    BY <1>0, Removing
<1>2. /\ disk'.snapshot = disk.snapshot
      /\ durable'.snapshot \in {durable.snapshot, disk.snapshot}
    BY MarkerEntries, PutEffect DEF DeleteUnmark, TypeOK, files
<1>3. /\ \A s \in Tags : Mapping(disk', s) = Mapping(disk, s)
      /\ \A s \in Tags : Mapping(durable', s) \in {Mapping(durable, s), Mapping(disk, s)}
    BY <1>2 DEF Mapping
<1>4. UNCHANGED <<core, active, config>>
    BY DEF DeleteUnmark
<1>5. CASE Dropped(t)
    <2>1. /\ op'.kind = "none" /\ LockFree' /\ change'.step = "idle" /\ half' = half
          /\ doubtful' = doubtful \/ op.before.snapshot /= disk.snapshot
          /\ doubtful \ {t} \subseteq doubtful' /\ doubtful' \subseteq doubtful
        BY <1>2, <1>5, NoChangeIdle DEF Dropped, Sure, NoDoubt, LockFree
    <2>2. /\ limiter'[t].peers = None /\ acked'[t] = None
          /\ \A s \in Tags \ {t} : limiter'[s] = limiter[s] /\ acked'[s] = acked[s]
        BY <1>1, <1>5, NullTypes DEF Dropped, TypeOK
    <2>3. ActivePeersIdentified'
        <3>1. ASSUME NEW s \in Tags, core, Peers(active[s]) /= {}
              PROVE  limiter'[s].required \/ s \in half
            BY <1>0, <1>1, <2>2, <3>1, PeersOfNone DEF ActivePeersIdentified
        <3>2. QED
            BY <1>4, <2>1, <3>1 DEF ActivePeersIdentified
    <2>4. LimiterRequires'
        BY <1>0, <2>2, PeersOfNone DEF LimiterRequires
    <2>5. ChangeIsSafe' /\ BeforeIsKnown' /\ OpIsWritten'
        BY <2>1, OverIsSafe DEF BeforeIsKnown, OpIsWritten
    <2>6. LimiterIsDisk'
        <3>1. ASSUME core, NEW s \in Tags, s \notin half' \cap doubtful'
              PROVE  limiter'[s].peers = Mapping(disk', s)
            <4>1. CASE s = t
                BY <1>0, <1>3, <2>2, <4>1 DEF OpIsWritten
            <4>2. CASE s /= t
                BY <1>0, <1>1, <1>3, <2>1, <2>2, <3>1, <4>2 DEF BeforeIsKnown
            <4>3. QED
                BY <4>1, <4>2
        <3>2. QED
            BY <1>4, <3>1 DEF LimiterIsDisk
    <2>7. AckedSurvives'
        <3>1. ASSUME NEW s \in Tags, s \notin doubtful'
              PROVE  Mapping(disk', s) = acked'[s] /\ Mapping(durable', s) = acked'[s]
            <4>1. CASE s = t
                <5>1. Mapping(disk, t) = None /\ Mapping(durable, t) = None
                    BY <1>0, <2>1, <3>1, <4>1 DEF OpIsWritten
                <5>2. QED
                    BY <1>3, <2>2, <4>1, <5>1
            <4>2. CASE s /= t
                BY <1>0, <1>1, <1>3, <2>1, <2>2, <3>1, <4>2 DEF BeforeIsKnown
            <4>3. QED
                BY <4>1, <4>2
        <3>2. QED
            BY <3>1 DEF AckedSurvives
    <2>8. QED
        BY <2>3, <2>4, <2>5, <2>6, <2>7 DEF SnapshotInv
<1>6. CASE /\ op' = [op EXCEPT !.step = "restore"]
           /\ UNCHANGED <<limiter, acked, change>> /\ NoDoubt
    <2>1. /\ op'.kind = "delete" /\ op'.step = "restore" /\ op'.tag = t
          /\ op'.before = op.before /\ ~LockFree' /\ UNCHANGED <<doubtful, half>>
        BY <1>0, <1>1, <1>6 DEF Removal, LockFree, NoOp, NoDoubt
    <2>2. ActivePeersIdentified' /\ LimiterRequires' /\ ChangeIsSafe'
        BY <1>0, <1>4, <1>6, <2>1, RuntimeAside
    <2>3. LimiterIsDisk' /\ AckedSurvives' /\ OpIsWritten'
        BY <1>1, <1>6, <2>1 DEF LimiterIsDisk, AckedSurvives, OpIsWritten
    <2>4. BeforeIsKnown'
        BY <1>0, <1>1, <1>3, <1>4, <1>6, <2>1 DEF BeforeIsKnown
    <2>5. QED
        BY <2>2, <2>3, <2>4 DEF SnapshotInv
<1>7. QED
    BY <1>5, <1>6 DEF DeleteUnmark

LEMMA DeleteRestoreKeeps ==
    ASSUME TypeOK, SnapshotInv, NEW o \in Outcomes, DeleteRestore(o)
    PROVE  SnapshotInv'
<1> DEFINE t == op.tag
           old == [disk EXCEPT !.snapshot = op.before.snapshot]
<1>0. /\ ActivePeersIdentified /\ LimiterRequires /\ ChangeIsSafe /\ BeforeIsKnown
      /\ op.kind = "delete"
    BY DEF SnapshotInv, DeleteRestore
<1>1. /\ ~LockFree /\ op \in Removal /\ t \in Tags /\ op.before.snapshot \in Snapshots
      /\ change.step = "delete" /\ change.tag = t
    BY <1>0, Removing
<1>2. /\ old \in Files /\ old.snapshot = op.before.snapshot
      /\ \A s \in Tags : Mapping(old, s) = Mapping(op.before, s)
    <2>1. old \in Files /\ old.snapshot = op.before.snapshot
        BY <1>1, SnapshotEntries DEF TypeOK
    <2>2. QED
        BY <2>1 DEF Mapping
<1>3. /\ disk' \in {disk, old} /\ durable' \in {durable, old}
      /\ Good(o) => disk' = old /\ durable' = old
    BY <1>2, PutEffect DEF DeleteRestore, TypeOK
<1>4. /\ UNCHANGED <<limiter, core, active, change, acked>>
      /\ op' = [op EXCEPT !.step = "remark"]
      /\ half \subseteq half' /\ doubtful \subseteq doubtful'
      /\ Good(o) \/ t \in half' \cap doubtful'
    BY DEF DeleteRestore, runtime, Doubt, NoDoubt
<1>5. /\ op'.kind = "delete" /\ op'.step = "remark" /\ op'.tag = t
      /\ op'.before = op.before /\ ~LockFree'
    BY <1>0, <1>1, <1>4 DEF Removal, LockFree, NoOp
<1>6. ActivePeersIdentified' /\ LimiterRequires' /\ ChangeIsSafe'
    BY <1>0, <1>4, RuntimeAside
<1>7. LimiterIsDisk' /\ AckedSurvives'
    BY <1>5 DEF LimiterIsDisk, AckedSurvives
<1>8. BeforeIsKnown'
    <2>1. core => \A s \in Tags \ (half \cap doubtful) : limiter[s].peers = Mapping(op.before, s)
        BY <1>0, <1>1 DEF BeforeIsKnown
    <2>2. \A s \in Tags \ {t} : Mapping(disk', s) = Mapping(op.before, s)
        BY <1>0, <1>1, <1>2, <1>3 DEF BeforeIsKnown
    <2>3. \A s \in Tags \ doubtful : Mapping(op.before, s) = acked[s]
        BY <1>0, <1>1 DEF BeforeIsKnown
    <2>4. \A s \in Tags \ (doubtful \cup {t}) : Mapping(durable', s) = acked[s]
        BY <1>0, <1>1, <1>2, <1>3, <2>3 DEF BeforeIsKnown
    <2>5. QED
        BY <1>4, <1>5, <2>1, <2>2, <2>3, <2>4 DEF BeforeIsKnown
<1>9. OpIsWritten'
    <2>1. t \in half' \cap doubtful' \/ (disk'.snapshot = op.before.snapshot
                                         /\ durable'.snapshot = op.before.snapshot)
        BY <1>2, <1>3, <1>4
    <2>2. QED
        BY <1>1, <1>4, <1>5, <2>1 DEF OpIsWritten
<1>10. QED
    BY <1>6, <1>7, <1>8, <1>9 DEF SnapshotInv

LEMMA DeleteRemarkKeeps ==
    ASSUME TypeOK, SnapshotInv, NEW o \in Outcomes, DeleteRemark(o)
    PROVE  SnapshotInv'
<1> DEFINE t == op.tag
<1>0. /\ ActivePeersIdentified /\ LimiterRequires /\ ChangeIsSafe /\ BeforeIsKnown
      /\ OpIsWritten /\ op.kind = "delete" /\ op.step = "remark"
    BY DEF SnapshotInv, DeleteRemark
<1>1. /\ ~LockFree /\ op \in Removal /\ t \in Tags /\ op.before.marker \in BOOLEAN
      /\ change \in Change
    BY <1>0, Removing
<1>2. /\ disk'.snapshot = disk.snapshot
      /\ durable'.snapshot \in {durable.snapshot, disk.snapshot}
    BY <1>1, MarkerEntries, PutEffect DEF DeleteRemark, TypeOK
<1>3. /\ \A s \in Tags : Mapping(disk', s) = Mapping(disk, s)
      /\ \A s \in Tags : Mapping(durable', s) \in {Mapping(durable, s), Mapping(disk, s)}
    BY <1>2 DEF Mapping
<1>4. /\ UNCHANGED <<limiter, core, active, acked>>
      /\ half \subseteq half' /\ doubtful \subseteq doubtful'
      /\ op'.kind = "none" /\ LockFree' /\ change'.step \in {"idle", "undo"}
    BY <1>1, FailMoves, NoChangeIdle
    DEF DeleteRemark, runtime, Doubt, NoDoubt, Refused, LockFree
<1>5. ActivePeersIdentified' /\ LimiterRequires'
    BY <1>0, <1>4 DEF ActivePeersIdentified, LimiterRequires
<1>6. ChangeIsSafe' /\ BeforeIsKnown' /\ OpIsWritten'
    BY <1>4, OverIsSafe DEF BeforeIsKnown, OpIsWritten
<1>7. \/ t \in half \cap doubtful
      \/ /\ Mapping(disk, t) = Mapping(op.before, t)
         /\ Mapping(durable, t) = Mapping(op.before, t)
    BY <1>0 DEF OpIsWritten, Mapping
<1>8. LimiterIsDisk'
    <2>1. ASSUME core, NEW s \in Tags, s \notin half' \cap doubtful'
          PROVE  limiter[s].peers = Mapping(disk, s)
        <3>1. limiter[s].peers = Mapping(op.before, s)
            BY <1>0, <1>1, <1>4, <2>1 DEF BeforeIsKnown
        <3>2. CASE s = t
            BY <1>4, <1>7, <2>1, <3>1, <3>2
        <3>3. CASE s /= t
            BY <1>0, <1>1, <3>1, <3>3 DEF BeforeIsKnown
        <3>4. QED
            BY <3>2, <3>3
    <2>2. QED
        BY <1>3, <1>4, <2>1 DEF LimiterIsDisk
<1>9. AckedSurvives'
    <2>1. ASSUME NEW s \in Tags, s \notin doubtful'
          PROVE  Mapping(disk, s) = acked[s] /\ Mapping(durable, s) = acked[s]
        <3>1. Mapping(op.before, s) = acked[s]
            BY <1>0, <1>1, <1>4, <2>1 DEF BeforeIsKnown
        <3>2. CASE s = t
            BY <1>4, <1>7, <2>1, <3>1, <3>2
        <3>3. CASE s /= t
            BY <1>0, <1>1, <1>4, <2>1, <3>1, <3>3 DEF BeforeIsKnown
        <3>4. QED
            BY <3>2, <3>3
    <2>2. QED
        BY <1>3, <1>4, <2>1 DEF AckedSurvives
<1>10. QED
    BY <1>5, <1>6, <1>8, <1>9 DEF SnapshotInv

LEMMA DeleteKeeps == ASSUME TypeOK, SnapshotInv, Delete PROVE SnapshotInv'
BY DeleteWriteKeeps, DeleteUnmarkKeeps, DeleteRestoreKeeps, DeleteRemarkKeeps DEF Delete

LEMMA DeliverKeeps == ASSUME TypeOK, SnapshotInv, Deliver PROVE SnapshotInv'
BY DeliverWriteKeeps, DeliverApplyKeeps, DeliverRestoreKeeps DEF Deliver

-----------------------------------------------------------------------------
(* The life of the core                                                     *)

LEMMA StartKeeps ==
    ASSUME TypeOK, SnapshotInv, Start
    PROVE  SnapshotInv'
<1>0. /\ AckedSurvives /\ LockFree /\ op.kind = "none" /\ change.step = "idle"
      /\ UNCHANGED <<disk, durable, acked, doubtful, op, change>> /\ half' = {}
    BY OpForms, NoChangeIdle DEF SnapshotInv, Start, files
<1>1. ASSUME NEW t \in Tags
      PROVE  /\ limiter'[t].peers = Mapping(disk, t)
             /\ Peers(Mapping(disk, t)) /= {} => limiter'[t].required
             /\ Peers(active'[t]) /= {} => Peers(Mapping(disk, t)) /= {}
    <2>1. limiter'[t] = Info(Mapping(disk, t)) /\ Mapping(disk, t) \in Mappings
        BY MappingType DEF Start, TypeOK
    <2>2. active'[t] = IF Complete(t) THEN config[t] ELSE None
        BY DEF Start
    <2>3. Complete(t) /\ Peers(config[t]) /= {} => Peers(Mapping(disk, t)) /= {}
        BY DEF Complete, Peers
    <2>4. QED
        BY <2>1, <2>2, <2>3, InfoType, PeersOfNone
<1>2. ActivePeersIdentified' /\ LimiterRequires'
    BY <1>1 DEF ActivePeersIdentified, LimiterRequires
<1>3. LimiterIsDisk'
    BY <1>0, <1>1 DEF LimiterIsDisk
<1>4. AckedSurvives'
    BY <1>0 DEF AckedSurvives
<1>5. ChangeIsSafe' /\ BeforeIsKnown' /\ OpIsWritten'
    BY <1>0 DEF ChangeIsSafe, BeforeIsKnown, OpIsWritten, LockFree
<1>6. QED
    BY <1>2, <1>3, <1>4, <1>5 DEF SnapshotInv

(* A core that is down vouches for nothing, so that what must be found      *)
(* again is all on the disk.                                                *)
LEMMA DownIsSafe ==
    ASSUME Down, op' = NoOp, change'.step = "idle", AckedSurvives'
    PROVE  SnapshotInv'
<1>1. ActivePeersIdentified' /\ LimiterIsDisk'
    BY DEF Down, ActivePeersIdentified, LimiterIsDisk
<1>2. LimiterRequires'
    BY NullTypes, PeersOfNone DEF Down, LimiterRequires
<1>3. ChangeIsSafe' /\ BeforeIsKnown' /\ OpIsWritten'
    BY NoChangeIdle DEF ChangeIsSafe, BeforeIsKnown, OpIsWritten, LockFree
<1>4. QED
    BY <1>1, <1>2, <1>3 DEF SnapshotInv

LEMMA InterruptedKeeps ==
    ASSUME TypeOK, SnapshotInv, Kill \/ PowerLoss
    PROVE  SnapshotInv'
<1>1. /\ AckedSurvives /\ BeforeIsKnown /\ Interrupted /\ acked' = acked
      /\ doubtful \subseteq doubtful' /\ (~LockFree => op.tag \in doubtful')
    BY DEF SnapshotInv, Kill, PowerLoss, Interrupted, Doubt, NoDoubt
<1>2. \A s \in Tags : s \notin doubtful' =>
            Mapping(disk, s) = acked[s] /\ Mapping(durable, s) = acked[s]
    BY <1>1 DEF AckedSurvives, BeforeIsKnown
<1>3. \A s \in Tags : /\ Mapping(disk', s) \in {Mapping(disk, s), Mapping(durable, s)}
                      /\ Mapping(durable', s) \in {Mapping(disk, s), Mapping(durable, s)}
    <2>1. CASE Kill
        BY <2>1 DEF Kill, SameFiles
    <2>2. CASE PowerLoss
        <3>1. /\ disk'.snapshot \in {disk.snapshot, durable.snapshot} /\ durable' = disk'
            BY <2>2 DEF PowerLoss
        <3>2. QED
            BY <3>1 DEF Mapping
    <2>3. QED
        BY <2>1, <2>2
<1>4. AckedSurvives'
    BY <1>1, <1>2, <1>3 DEF AckedSurvives
<1>5. QED
    BY <1>1, <1>4, NoChangeIdle, DownIsSafe DEF Interrupted

LEMMA StopKeeps ==
    ASSUME TypeOK, SnapshotInv, Stop
    PROVE  SnapshotInv'
<1>1. AckedSurvives'
    BY DEF SnapshotInv, Stop, files, NoDoubt, AckedSurvives, LockFree
<1>2. QED
    BY <1>1, NoChangeIdle, DownIsSafe DEF Stop, LockFree

-----------------------------------------------------------------------------
(* The theorems                                                             *)

LEMMA SnapshotInit == Init => SnapshotInv
<1> SUFFICES ASSUME Init PROVE SnapshotInv
    OBVIOUS
<1>1. \A t \in Tags : /\ Mapping(disk, t) = None /\ Mapping(durable, t) = None
                      /\ acked[t] = None /\ limiter[t] = NoInfo
    BY DEF Init, Mapping, Empty
<1>2. core = FALSE /\ op = NoOp /\ op.kind = "none" /\ change.step = "idle"
    BY NoChangeIdle DEF Init
<1>3. ActivePeersIdentified /\ LimiterIsDisk /\ AckedSurvives
    BY <1>1, <1>2 DEF ActivePeersIdentified, LimiterIsDisk, AckedSurvives
<1>4. LimiterRequires
    BY <1>1, NullTypes, PeersOfNone DEF LimiterRequires
<1>5. ChangeIsSafe /\ BeforeIsKnown /\ OpIsWritten
    BY <1>2 DEF ChangeIsSafe, BeforeIsKnown, OpIsWritten, LockFree
<1>6. QED
    BY <1>3, <1>4, <1>5 DEF SnapshotInv

LEMMA SnapshotNext == TypeOK /\ SnapshotInv /\ [Next]_vars => SnapshotInv'
<1>1. ASSUME TypeOK, SnapshotInv, UNCHANGED vars PROVE SnapshotInv'
    BY <1>1
    DEF vars, files, runtime, SnapshotInv, ActivePeersIdentified, LimiterIsDisk,
        AckedSurvives, LimiterRequires, ChangeIsSafe, BeforeIsKnown, OpIsWritten, LockFree,
        Mapping
<1>2. QED
    BY <1>1, DeliverKeeps, RequestKeeps, DeleteKeeps, StartKeeps, StopKeeps,
       InterruptedKeeps DEF Next

(* The variables hold what the code can store in them.                      *)
THEOREM TypeCorrect == Spec => []TypeOK
<1>1. SnapshotInv => OpIsWritten
    BY DEF SnapshotInv
<1>2. QED
    BY <1>1, InitType, NextType, SnapshotInit, SnapshotNext, PTL DEF Spec

LEMMA SnapshotCorrect == Spec => []SnapshotInv
BY TypeCorrect, SnapshotInit, SnapshotNext, PTL DEF Spec

(* An inbound with peers is served only while the limiter requires their    *)
(* identity, unless one of its own operations failed halfway since the core *)
(* was started.                                                             *)
THEOREM PeersAreIdentified == Spec => []ActivePeersIdentified
<1>1. SnapshotInv => ActivePeersIdentified
    BY DEF SnapshotInv
<1>2. QED
    BY <1>1, SnapshotCorrect, PTL

(* No delivery, removal or start leaves the limiter on another generation   *)
(* of the mappings than the disk.                                           *)
THEOREM LimiterFollowsDisk == Spec => []LimiterIsDisk
<1>1. SnapshotInv => LimiterIsDisk
    BY DEF SnapshotInv
<1>2. QED
    BY <1>1, SnapshotCorrect, PTL

(* What was acknowledged is found after a crash or a power loss, and what   *)
(* was refused never is.                                                    *)
THEOREM AcknowledgedMappingsSurvive == Spec => []AckedSurvives
<1>1. SnapshotInv => AckedSurvives
    BY DEF SnapshotInv
<1>2. QED
    BY <1>1, SnapshotCorrect, PTL

================================================================================
