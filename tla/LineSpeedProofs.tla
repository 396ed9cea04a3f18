---------------------------- MODULE LineSpeedProofs ----------------------------
(***************************************************************************)
(* LineSpeed, for any number of crashes, faults and changes of somebody    *)
(* else: what is executed is the pinned binary and has its user's consent, *)
(* the service recognises its own files, and a removal leaves nothing.     *)
(***************************************************************************)
EXTENDS LineSpeed, TLAPS

USE LineSpeedAssumption

--------------------------------------------------------------------------------
(* The operators the actions are built from.                               *)

LEMMA Names ==
    /\ \A e \in {"binary", "marker", "home"} : e \in Entries
    /\ \A v \in {"none", "pinned", "other"} : v \in Contents
    /\ \A s \in {"prepare", "complete", "download", "stage", "verify", "rename", "mark",
                 "renameMark", "check", "recheck", "binary", "marker", "home", "acknowledge", "open",
                 "test", "fallback"} : s \in Steps
    /\ \A k \in {"install", "remove", "run"} : k \in Ops
BY DEF Entries, Contents, Steps, Ops

LEMMA IdleForms == Idle \in Op /\ Idle \notin Operation /\ NoChild \in Child /\ NoChild \notin Process
BY DEF Op, Idle, Operation, Ops, Child, NoChild, Process

LEMMA OpForms == TypeOK /\ op /= Idle => op \in Operation
BY DEF TypeOK, Op

LEMMA AtForms ==
    ASSUME TypeOK, NEW step \in Steps, At(step)
    PROVE  op \in Operation /\ op /= Idle /\ op.step = step
BY OpForms DEF At

LEMMA GotoForms ==
    ASSUME op \in Operation, NEW step \in Steps, Goto(step)
    PROVE  /\ op' \in Operation /\ op' \in Op /\ op' /= Idle
           /\ op'.step = step /\ op'.seen = op.seen /\ op'.kind = op.kind
<1>1. op' \in Operation /\ op'.step = step /\ op'.seen = op.seen /\ op'.kind = op.kind
    BY DEF Goto, Operation
<1>2. QED
    BY <1>1, IdleForms DEF Op

LEMMA BeginForms ==
    ASSUME NEW kind \in Ops, NEW step \in Steps, Begin(kind, step)
    PROVE  /\ op' \in Operation /\ op' \in Op /\ op' /= Idle
           /\ op'.step = step /\ op'.seen = {} /\ op'.kind = kind
<1>1. op' \in Operation /\ op'.step = step /\ op'.seen = {} /\ op'.kind = kind
    BY DEF Begin, Operation
<1>2. QED
    BY <1>1, IdleForms DEF Op

LEMMA ExecuteForms ==
    ASSUME op \in Operation, NEW content \in Contents, NEW args \in {"version", "test"},
           NEW next \in Steps, Execute(content, args, next)
    PROVE  /\ child' \in Child /\ child' /= NoChild
           /\ child'.content = content /\ child'.args = args
           /\ op' \in Operation /\ op' \in Op /\ op' /= Idle /\ op'.step = next /\ op'.seen = op.seen
<1>1. child' \in Process /\ child'.content = content /\ child'.args = args
    BY DEF Execute, Process
<1>2. QED
    BY <1>1, IdleForms, GotoForms DEF Execute, Child

LEMMA SpendTypes ==
    ASSUME TypeOK, NEW what \in {"crashes", "meddling", "faults"}, Spend(what)
    PROVE  budget' \in [crashes : Nat, meddling : Nat, faults : Nat]
BY DEF TypeOK, Spend

(* One entry changes, and a power loss can leave it as it is now too.      *)
LEMMA SetEntryForms ==
    ASSUME TypeOK, NEW e \in Entries, NEW v \in Contents, SetEntry(e, v)
    PROVE  /\ disk' \in [Entries -> Contents] /\ maybe' \in [Entries -> SUBSET Contents]
           /\ disk'[e] = v /\ maybe'[e] = maybe[e] \cup {v}
           /\ \A f \in Entries \ {e} : disk'[f] = disk[f] /\ maybe'[f] = maybe[f]
BY DEF TypeOK, SetEntry

LEMMA EnsureHomeForms ==
    ASSUME TypeOK, EnsureHome
    PROVE  /\ disk' \in [Entries -> Contents] /\ maybe' \in [Entries -> SUBSET Contents]
           /\ \E e \in Entries : SetEntry(e, "pinned") \/ UNCHANGED <<disk, maybe>>
           /\ \A f \in Entries \ {"home"} : disk'[f] = disk[f] /\ maybe'[f] = maybe[f]
<1>1. CASE SetEntry("home", "pinned")
    BY <1>1, Names, SetEntryForms
<1>2. CASE UNCHANGED <<disk, maybe>>
    BY <1>2, Names DEF TypeOK
<1>3. QED
    BY <1>1, <1>2 DEF EnsureHome
--------------------------------------------------------------------------------
(* What the service itself does, in every step.                            *)

Touches ==
    \/ UNCHANGED <<disk, maybe>>
    \/ \E e \in Entries, v \in {"none", "pinned"} : SetEntry(e, v)

ServiceStep ==
    /\ Touches /\ temps' \subseteq temps \cup {"binary", "marker"}
    /\ UNCHANGED <<foreign, revived>> /\ consent' \in BOOLEAN
    /\ UNCHANGED budget \/ Spend("faults") \/ Spend("crashes")
    /\ op' \in Op /\ child' \in Child

LEMMA HomeTouches == EnsureHome => Touches
BY Names DEF EnsureHome, Touches

LEMMA QuietSteps ==
    ASSUME TypeOK, Quiet, op' \in Op, child' \in Child
    PROVE  ServiceStep
BY DEF Quiet, directory, world, ServiceStep, Touches, TypeOK

LEMMA InstallSteps_Prepare ==
    ASSUME TypeOK, Install \/ Prepare \/ Complete
    PROVE  ServiceStep
<1> USE Names, IdleForms
<1>1. CASE Install
    <2>1. op' \in Op
        BY <1>1, BeginForms DEF Install, TypeOK
    <2>2. QED
        BY <1>1, <2>1 DEF Install, directory, ServiceStep, Touches, TypeOK
<1>2. CASE Prepare
    <2>1. op \in Operation
        BY <1>2, AtForms DEF Prepare
    <2>2. op' \in Op
        BY <1>2, <2>1, GotoForms DEF Prepare
    <2>3. Touches
        BY <1>2, HomeTouches DEF Prepare, Touches, directory
    <2>4. temps' \subseteq temps \cup {"binary", "marker"}
        BY <1>2 DEF Prepare, Cleanup, directory
    <2>5. QED
        BY <1>2, <2>2, <2>3, <2>4 DEF Prepare, world, ServiceStep, TypeOK
<1>3. CASE Complete
    <2>1. op \in Operation /\ disk["binary"] \in Contents
        BY <1>3, AtForms DEF Complete, TypeOK
    <2>2. op' \in Op /\ child' \in Child
        BY <1>3, <2>1, GotoForms, ExecuteForms DEF Complete, TypeOK
    <2>3. Touches
        BY <1>3, HomeTouches DEF Complete, Touches
    <2>4. QED
        BY <1>3, <2>2, <2>3 DEF Complete, world, ServiceStep, TypeOK
<1>4. QED
    BY <1>1, <1>2, <1>3

LEMMA StageForms ==
    ASSUME op \in Operation, op' = [op EXCEPT !.step = "verify", !.staged = TRUE],
           child' = [state |-> "runs", content |-> "pinned", args |-> "version"]
    PROVE  /\ op' \in Operation /\ op' \in Op /\ op' /= Idle /\ op'.step = "verify"
           /\ child' \in Child /\ child' /= NoChild
           /\ child'.content = "pinned" /\ child'.args = "version"
<1>1. op' \in Operation /\ op'.step = "verify"
    BY Names DEF Operation
<1>2. child' \in Process
    BY Names DEF Process
<1>3. QED
    BY <1>1, <1>2, IdleForms DEF Op, Child

LEMMA InstallSteps_Binary ==
    ASSUME TypeOK, Download \/ Stage \/ RenameBinary
    PROVE  ServiceStep
<1> USE Names, IdleForms
<1>1. CASE Download
    <2>1. op \in Operation
        BY <1>1, AtForms DEF Download
    <2>2. op' \in Op
        BY <1>1, <2>1, GotoForms DEF Download
    <2>3. temps' \subseteq temps \cup {"binary", "marker"}
        BY <1>1 DEF Download
    <2>4. QED
        BY <1>1, <2>2, <2>3 DEF Download, world, ServiceStep, Touches, TypeOK
<1>2. CASE Stage
    <2>1. op \in Operation
        BY <1>2, AtForms DEF Stage
    <2>2. op' \in Op /\ child' \in Child
        BY <1>2, <2>1, StageForms DEF Stage, TypeOK
    <2>3. Touches
        BY <1>2, HomeTouches DEF Stage, Touches
    <2>4. temps' \subseteq temps \cup {"binary", "marker"}
        BY <1>2 DEF Stage
    <2>5. QED
        BY <1>2, <2>2, <2>3, <2>4 DEF Stage, world, ServiceStep, TypeOK
<1>3. CASE RenameBinary
    <2>1. op \in Operation
        BY <1>3, AtForms DEF RenameBinary
    <2>2. op' \in Op
        BY <1>3, <2>1, GotoForms DEF RenameBinary
    <2>3. Touches
        BY <1>3 DEF RenameBinary, Touches
    <2>4. temps' \subseteq temps \cup {"binary", "marker"}
        BY <1>3 DEF RenameBinary
    <2>5. QED
        BY <1>3, <2>2, <2>3, <2>4 DEF RenameBinary, world, ServiceStep, TypeOK
<1>4. QED
    BY <1>1, <1>2, <1>3

LEMMA InstallSteps_Marker ==
    ASSUME TypeOK, StageMarker \/ RenameMarker \/ Verified
    PROVE  ServiceStep
<1> USE Names, IdleForms
<1>1. CASE StageMarker
    <2>1. op \in Operation
        BY <1>1, AtForms DEF StageMarker
    <2>2. op' \in Op
        BY <1>1, <2>1, GotoForms DEF StageMarker
    <2>3. temps' \subseteq temps \cup {"binary", "marker"}
        BY <1>1 DEF StageMarker
    <2>4. QED
        BY <1>1, <2>2, <2>3 DEF StageMarker, world, ServiceStep, Touches, TypeOK
<1>2. CASE RenameMarker
    <2>1. op \in Operation
        BY <1>2, AtForms DEF RenameMarker
    <2>2. op' \in Op
        BY <1>2, <2>1, GotoForms DEF RenameMarker
    <2>3. Touches
        BY <1>2 DEF RenameMarker, Touches
    <2>4. temps' \subseteq temps \cup {"binary", "marker"}
        BY <1>2 DEF RenameMarker
    <2>5. QED
        BY <1>2, <2>2, <2>3, <2>4 DEF RenameMarker, world, ServiceStep, TypeOK
<1>3. CASE Verified
    <2>1. op \in Operation
        BY <1>3, AtForms DEF Verified
    <2>2. op' \in Op
        BY <1>3, <2>1, GotoForms DEF Verified
    <2>3. temps' \subseteq temps \cup {"binary", "marker"}
        BY <1>3 DEF Verified
    <2>4. QED
        BY <1>3, <2>2, <2>3 DEF Verified, world, ServiceStep, Touches, TypeOK
<1>4. QED
    BY <1>1, <1>2, <1>3

LEMMA CheckForms ==
    ASSUME op \in Operation,
           op' = [op EXCEPT !.step = "recheck", !.seen = {e \in Entries : disk[e] /= "none"}]
    PROVE  /\ op' \in Operation /\ op' \in Op /\ op' /= Idle
           /\ op'.step = "recheck" /\ op'.seen = {e \in Entries : disk[e] /= "none"}
<1>1. op' \in Operation /\ op'.step = "recheck" /\ op'.seen = {e \in Entries : disk[e] /= "none"}
    BY Names DEF Operation
<1>2. QED
    BY <1>1, IdleForms DEF Op

LEMMA UnlinkTypes ==
    ASSUME TypeOK, NEW e \in Entries, NEW next \in Steps, Unlink(e, next)
    PROVE  ServiceStep
<1>1. op \in Operation
    BY AtForms, Names DEF Unlink, Entries
<1>2. op' \in Op
    BY <1>1, GotoForms, IdleForms DEF Unlink
<1>3. Touches
    BY DEF Unlink, Touches
<1>4. QED
    BY <1>2, <1>3 DEF Unlink, world, ServiceStep, TypeOK

LEMMA RemoveSteps ==
    ASSUME TypeOK, Remove \/ Check \/ Recheck \/ RemoveBinary \/ RemoveMarker \/ RemoveHome \/ Acknowledge
    PROVE  ServiceStep
<1> USE Names, IdleForms
<1>1. CASE Remove
    BY <1>1, BeginForms, QuietSteps DEF Remove, TypeOK
<1>2. CASE Check
    <2>1. op \in Operation
        BY <1>2, AtForms DEF Check
    <2>2. op' \in Op
        BY <1>2, <2>1, CheckForms DEF Check
    <2>3. temps' \subseteq temps \cup {"binary", "marker"}
        BY <1>2 DEF Check, Cleanup
    <2>4. consent' \in BOOLEAN /\ foreign' = foreign /\ revived' = revived
        BY <1>2 DEF Check, world, TypeOK
    <2>5. QED
        BY <1>2, <2>2, <2>3, <2>4 DEF Check, ServiceStep, Touches, TypeOK
<1>3. CASE RemoveBinary \/ RemoveMarker \/ RemoveHome
    BY <1>3, UnlinkTypes DEF RemoveBinary, RemoveMarker, RemoveHome
<1>4. CASE Acknowledge
    BY <1>4 DEF Acknowledge, directory, ServiceStep, Touches, TypeOK
<1>5. CASE Recheck
    <2>1. op \in Operation
        BY <1>5, AtForms DEF Recheck
    <2>2. op' \in Op /\ child' \in Child
        BY <1>5, <2>1, GotoForms DEF Recheck, TypeOK
    <2>3. QED
        BY <1>5, <2>2, QuietSteps DEF Recheck
<1>6. QED
    BY <1>1, <1>2, <1>3, <1>4, <1>5

LEMMA RunSteps ==
    ASSUME TypeOK, Run \/ Open \/ Fallback \/ Tested
    PROVE  ServiceStep
<1> USE Names, IdleForms
<1>1. CASE Run
    BY <1>1, BeginForms, QuietSteps DEF Run, TypeOK
<1>2. CASE Open
    <2>1. op \in Operation /\ disk["binary"] \in Contents
        BY <1>2, AtForms DEF Open, TypeOK
    <2>2. op' \in Op /\ child' \in Child
        BY <1>2, <2>1, ExecuteForms DEF Open, TypeOK
    <2>3. Touches
        BY <1>2, HomeTouches DEF Open, Touches
    <2>4. QED
        BY <1>2, <2>2, <2>3 DEF Open, world, ServiceStep, TypeOK
<1>3. CASE Fallback
    <2>1. op \in Operation
        BY <1>3, AtForms DEF Fallback
    <2>2. child \in Process
        BY <1>3 DEF Fallback, TypeOK, Child, NoChild
    <2>3. child.content \in Contents
        BY <2>2 DEF Process
    <2>4. QED
        BY <1>3, <2>1, <2>3, ExecuteForms, QuietSteps DEF Fallback
<1>4. CASE Tested
    BY <1>4, QuietSteps, IdleForms DEF Tested, End, Op, Child
<1>5. QED
    BY <1>1, <1>2, <1>3, <1>4

(* The process changes its state, and nothing else.                        *)
LEMMA ChildForms ==
    ASSUME child \in Process, NEW s \in {"held", "ok", "failed", "unconnected"},
           child' = [child EXCEPT !.state = s]
    PROVE  /\ child' \in Child /\ child' /= NoChild
           /\ child'.content = child.content /\ child'.args = child.args
<1>1. child' \in Process /\ child'.content = child.content /\ child'.args = child.args
    BY DEF Process
<1>2. QED
    BY <1>1, IdleForms DEF Child

LEMMA ChildMoves ==
    ASSUME TypeOK,
           (\E with \in {"ok", "failed", "unconnected"} : ChildEnds(with)) \/ HelperEnds
    PROVE  /\ child \in Process /\ child' \in Child /\ child' /= NoChild
           /\ child'.content = child.content /\ child'.args = child.args
           /\ UNCHANGED <<directory, op, world>>
           /\ UNCHANGED budget \/ Spend("faults")
<1>1. child \in Process
    BY DEF TypeOK, Child, NoChild, ChildEnds, HelperEnds, Running
<1>2. CASE HelperEnds
    BY <1>1, <1>2, ChildForms DEF HelperEnds
<1>3. ASSUME NEW with \in {"ok", "failed", "unconnected"}, ChildEnds(with)
      PROVE  /\ child' \in Child /\ child' /= NoChild
             /\ child'.content = child.content /\ child'.args = child.args
             /\ UNCHANGED <<directory, op, world>>
             /\ UNCHANGED budget \/ Spend("faults")
    BY <1>1, <1>3, ChildForms DEF ChildEnds
<1>4. QED
    BY <1>1, <1>2, <1>3

LEMMA ExpireForms ==
    ASSUME TypeOK, Expire
    PROVE  /\ op \in Operation /\ op' \in Op /\ op' /= Idle
           /\ op'.step = op.step /\ op'.seen = op.seen
<1>1. op \in Operation
    BY OpForms DEF Expire
<1>2. op' \in Operation /\ op'.step = op.step /\ op'.seen = op.seen
    BY <1>1 DEF Expire, Operation
<1>3. QED
    BY <1>1, <1>2, IdleForms DEF Op

LEMMA ChildSteps ==
    ASSUME TypeOK,
           \/ \E with \in {"ok", "failed", "unconnected"} : ChildEnds(with)
           \/ HelperEnds \/ Expire \/ Killed \/ Kill
    PROVE  ServiceStep
<1>1. CASE Expire
    BY <1>1, ExpireForms, QuietSteps DEF Expire, TypeOK
<1>2. CASE Kill
    BY <1>2, IdleForms DEF Kill, End, directory, world, ServiceStep, Touches, TypeOK
<1>3. CASE \/ \E with \in {"ok", "failed", "unconnected"} : ChildEnds(with)
           \/ HelperEnds \/ Killed
    <2>1. (\E with \in {"ok", "failed", "unconnected"} : ChildEnds(with)) \/ HelperEnds
        BY <1>3 DEF Killed
    <2>2. QED
        BY <2>1, ChildMoves DEF directory, world, ServiceStep, Touches, TypeOK
<1>4. QED
    BY <1>1, <1>2, <1>3

(* All but the steps of the world.                                         *)
Service ==
    \/ Install \/ Remove \/ Run \/ OwnStep
    \/ \E with \in {"ok", "failed", "unconnected"} : ChildEnds(with)
    \/ HelperEnds \/ Expire \/ Killed \/ Kill

LEMMA ServiceSteps == TypeOK /\ Service => ServiceStep
BY InstallSteps_Prepare, InstallSteps_Binary, InstallSteps_Marker, RemoveSteps, RunSteps, ChildSteps
   DEF Service, OwnStep

LEMMA ServiceTypes == TypeOK /\ ServiceStep => TypeOK'
<1> SUFFICES ASSUME TypeOK, ServiceStep PROVE TypeOK'
    OBVIOUS
<1>1. disk' \in [Entries -> Contents] /\ maybe' \in [Entries -> SUBSET Contents]
    <2>1. CASE UNCHANGED <<disk, maybe>>
        BY <2>1 DEF TypeOK
    <2>2. CASE \E e \in Entries, v \in {"none", "pinned"} : SetEntry(e, v)
        BY <2>2, SetEntryForms, Names
    <2>3. QED
        BY <2>1, <2>2 DEF ServiceStep, Touches
<1>2. temps' \subseteq Temporaries
    BY DEF ServiceStep, TypeOK, Temporaries
<1>3. budget' \in [crashes : Nat, meddling : Nat, faults : Nat]
    BY SpendTypes DEF ServiceStep, TypeOK
<1>4. consent' \in BOOLEAN /\ foreign' \in BOOLEAN /\ revived' \in BOOLEAN
    BY DEF ServiceStep, TypeOK
<1>5. QED
    BY <1>1, <1>2, <1>3, <1>4 DEF ServiceStep, TypeOK
--------------------------------------------------------------------------------
(* Type correctness.                                                       *)

LEMMA PowerLossForms ==
    ASSUME TypeOK, PowerLoss
    PROVE  /\ disk' \in [Entries -> Contents] /\ maybe' \in [Entries -> SUBSET Contents]
           /\ \A e \in Entries : disk'[e] \in maybe[e] /\ maybe'[e] = {disk'[e]}
           /\ temps' \subseteq temps /\ op' = Idle /\ child' = NoChild
           /\ consent' = consent /\ foreign' = foreign /\ revived' \in BOOLEAN
           /\ revived => revived'
           /\ \A e \in Entries : disk'[e] \in {disk[e], "none"} \/ revived'
BY DEF PowerLoss, End, TypeOK

LEMMA WriteBackForms ==
    ASSUME TypeOK, WriteBack
    PROVE  /\ maybe' \in [Entries -> SUBSET Contents]
           /\ \A e \in Entries : maybe'[e] = {disk[e]}
           /\ disk' = disk /\ temps' = temps /\ op' = op /\ child' = child
           /\ UNCHANGED <<consent, foreign, revived, budget>>
BY DEF WriteBack, world, TypeOK

LEMMA MeddleForms ==
    ASSUME TypeOK, Meddle
    PROVE  /\ disk' \in [Entries -> Contents] /\ maybe' \in [Entries -> SUBSET Contents]
           /\ \A e \in Entries : maybe[e] \subseteq maybe'[e]
           /\ \A e \in Entries : disk'[e] = disk[e] \/ disk'[e] \in maybe'[e]
           /\ disk'["marker"] \in {disk["marker"], "none", "other"}
           /\ temps' \subseteq Temporaries /\ foreign' /\ foreign' \in BOOLEAN
           /\ UNCHANGED <<op, child, consent, revived>>
<1> USE Names
<1>1. foreign' /\ foreign' \in BOOLEAN /\ UNCHANGED <<op, child, consent, revived>>
    BY DEF Meddle
<1>2. CASE \E e \in Entries, v \in {"none", "other"} : SetEntry(e, v) /\ UNCHANGED temps
    BY <1>1, <1>2, SetEntryForms DEF TypeOK
<1>3. CASE SetEntry("binary", "pinned") /\ UNCHANGED temps
    BY <1>1, <1>3, SetEntryForms DEF TypeOK
<1>4. CASE temps' = temps \cup {"other"} /\ UNCHANGED <<disk, maybe>>
    BY <1>1, <1>4 DEF TypeOK, Temporaries
<1>5. QED
    BY <1>2, <1>3, <1>4 DEF Meddle

LEMMA NextParts ==
    Next => Service \/ Meddle \/ WriteBack \/ PowerLoss
BY DEF Next, Service

LEMMA TypeStep == TypeOK /\ [Next]_vars => TypeOK'
<1> SUFFICES ASSUME TypeOK, [Next]_vars PROVE TypeOK'
    OBVIOUS
<1>1. CASE Service
    BY <1>1, ServiceSteps, ServiceTypes
<1>2. CASE Meddle
    <2>1. budget' \in [crashes : Nat, meddling : Nat, faults : Nat]
        BY <1>2, SpendTypes DEF Meddle
    <2>2. QED
        BY <1>2, <2>1, MeddleForms DEF TypeOK
<1>3. CASE WriteBack
    BY <1>3, WriteBackForms DEF TypeOK
<1>4. CASE PowerLoss
    <2>1. budget' \in [crashes : Nat, meddling : Nat, faults : Nat]
        BY <1>4, SpendTypes DEF PowerLoss
    <2>2. QED
        BY <1>4, <2>1, PowerLossForms, IdleForms DEF TypeOK
<1>5. CASE UNCHANGED vars
    BY <1>5 DEF vars, directory, world, TypeOK
<1>6. QED
    BY <1>1, <1>2, <1>3, <1>4, <1>5, NextParts

LEMMA TypeInit == Init => TypeOK
<1> SUFFICES ASSUME Init PROVE TypeOK
    OBVIOUS
<1>1. disk \in [Entries -> Contents] /\ maybe \in [Entries -> SUBSET Contents]
    BY Names DEF Init, Nothing
<1>2. budget \in [crashes : Nat, meddling : Nat, faults : Nat]
    BY DEF Init
<1>3. consent \in BOOLEAN /\ foreign \in BOOLEAN /\ revived \in BOOLEAN
    BY DEF Init
<1>4. QED
    BY <1>1, <1>2, <1>3, IdleForms DEF Init, TypeOK

(* Every variable of the service keeps to its type.                        *)
THEOREM TypeCorrect == Spec => []TypeOK
BY TypeInit, TypeStep, PTL DEF Spec

--------------------------------------------------------------------------------
(* The directory holds what is there now among what can be there later, and *)
(* of foreign contents only what somebody else put in.                     *)

LEMMA DirectoryStep == TypeOK /\ DirectoryOwn /\ [Next]_vars => DirectoryOwn'
<1> SUFFICES ASSUME TypeOK, DirectoryOwn, [Next]_vars PROVE DirectoryOwn'
    OBVIOUS
<1>1. CASE Service
    <2>1. ServiceStep
        BY <1>1, ServiceSteps
    <2>2. foreign' = foreign /\ ("other" \in temps' => "other" \in temps)
        BY <2>1 DEF ServiceStep
    <2>3. CASE UNCHANGED <<disk, maybe>>
        BY <2>2, <2>3 DEF DirectoryOwn
    <2>4. ASSUME NEW e \in Entries, NEW v \in {"none", "pinned"}, SetEntry(e, v)
          PROVE  DirectoryOwn'
        <3>1. /\ disk'[e] = v /\ maybe'[e] = maybe[e] \cup {v}
              /\ \A f \in Entries \ {e} : disk'[f] = disk[f] /\ maybe'[f] = maybe[f]
            BY <2>4, SetEntryForms, Names
        <3>2. QED
            BY <2>2, <3>1 DEF DirectoryOwn
    <2>5. QED
        BY <2>1, <2>3, <2>4 DEF ServiceStep, Touches
<1>2. CASE Meddle
    BY <1>2, MeddleForms DEF DirectoryOwn
<1>3. CASE WriteBack
    BY <1>3, WriteBackForms DEF DirectoryOwn
<1>4. CASE PowerLoss
    BY <1>4, PowerLossForms DEF DirectoryOwn
<1>5. CASE UNCHANGED vars
    BY <1>5 DEF vars, directory, world, DirectoryOwn
<1>6. QED
    BY <1>1, <1>2, <1>3, <1>4, <1>5, NextParts

--------------------------------------------------------------------------------
(* The process, the consent and the removal, operation by operation.       *)

Rest == ChildAwaited /\ ConsentStands /\ RemovalGone

LEMMA NoChildElse ==
    ASSUME ChildAwaited, op = Idle \/ op.step \notin {"verify", "test", "fallback"}
    PROVE  child = NoChild
BY DEF ChildAwaited, TestSteps

LEMMA Apart ==
    /\ InstallSteps \cap RemovalSteps = {} /\ InstallSteps \cap TestSteps = {}
    /\ RemovalSteps \cap TestSteps = {} /\ "verify" \in InstallSteps
    /\ "open" \notin InstallSteps \cup RemovalSteps \cup TestSteps
    /\ "check" \notin InstallSteps \cup RemovalSteps \cup TestSteps
BY DEF InstallSteps, RemovalSteps, TestSteps

(* An installation goes on or ends, and its consent stands.                *)
InstallMove ==
    /\ consent' /\ (op' = Idle \/ op'.step \in InstallSteps)
    /\ \/ child' = NoChild
       \/ /\ child'.content = "pinned" /\ child'.args = "version"
          /\ op' /= Idle /\ op'.step = "verify"

LEMMA InstallKeeps == InstallMove => Rest'
BY Apart DEF InstallMove, Rest, ChildAwaited, ConsentStands, RemovalGone

LEMMA InstallConsents ==
    ASSUME TypeOK, Rest, NEW step \in InstallSteps, At(step)
    PROVE  /\ consent /\ op \in Operation /\ op /= Idle /\ op.step = step
           /\ step /= "verify" => child = NoChild
<1>1. step \in Steps
    BY Names DEF InstallSteps
<1>2. op \in Operation /\ op /= Idle /\ op.step = step
    BY <1>1, AtForms
<1>3. consent
    BY <1>2 DEF Rest, ConsentStands
<1>4. step /= "verify" => op.step \notin {"verify", "test", "fallback"}
    BY <1>2 DEF InstallSteps
<1>5. QED
    BY <1>2, <1>3, <1>4, NoChildElse DEF Rest

LEMMA InstallNames ==
    \A s \in {"prepare", "complete", "download", "stage", "verify", "rename", "mark", "renameMark"} :
        s \in InstallSteps
BY DEF InstallSteps

LEMMA InstallRest ==
    ASSUME TypeOK, Rest,
           \/ Prepare \/ Complete \/ Download \/ Stage \/ RenameBinary
           \/ StageMarker \/ RenameMarker \/ Verified
    PROVE  InstallMove
<1> USE Names, InstallNames, IdleForms
<1>1. CASE Prepare
    <2>1. consent /\ op \in Operation /\ child = NoChild
        BY <1>1, InstallConsents DEF Prepare
    <2>2. QED
        BY <1>1, <2>1, GotoForms DEF Prepare, world, InstallMove
<1>2. CASE Complete
    <2>1. consent /\ op \in Operation /\ child = NoChild
        BY <1>2, InstallConsents DEF Complete
    <2>2. CASE Installed /\ Execute(disk["binary"], "version", "verify")
        BY <1>2, <2>1, <2>2, ExecuteForms DEF Complete, Installed, world, InstallMove
    <2>3. CASE Goto("download") /\ UNCHANGED child
        BY <1>2, <2>1, <2>3, GotoForms DEF Complete, world, InstallMove
    <2>4. QED
        BY <1>2, <2>2, <2>3 DEF Complete
<1>3. CASE Download
    <2>1. consent /\ op \in Operation /\ child = NoChild
        BY <1>3, InstallConsents DEF Download
    <2>2. QED
        BY <1>3, <2>1, GotoForms DEF Download, world, InstallMove
<1>4. CASE Stage
    <2>1. consent /\ op \in Operation /\ child = NoChild
        BY <1>4, InstallConsents DEF Stage
    <2>2. QED
        BY <1>4, <2>1, StageForms DEF Stage, world, InstallMove
<1>5. CASE RenameBinary
    <2>1. consent /\ op \in Operation /\ child = NoChild
        BY <1>5, InstallConsents DEF RenameBinary
    <2>2. QED
        BY <1>5, <2>1, GotoForms DEF RenameBinary, world, InstallMove
<1>6. CASE StageMarker
    <2>1. consent /\ op \in Operation /\ child = NoChild
        BY <1>6, InstallConsents DEF StageMarker
    <2>2. QED
        BY <1>6, <2>1, GotoForms DEF StageMarker, world, InstallMove
<1>7. CASE RenameMarker
    <2>1. consent /\ op \in Operation /\ child = NoChild
        BY <1>7, InstallConsents DEF RenameMarker
    <2>2. QED
        BY <1>7, <2>1, GotoForms DEF RenameMarker, world, InstallMove
<1>8. CASE Verified
    <2>1. consent /\ op \in Operation
        BY <1>8, InstallConsents DEF Verified
    <2>2. QED
        BY <1>8, <2>1, GotoForms DEF Verified, world, InstallMove
<1>9. QED
    BY <1>1, <1>2, <1>3, <1>4, <1>5, <1>6, <1>7, <1>8

LEMMA BeginRest ==
    ASSUME TypeOK, Rest, Install \/ Remove \/ Run
    PROVE  Rest'
<1> USE Names, InstallNames, IdleForms
<1>1. op = Idle /\ child = NoChild /\ child' = child
    BY NoChildElse DEF Install, Remove, Run, Rest
<1>2. CASE Install
    <2>1. op' = Idle \/ op'.step = "prepare"
        BY <1>1, <1>2, BeginForms DEF Install
    <2>2. QED
        BY <1>1, <1>2, <2>1, InstallKeeps DEF Install, InstallMove
<1>3. CASE Remove \/ Run
    <2>1. op'.step \in {"check", "open"}
        BY <1>3, BeginForms DEF Remove, Run
    <2>2. disk' = disk /\ consent' = consent /\ revived' = revived
        BY <1>3 DEF Remove, Run, Quiet, directory, world
    <2>3. QED
        BY <1>1, <2>1, <2>2, Apart DEF Rest, ChildAwaited, ConsentStands, RemovalGone
<1>4. QED
    BY <1>2, <1>3

(* A test goes on or ends.                                                 *)
TestMove ==
    /\ consent' = consent /\ revived' = revived /\ disk'["marker"] = disk["marker"]
    /\ op' = Idle \/ (op'.step \in TestSteps /\ (consent \/ revived))
    /\ \/ child' = NoChild
       \/ /\ child'.content = "pinned" /\ child'.args = "test"
          /\ op' /= Idle /\ op'.step \in TestSteps

LEMMA TestKeeps == Rest /\ TestMove => Rest'
BY Apart DEF TestMove, Rest, ChildAwaited, ConsentStands, RemovalGone

LEMMA RunRest ==
    ASSUME TypeOK, Rest, Open \/ Fallback \/ Tested
    PROVE  TestMove
<1> USE Names, IdleForms
<1>0. "test" \in TestSteps /\ "fallback" \in TestSteps
    BY DEF TestSteps
<1>1. CASE Open
    <2>1. op \in Operation /\ op.step = "open"
        BY <1>1, AtForms DEF Open
    <2>2. child = NoChild
        BY <2>1, NoChildElse DEF Rest
    <2>3. disk'["marker"] = disk["marker"]
        BY <1>1, EnsureHomeForms DEF Open
    <2>4. CASE LicenseAccepted /\ Execute(disk["binary"], "test", "test")
        <3>1. disk["binary"] = "pinned" /\ (consent \/ revived)
            BY <2>4 DEF LicenseAccepted, Installed, Rest, ConsentStands
        <3>2. QED
            BY <1>0, <1>1, <2>1, <2>3, <2>4, <3>1, ExecuteForms DEF Open, world, TestMove
    <2>5. CASE op' = Idle /\ UNCHANGED child
        BY <1>1, <2>2, <2>3, <2>5 DEF Open, world, TestMove
    <2>6. QED
        BY <1>1, <2>4, <2>5 DEF Open
<1>2. CASE Fallback
    <2>1. op \in Operation /\ op /= Idle /\ op.step = "test"
        BY <1>2, AtForms DEF Fallback
    <2>2. child \in Process
        BY <1>2 DEF Fallback, TypeOK, Child, NoChild
    <2>3. child.content = "pinned" /\ (consent \/ revived)
        BY <1>0, <2>1, <2>2 DEF Rest, ChildAwaited, ConsentStands
    <2>4. QED
        BY <1>0, <1>2, <2>1, <2>3, ExecuteForms
           DEF Fallback, Quiet, directory, world, TestMove
<1>3. CASE Tested
    BY <1>3 DEF Tested, End, Quiet, directory, world, TestMove
<1>4. QED
    BY <1>1, <1>2, <1>3

(* The process and the deadline: the operation stays where it is.          *)
LEMMA WaitRest ==
    ASSUME TypeOK, Rest,
           \/ \E with \in {"ok", "failed", "unconnected"} : ChildEnds(with)
           \/ HelperEnds \/ Expire \/ Killed
    PROVE  Rest'
<1>1. CASE Expire
    <2>1. /\ op /= Idle /\ op' /= Idle /\ op'.step = op.step /\ op'.seen = op.seen
          /\ child' = child
          /\ UNCHANGED <<disk, temps, consent, foreign, revived>>
        BY <1>1, ExpireForms DEF Expire, Quiet, directory, world
    <2>2. QED
        BY <2>1 DEF Rest, ChildAwaited, ConsentStands, RemovalGone
<1>2. CASE \/ \E with \in {"ok", "failed", "unconnected"} : ChildEnds(with)
           \/ HelperEnds \/ Killed
    <2>1. (\E with \in {"ok", "failed", "unconnected"} : ChildEnds(with)) \/ HelperEnds
        BY <1>2 DEF Killed
    <2>2. /\ child /= NoChild /\ child'.content = child.content /\ child'.args = child.args
          /\ op' = op /\ UNCHANGED <<disk, temps, consent, foreign, revived>>
        BY <2>1, ChildMoves, IdleForms DEF directory, world
    <2>3. QED
        BY <2>2 DEF Rest, ChildAwaited, ConsentStands, RemovalGone
<1>3. QED
    BY <1>1, <1>2
(* A removal goes on or ends: neither process nor test nor installation.    *)
RemovalMove ==
    /\ child' = NoChild /\ revived' = revived
    /\ disk'["marker"] = "pinned" => consent' \/ revived'
    /\ op' = Idle \/ op'.step \in RemovalSteps
    /\ RemovalGone'

LEMMA RemovalKeeps == RemovalMove => Rest'
BY Apart, IdleForms DEF RemovalMove, Rest, ChildAwaited, ConsentStands

LEMMA CheckRest ==
    ASSUME TypeOK, Rest, Check
    PROVE  RemovalMove
<1> USE Names, IdleForms
<1>0. "recheck" \in RemovalSteps
    BY DEF RemovalSteps
<1>1. op \in Operation /\ op.step = "check"
    BY AtForms DEF Check
<1>2. child = NoChild
    BY <1>1, NoChildElse DEF Rest
<1>3. child' = NoChild /\ disk' = disk /\ foreign' = foreign /\ revived' = revived
    BY <1>2 DEF Check, world
<1>4. disk["marker"] = "pinned" => consent \/ revived
    BY DEF Rest, ConsentStands
<1>5. CASE op' = Idle
    <2>1. disk["marker"] = "pinned" => consent' \/ revived'
        BY <1>0, <1>1, <1>3, <1>4, <1>5, CheckForms DEF Check, Nothing, world
    <2>2. QED
        BY <1>3, <1>5, <2>1 DEF RemovalMove, RemovalGone
<1>6. CASE op' /= Idle
    <2>1. /\ op' = [op EXCEPT !.step = "recheck", !.seen = {e \in Entries : disk[e] /= "none"}]
          /\ temps' = {} /\ consent' = consent
        BY <1>6 DEF Check, Cleanup, world
    <2>2. op'.step = "recheck" /\ op'.seen = {e \in Entries : disk[e] /= "none"}
        BY <1>1, <2>1, CheckForms
    <2>3. RemovalGone'
        BY <1>3, <2>1, <2>2 DEF RemovalGone, Pending
    <2>4. QED
        BY <1>0, <1>3, <1>4, <2>1, <2>2, <2>3 DEF RemovalMove
<1>7. QED
    BY <1>5, <1>6

(* The order of the removal, and what each step leaves to the next.        *)
LEMMA PendingNext ==
    /\ \A e \in Entries : e \in Pending("binary")
    /\ \A e \in Entries : e \in Pending("marker") <=> e \in {"marker", "home"}
    /\ \A e \in Entries : e \in Pending("home") <=> e = "home"
    /\ \A e \in Entries : e \notin Pending("acknowledge")
    /\ Entries = {"binary", "marker", "home"}
BY DEF Pending, Entries

LEMMA UnlinkRest ==
    ASSUME TypeOK, Rest, NEW e \in Entries, NEW next \in RemovalSteps, Unlink(e, next),
           \A f \in Entries : f \in Pending(e) => f \in Pending(next) \/ f = e,
           e \in RemovalSteps
    PROVE  RemovalMove
<1> USE Names, IdleForms
<1>0. e \in Steps /\ next \in Steps
    BY DEF RemovalSteps
<1>1. op \in Operation /\ op /= Idle /\ op.step = e
    BY <1>0, AtForms DEF Unlink
<1>2. child = NoChild
    BY <1>1, Apart, NoChildElse DEF Rest, RemovalSteps
<1>3. /\ child' = NoChild /\ temps' = temps
      /\ UNCHANGED <<consent, foreign, revived>>
    BY <1>2 DEF Unlink, world
<1>4. /\ ~foreign => temps = {}
      /\ \A f \in Entries :
            f \notin op.seen \/ f \notin Pending(e) =>
                /\ ~foreign => disk[f] = "none"
                /\ f = "marker" => disk[f] /= "pinned"
    BY <1>1 DEF Rest, RemovalGone
<1>5. disk["marker"] = "pinned" => consent \/ revived
    BY DEF Rest, ConsentStands
<1>6. CASE e \notin op.seen /\ Goto(next) /\ UNCHANGED <<disk, maybe>>
    <2>1. op'.step = next /\ op'.seen = op.seen
        BY <1>0, <1>1, <1>6, GotoForms
    <2>2. ASSUME NEW f \in Entries, f \notin op.seen \/ f \notin Pending(next)
          PROVE  /\ ~foreign => disk[f] = "none"
                 /\ f = "marker" => disk[f] /= "pinned"
        BY <1>4, <1>6, <2>2
    <2>3. RemovalGone'
        BY <1>3, <1>4, <1>6, <2>1, <2>2 DEF RemovalGone
    <2>4. QED
        BY <1>3, <1>5, <1>6, <2>1, <2>3 DEF RemovalMove
<1>7. CASE SetEntry(e, "none") /\ Goto(next)
    <2>1. op'.step = next /\ op'.seen = op.seen
        BY <1>0, <1>1, <1>7, GotoForms
    <2>2. disk'[e] = "none" /\ \A f \in Entries \ {e} : disk'[f] = disk[f]
        BY <1>7, SetEntryForms
    <2>3. ASSUME NEW f \in Entries, f \notin op.seen \/ f \notin Pending(next)
          PROVE  /\ ~foreign => disk'[f] = "none"
                 /\ f = "marker" => disk'[f] /= "pinned"
        BY <1>4, <2>2, <2>3
    <2>4. RemovalGone'
        BY <1>3, <1>4, <2>1, <2>3 DEF RemovalGone
    <2>5. disk'["marker"] = "pinned" => consent' \/ revived'
        BY <1>3, <1>5, <2>2
    <2>6. QED
        BY <1>3, <2>1, <2>4, <2>5 DEF RemovalMove
<1>8. CASE op' = Idle /\ UNCHANGED <<disk, maybe>>
    BY <1>3, <1>5, <1>8 DEF RemovalMove, RemovalGone
<1>9. QED
    BY <1>6, <1>7, <1>8 DEF Unlink

LEMMA RecheckRest ==
    ASSUME TypeOK, Rest, Recheck
    PROVE  RemovalMove
<1> USE Names, IdleForms
<1>1. op \in Operation /\ op /= Idle /\ op.step = "recheck" /\ {"recheck", "binary"} \subseteq RemovalSteps
    BY AtForms DEF Recheck, RemovalSteps
<1>2. child = NoChild
    BY <1>1, NoChildElse DEF Rest
<1>3. /\ child' = NoChild
      /\ UNCHANGED <<disk, temps, consent, foreign, revived>>
    BY <1>2 DEF Recheck, Quiet, directory, world
<1>4. disk["marker"] = "pinned" => consent \/ revived
    BY DEF Rest, ConsentStands
<1>5. CASE op' = Idle
    BY <1>3, <1>4, <1>5 DEF RemovalMove, RemovalGone
<1>6. CASE Goto("binary")
    <2>1. op'.step = "binary" /\ op'.seen = op.seen
        BY <1>1, <1>6, GotoForms
    <2>2. Pending("recheck") = Entries /\ Pending("binary") = Entries
        BY DEF Pending
    <2>3. RemovalGone'
        BY <1>1, <1>3, <2>1, <2>2 DEF Rest, RemovalGone
    <2>4. QED
        BY <1>1, <1>3, <1>4, <2>1, <2>3 DEF RemovalMove
<1>7. QED
    BY <1>5, <1>6 DEF Recheck

LEMMA RemovalRest ==
    ASSUME TypeOK, Rest, Recheck \/ RemoveBinary \/ RemoveMarker \/ RemoveHome
    PROVE  RemovalMove
<1>1. \A s \in {"binary", "marker", "home", "acknowledge"} : s \in RemovalSteps
    BY DEF RemovalSteps
<1>2. CASE RemoveBinary
    BY <1>1, <1>2, Names, PendingNext, UnlinkRest DEF RemoveBinary
<1>3. CASE RemoveMarker
    BY <1>1, <1>3, Names, PendingNext, UnlinkRest DEF RemoveMarker
<1>4. CASE RemoveHome
    BY <1>1, <1>4, Names, PendingNext, UnlinkRest DEF RemoveHome
<1>5. CASE Recheck
    BY <1>5, RecheckRest
<1>6. QED
    BY <1>2, <1>3, <1>4, <1>5

(* When a removal is acknowledged everything it was to take away is gone.   *)
LEMMA AllGone ==
    ASSUME TypeOK, Rest, At("acknowledge")
    PROVE  /\ child = NoChild /\ disk["marker"] /= "pinned"
           /\ ~foreign => temps = {} /\ disk = Nothing
<1>1. op \in Operation /\ op /= Idle /\ op.step = "acknowledge" /\ "acknowledge" \in RemovalSteps
    BY AtForms, Names DEF RemovalSteps
<1>2. child = NoChild
    BY <1>1, NoChildElse DEF Rest
<1>3. /\ ~foreign => temps = {}
      /\ \A e \in Entries : /\ ~foreign => disk[e] = "none"
                            /\ e = "marker" => disk[e] /= "pinned"
    BY <1>1, PendingNext DEF Rest, RemovalGone
<1>4. ~foreign => disk = Nothing
    BY <1>3 DEF TypeOK, Nothing
<1>5. QED
    BY <1>2, <1>3, <1>4, Names

LEMMA AcknowledgeRest ==
    ASSUME TypeOK, Rest, Acknowledge
    PROVE  RemovalMove
<1>1. child = NoChild /\ disk["marker"] /= "pinned"
    BY AllGone DEF Acknowledge
<1>2. QED
    BY <1>1 DEF Acknowledge, directory, RemovalMove, RemovalGone

LEMMA WorldRest ==
    ASSUME TypeOK, Rest, Meddle \/ WriteBack \/ PowerLoss \/ Kill \/ UNCHANGED vars
    PROVE  Rest'
<1>1. CASE Meddle
    <2>1. /\ disk'["marker"] \in {disk["marker"], "none", "other"} /\ foreign'
          /\ UNCHANGED <<op, child, consent, revived>>
        BY <1>1, MeddleForms
    <2>2. ChildAwaited' /\ ConsentStands'
        BY <2>1 DEF Rest, ChildAwaited, ConsentStands
    <2>3. RemovalGone'
        BY <2>1 DEF Rest, RemovalGone
    <2>4. QED
        BY <2>2, <2>3 DEF Rest
<1>2. CASE WriteBack
    BY <1>2, WriteBackForms DEF Rest, ChildAwaited, ConsentStands, RemovalGone
<1>3. CASE PowerLoss
    <2>1. disk'["marker"] \in {disk["marker"], "none"} \/ revived'
        BY <1>3, PowerLossForms, Names
    <2>2. op' = Idle /\ child' = NoChild /\ consent' = consent /\ (revived => revived')
        BY <1>3, PowerLossForms
    <2>3. QED
        BY <2>1, <2>2 DEF Rest, ChildAwaited, ConsentStands, RemovalGone
<1>4. CASE Kill
    BY <1>4 DEF Kill, End, directory, world, Rest, ChildAwaited, ConsentStands, RemovalGone
<1>5. CASE UNCHANGED vars
    BY <1>5 DEF vars, directory, world, Rest, ChildAwaited, ConsentStands, RemovalGone
<1>6. QED
    BY <1>1, <1>2, <1>3, <1>4, <1>5

LEMMA RestStep == TypeOK /\ Rest /\ [Next]_vars => Rest'
<1> SUFFICES ASSUME TypeOK, Rest, [Next]_vars PROVE Rest'
    OBVIOUS
<1>1. CASE OwnStep
    BY <1>1, InstallRest, InstallKeeps, CheckRest, RemovalRest, AcknowledgeRest, RemovalKeeps,
       RunRest, TestKeeps DEF OwnStep
<1>2. CASE ~OwnStep
    BY <1>2, BeginRest, WaitRest, WorldRest DEF Next
<1>3. QED
    BY <1>1, <1>2

(* At every step of every operation: whose files are or can come back to be *)
(* in the directory, which step awaits the process that runs, whose consent *)
(* a marker, an installation or a test rests on, and what a removal passed. *)
THEOREM SpeedInvariant == Spec => []SpeedInv
<1>1. Init => SpeedInv
    BY Names, IdleForms
       DEF Init, SpeedInv, DirectoryOwn, ChildAwaited, ConsentStands, RemovalGone, Nothing
<1>2. TypeOK /\ SpeedInv /\ [Next]_vars => SpeedInv'
    BY DirectoryStep, RestStep DEF SpeedInv, Rest
<1>3. QED
    BY <1>1, <1>2, TypeCorrect, PTL DEF Spec

--------------------------------------------------------------------------------
(* What is executed, what is recognised, what is left.                     *)

(* Whatever is executed, from the first installation on and however files  *)
(* are exchanged under the service, is the pinned binary; and the test is  *)
(* run, with the licence accepted for its user, only while an acceptance   *)
(* of his stands or a power loss took a removal back.                      *)
THEOREM TestsAreConsented == Spec => []RunsAsConsented
<1>1. SpeedInv => RunsAsConsented
    BY DEF SpeedInv, ChildAwaited, ConsentStands, RunsAsConsented
<1>2. QED
    BY <1>1, SpeedInvariant, PTL

(* After any fault, kill or power loss at any step the service recognises  *)
(* every file in its directory, unless somebody else was there: the next   *)
(* removal is not refused.                                                 *)
THEOREM OwnFilesAreRecognised == Spec => []OwnFilesRecognised
<1>1. TypeOK /\ SpeedInv => OwnFilesRecognised
    BY DEF TypeOK, Contents, SpeedInv, DirectoryOwn, Trusted, OwnFilesRecognised
<1>2. QED
    BY <1>1, TypeCorrect, SpeedInvariant, PTL

LEMMA ConsentEndsBy ==
    ASSUME TypeOK, [Next]_vars, consent, ~consent'
    PROVE  (Check /\ Cleanup /\ disk = Nothing) \/ Acknowledge
<1>1. CASE OwnStep
    BY <1>1 DEF OwnStep, Prepare, Complete, Download, Stage, RenameBinary, StageMarker, RenameMarker,
       Check, Recheck, RemoveBinary, RemoveMarker, RemoveHome, Unlink, Open, Verified, Fallback, Tested,
       Quiet, world
<1>2. CASE Install
    BY <1>2 DEF Install
<1>3. CASE \/ \E with \in {"ok", "failed", "unconnected"} : ChildEnds(with)
           \/ HelperEnds \/ Killed
    BY <1>3, ChildMoves DEF Killed, world
<1>4. CASE Remove \/ Run \/ Expire \/ Meddle \/ WriteBack \/ Kill \/ PowerLoss \/ UNCHANGED vars
    BY <1>4 DEF Remove, Run, Expire, Meddle, WriteBack, Kill, PowerLoss, Quiet, world, vars
<1>5. QED
    BY <1>1, <1>2, <1>3, <1>4 DEF Next

LEMMA RemovalStep ==
    ASSUME TypeOK, SpeedInv, [Next]_vars, consent, ~consent', ~foreign
    PROVE  disk' = Nothing /\ temps' = {}
<1>1. CASE Check /\ Cleanup /\ disk = Nothing
    BY <1>1 DEF Check, Cleanup
<1>2. CASE Acknowledge
    <2>1. temps = {} /\ disk = Nothing
        BY <1>2, AllGone DEF Acknowledge, SpeedInv, Rest
    <2>2. QED
        BY <1>2, <2>1 DEF Acknowledge, directory
<1>3. QED
    BY <1>1, <1>2, ConsentEndsBy

(* A removal that is acknowledged leaves nothing in the directory: the     *)
(* files it found, in the order that an interruption leaves recognisable,  *)
(* and the temporaries of earlier installations.                           *)
THEOREM RemovalsLeaveNothing == Spec => RemovedLeavesNothing
<1>1. ASSUME TypeOK, SpeedInv, [Next]_vars
      PROVE  [ consent /\ ~consent' /\ ~foreign => disk' = Nothing /\ temps' = {} ]_vars
    BY <1>1, RemovalStep
<1>2. QED
    BY <1>1, TypeCorrect, SpeedInvariant, PTL DEF Spec, RemovedLeavesNothing

================================================================================
