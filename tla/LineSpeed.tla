------------------------------- MODULE LineSpeed -------------------------------
(***************************************************************************)
(* The speed test CLI of a third party that the agent installs, runs and   *)
(* removes (linespeed/service.go, behind line_speed_handler.go): a binary, *)
(* the marker that its licence was accepted for exactly that binary, a     *)
(* private home, and the temporaries of their atomic replacement.          *)
(*                                                                         *)
(* One operation at a time, the others are told "busy" and change nothing. *)
(* A file is known by its digest: the pinned one, or any other. Renames    *)
(* and removals are not followed by a sync of their directory: a power     *)
(* loss takes each entry back to any value it had since the last one.      *)
(***************************************************************************)
EXTENDS Naturals

CONSTANTS
    MaxCrashes,     \* bound: kills of the agent and power losses
    MaxMeddling,    \* bound: changes somebody else makes to the directory
    MaxFaults       \* bound: file operations that fail, helpers that outlive the CLI

ASSUME LineSpeedAssumption == MaxCrashes \in Nat /\ MaxMeddling \in Nat /\ MaxFaults \in Nat

VARIABLES
    disk,       \* the three entries as the agent finds them
    maybe,      \* for each, what a power loss can leave there
    temps,      \* temporaries in the directory
    op,         \* the operation that holds operationMu
    child,      \* the process it waits for
    consent,    \* the licence was accepted, and no removal completed since
    foreign,    \* somebody else changed the directory
    revived,    \* a power loss brought back what was removed
    budget

directory == <<disk, maybe, temps>>
world == <<consent, foreign, revived>>
vars == <<directory, op, child, world, budget>>

Entries == {"binary", "marker", "home"}
Contents == {"none", "pinned", "other"}
Temporaries == {"binary", "marker", "other"}
Nothing == [e \in Entries |-> "none"]

Idle == [kind |-> "none"]
NoChild == [state |-> "none"]
Ops == {"install", "remove", "run"}
Steps == {"prepare", "complete", "download", "stage", "verify", "rename", "mark",
          "renameMark", "check", "recheck", "binary", "marker", "home", "acknowledge", "open", "test", "fallback"}

Begin(kind, step) == op' = [kind |-> kind, step |-> step, expired |-> FALSE, seen |-> {}, staged |-> FALSE]
Goto(step) == op' = [op EXCEPT !.step = step]
End == op' = Idle /\ child' = NoChild
At(step) == op /= Idle /\ op.step = step
Quiet == UNCHANGED <<directory, world, budget>>

(* A fault: the operation stops there and answers the error. *)
Spend(what) == budget[what] > 0 /\ budget' = [budget EXCEPT ![what] = @ - 1]

Trusted(e) == disk[e] \in {"none", "pinned"}

(* openVerifiedOfficialBinary, consentMatchesOpenBinary: the digest of the  *)
(* opened file is the pinned one, and the one the marker names.             *)
Installed == disk["binary"] = "pinned"
LicenseAccepted == Installed /\ disk["marker"] = "pinned"

SetEntry(e, v) ==
    /\ disk' = [disk EXCEPT ![e] = v]
    /\ maybe' = [maybe EXCEPT ![e] = @ \cup {v}]

(* ensureManagedDirectories: the home is made when it is missing.           *)
EnsureHome ==
    /\ disk["home"] /= "other"
    /\ IF disk["home"] = "none" THEN SetEntry("home", "pinned") ELSE UNCHANGED <<disk, maybe>>

(* cleanupStaleTemporaryFiles: all or none.                                 *)
Cleanup == "other" \notin temps /\ temps' = {}

-----------------------------------------------------------------------------
(* Install *)

(* With the licence accepted; nothing to do when it is installed and was.   *)
Install ==
    /\ op = Idle /\ consent' = TRUE
    /\ IF LicenseAccepted THEN UNCHANGED op ELSE Begin("install", "prepare")
    /\ UNCHANGED <<directory, child, foreign, revived, budget>>

(* Directories and temporaries; a binary without its marker is an earlier   *)
(* installation to complete. Anything of somebody else there ends it.       *)
Prepare ==
    /\ At("prepare")
    /\ UNCHANGED <<child, world, budget>>
    /\ \/ EnsureHome /\ Cleanup /\ Goto(IF Installed THEN "complete" ELSE "download")
       \/ EnsureHome /\ "other" \in temps /\ op' = Idle /\ UNCHANGED temps
       \/ disk["home"] = "other" /\ op' = Idle /\ UNCHANGED directory

(* The child process runs what was opened and checked, through its file     *)
(* descriptor, whatever is at the path by then; it needs the home.          *)
Execute(content, args, next) ==
    /\ child' = [state |-> "runs", content |-> content, args |-> args]
    /\ Goto(next)

(* The completion opens the binary again; when it cannot be completed, it   *)
(* is downloaded anew.                                                      *)
Complete ==
    /\ At("complete") /\ UNCHANGED <<temps, world, budget>>
    /\ \/ Installed /\ EnsureHome /\ Execute(disk["binary"], "version", "verify")
       \/ /\ ~Installed \/ disk["home"] = "other"
          /\ Goto("download") /\ UNCHANGED <<child, disk, maybe>>

(* downloadArchive, unpackOfficialArchive: the digest of the archive and    *)
(* that of the binary are the pinned ones or nothing is written. The file   *)
(* is written, synchronised, made executable, and its digest read again.    *)
Download ==
    /\ At("download") /\ UNCHANGED <<child, disk, maybe, world>>
    /\ \/ ~op.expired /\ temps' = temps \cup {"binary"} /\ Goto("stage") /\ UNCHANGED budget
       \/ op' = Idle /\ UNCHANGED <<temps, budget>>
       \/ Spend("faults") /\ temps' \in {temps, temps \ {"binary"}} /\ op' = Idle

Stage ==
    /\ At("stage") /\ UNCHANGED <<world, budget>>
    /\ \/ /\ EnsureHome /\ UNCHANGED temps
          /\ child' = [state |-> "runs", content |-> "pinned", args |-> "version"]
          /\ op' = [op EXCEPT !.step = "verify", !.staged = TRUE]
       \/ /\ disk["home"] = "other"
          /\ op' = Idle /\ temps' = temps \ {"binary"} /\ UNCHANGED <<child, disk, maybe>>

(* Mutant: what is renamed was never synchronised. *)
RenameBinaryUnsynced ==
    /\ At("rename") /\ UNCHANGED <<child, world>>
    /\ \/ /\ disk' = [disk EXCEPT !["binary"] = "pinned"]
          /\ maybe' = [maybe EXCEPT !["binary"] = @ \cup {"pinned", "other"}]
          /\ Goto("mark") /\ UNCHANGED budget
       \/ Spend("faults") /\ op' = Idle /\ UNCHANGED <<disk, maybe>>
    /\ temps' = temps \ {"binary"}

(* The rename over whatever is at the path. *)
RenameBinary ==
    /\ At("rename") /\ UNCHANGED <<child, world>>
    /\ \/ SetEntry("binary", "pinned") /\ Goto("mark") /\ UNCHANGED budget
       \/ Spend("faults") /\ op' = Idle /\ UNCHANGED <<disk, maybe>>
    /\ temps' = temps \ {"binary"}

(* writeConsentMarker: after the binary it vouches for, and as a temporary  *)
(* first. A failure leaves the binary for the next Install to complete.     *)
StageMarker ==
    /\ At("mark") /\ UNCHANGED <<child, disk, maybe, world>>
    /\ \/ temps' = temps \cup {"marker"} /\ Goto("renameMark") /\ UNCHANGED budget
       \/ Spend("faults") /\ op' = Idle /\ UNCHANGED temps

RenameMarker ==
    /\ At("renameMark") /\ UNCHANGED <<child, world>>
    /\ temps' = temps \ {"marker"}
    /\ \/ /\ SetEntry("marker", "pinned") /\ UNCHANGED budget
          /\ IF op.staged \/ LicenseAccepted' THEN op' = Idle ELSE Goto("download")
       \/ Spend("faults") /\ op' = Idle /\ UNCHANGED <<disk, maybe>>

-----------------------------------------------------------------------------
(* Remove *)

(* Mutant: the temporaries are left to the next Install. *)
CheckWithoutCleanup ==
    /\ At("check") /\ UNCHANGED <<child, disk, maybe, temps, budget>>
    /\ \/ /\ \A e \in Entries : Trusted(e)
          /\ disk /= Nothing
          /\ op' = [op EXCEPT !.step = "recheck", !.seen = {e \in Entries : disk[e] /= "none"}]
          /\ UNCHANGED world
       \/ (\E e \in Entries : ~Trusted(e)) /\ op' = Idle /\ UNCHANGED world
       \/ disk = Nothing /\ op' = Idle /\ consent' = FALSE /\ UNCHANGED <<foreign, revived>>

Remove == op = Idle /\ Begin("remove", "check") /\ UNCHANGED child /\ Quiet

(* Only what the agent knows as its own is taken away: the binary by its    *)
(* digest, the marker by its text, the home by its mode; and a marker       *)
(* without a binary is what an interrupted removal left.                    *)
Check ==
    /\ At("check") /\ UNCHANGED <<child, disk, maybe, budget>>
    /\ \/ /\ Cleanup /\ \A e \in Entries : Trusted(e)
          /\ disk /= Nothing
          /\ op' = [op EXCEPT !.step = "recheck", !.seen = {e \in Entries : disk[e] /= "none"}]
          /\ UNCHANGED world
       \/ Cleanup /\ (\E e \in Entries : ~Trusted(e)) /\ op' = Idle /\ UNCHANGED world
       \/ "other" \in temps /\ op' = Idle /\ UNCHANGED <<temps, world>>
       \/ Cleanup /\ disk = Nothing /\ op' = Idle /\ consent' = FALSE /\ UNCHANGED <<foreign, revived>>

(* The binary that was found is opened and verified once more, with the     *)
(* marker when there was one: exchanged since, it ends the removal.         *)
Recheck ==
    /\ At("recheck") /\ UNCHANGED child /\ Quiet
    /\ LET stands == IF "marker" \in op.seen THEN LicenseAccepted ELSE Installed
       IN  \/ ("binary" \in op.seen => stands) /\ Goto("binary")
           \/ "binary" \in op.seen /\ ~stands /\ op' = Idle

(* What came after the check stays.                                         *)
Unlink(e, next) ==
    /\ At(e) /\ UNCHANGED <<child, temps, world>>
    /\ \/ e \notin op.seen /\ Goto(next) /\ UNCHANGED <<disk, maybe, budget>>
       \/ e \in op.seen /\ SetEntry(e, "none") /\ Goto(next) /\ UNCHANGED budget
       \/ e \in op.seen /\ Spend("faults") /\ op' = Idle /\ UNCHANGED <<disk, maybe>>

RemoveBinary == Unlink("binary", "marker")

(* Mutant: the marker stays when its binary is gone. *)
RemoveMarkerNever == At("marker") /\ Goto("home") /\ UNCHANGED child /\ Quiet

RemoveMarker == Unlink("marker", "home")
RemoveHome == Unlink("home", "acknowledge")

Acknowledge ==
    /\ At("acknowledge") /\ op' = Idle /\ consent' = FALSE
    /\ UNCHANGED <<directory, child, foreign, revived, budget>>

-----------------------------------------------------------------------------
(* Run *)

Run == op = Idle /\ Begin("run", "open") /\ UNCHANGED child /\ Quiet

(* openVerifiedManagedBinary, then managedEnvironment.                      *)
Open ==
    /\ At("open") /\ UNCHANGED <<temps, world, budget>>
    /\ \/ LicenseAccepted /\ EnsureHome /\ Execute(disk["binary"], "test", "test")
       \/ LicenseAccepted /\ disk["home"] = "other" /\ op' = Idle /\ UNCHANGED <<child, disk, maybe>>
       \/ ~LicenseAccepted /\ op' = Idle /\ UNCHANGED <<child, disk, maybe>>

-----------------------------------------------------------------------------
(* The child process. cmd.Run returns when it has ended and its output is   *)
(* closed; a process it started can hold the output open after it.          *)
Running == child.state = "runs"

ChildEnds(with) ==
    /\ Running
    /\ with = "unconnected" => child.args = "test"
    /\ \/ child' = [child EXCEPT !.state = with] /\ UNCHANGED budget
       \/ child' = [child EXCEPT !.state = "held"] /\ Spend("faults")
    /\ UNCHANGED <<directory, op, world>>

HelperEnds ==
    /\ child.state = "held"
    /\ \E with \in {"ok", "failed"} : child' = [child EXCEPT !.state = with]
    /\ UNCHANGED <<directory, op, world, budget>>

(* The context of the operation kills the child. Nothing is waited for but  *)
(* the child and the download.                                              *)
Waits == Running \/ At("download")

(* Mutant: the test itself has no deadline. *)
ExpireInstall ==
    /\ op /= Idle /\ Waits /\ ~op.expired /\ op.kind = "install"
    /\ op' = [op EXCEPT !.expired = TRUE] /\ UNCHANGED child /\ Quiet

Expire ==
    /\ op /= Idle /\ Waits /\ ~op.expired
    /\ op' = [op EXCEPT !.expired = TRUE] /\ UNCHANGED child /\ Quiet

Killed == op /= Idle /\ op.expired /\ ChildEnds("failed")

(* verifyBinaryVersion: a staged binary that does not report the version is *)
(* deleted; one that an earlier installation left is downloaded anew, with  *)
(* what is left of the deadline.                                            *)
Verified ==
    /\ At("verify") /\ child' = NoChild /\ UNCHANGED <<disk, maybe, world, budget>>
    /\ \/ /\ child.state = "ok" /\ UNCHANGED temps
          /\ Goto(IF op.staged THEN "rename" ELSE "mark")
       \/ child.state = "failed" /\ op.staged /\ op' = Idle /\ temps' = temps \ {"binary"}
       \/ child.state = "failed" /\ ~op.staged /\ Goto("download") /\ UNCHANGED temps

(* One more attempt, bound to an IPv4 address, when the first could not     *)
(* connect in time and there is such an address; the same open file.        *)
Fallback ==
    /\ At("test") /\ child.state = "unconnected" /\ ~op.expired
    /\ Execute(child.content, "test", "fallback") /\ Quiet

(* The result, a failure, the output limit, or the deadline.                *)
Tested ==
    /\ \/ At("test") /\ child.state \in {"ok", "failed", "unconnected"}
       \/ At("fallback") /\ child.state \in {"ok", "failed", "unconnected"}
    /\ End /\ Quiet

-----------------------------------------------------------------------------
(* The world *)

(* Somebody else puts a file in place of an entry, takes one away, or puts  *)
(* in a temporary of his own. The pinned binary is a public file.           *)
Meddle ==
    /\ Spend("meddling") /\ foreign' = TRUE
    /\ UNCHANGED <<op, child, consent, revived>>
    /\ \/ \E e \in Entries, v \in {"none", "other"} : SetEntry(e, v) /\ UNCHANGED temps
       \/ SetEntry("binary", "pinned") /\ UNCHANGED temps
       \/ temps' = temps \cup {"other"} /\ UNCHANGED <<disk, maybe>>

(* The kernel writes the directory back. *)
WriteBack ==
    /\ \E e \in Entries : maybe[e] /= {disk[e]}
    /\ maybe' = [e \in Entries |-> {disk[e]}]
    /\ UNCHANGED <<disk, temps, op, child, world, budget>>

(* The agent is killed, and its child with it or left to end by itself.     *)
Kill ==
    /\ op /= Idle /\ Spend("crashes") /\ End /\ UNCHANGED <<directory, world>>

PowerLoss ==
    /\ Spend("crashes") /\ End
    /\ disk' \in [Entries -> Contents]
    /\ \A e \in Entries : disk'[e] \in maybe[e]
    /\ maybe' = [e \in Entries |-> {disk'[e]}]
    /\ temps' \in SUBSET temps
    /\ revived' = (revived \/ \E e \in Entries : disk'[e] \notin {disk[e], "none"})
    /\ UNCHANGED <<consent, foreign>>

Init ==
    /\ disk = Nothing /\ maybe = [e \in Entries |-> {"none"}] /\ temps = {}
    /\ op = Idle /\ child = NoChild
    /\ consent = FALSE /\ foreign = FALSE /\ revived = FALSE
    /\ budget = [crashes |-> MaxCrashes, meddling |-> MaxMeddling, faults |-> MaxFaults]

OwnStep ==
    \/ Prepare \/ Complete \/ Download \/ Stage \/ RenameBinary \/ StageMarker \/ RenameMarker
    \/ Check \/ Recheck \/ RemoveBinary \/ RemoveMarker \/ RemoveHome \/ Acknowledge
    \/ Open \/ Verified \/ Fallback \/ Tested

Next ==
    \/ Install \/ Remove \/ Run \/ OwnStep
    \/ \E with \in {"ok", "failed", "unconnected"} : ChildEnds(with)
    \/ HelperEnds \/ Expire \/ Killed
    \/ Meddle \/ WriteBack \/ Kill \/ PowerLoss

(* The service's own steps go on and its deadlines come. That the CLI ends  *)
(* by itself, or a process it started does, is not assumed.                 *)
Spec == Init /\ [][Next]_vars /\ WF_vars(OwnStep) /\ WF_vars(Expire) /\ WF_vars(Killed)

-----------------------------------------------------------------------------
Operation == [kind : Ops, step : Steps, expired : BOOLEAN, seen : SUBSET Entries, staged : BOOLEAN]
Process == [state : {"runs", "held", "ok", "failed", "unconnected"},
            content : Contents, args : {"version", "test"}]
Op == {Idle} \cup Operation
Child == {NoChild} \cup Process

TypeOK ==
    /\ disk \in [Entries -> Contents] /\ maybe \in [Entries -> SUBSET Contents]
    /\ temps \subseteq Temporaries
    /\ op \in Op /\ child \in Child
    /\ consent \in BOOLEAN /\ foreign \in BOOLEAN /\ revived \in BOOLEAN
    /\ budget \in [crashes : Nat, meddling : Nat, faults : Nat]

(* Whatever is executed is the pinned binary, and a test, which accepts the *)
(* licence for its user, runs only while an acceptance of his stands: one   *)
(* that a completed removal ended is not used again ("prevents a stale      *)
(* consent record from being reused"), unless a power loss undid removals.  *)
RunsAsConsented ==
    child /= NoChild =>
        /\ child.content = "pinned"
        /\ child.args = "test" => consent \/ revived

(* The agent recognises its own files: wherever an installation or removal  *)
(* was interrupted, by a fault, a kill or a power loss, the next removal is *)
(* not refused as being of files "not managed by the agent".                *)
OwnFilesRecognised ==
    op = Idle /\ ~foreign => "other" \notin temps /\ \A e \in Entries : Trusted(e)

(* A removal that is acknowledged leaves nothing behind, temporaries of     *)
(* earlier interrupted installations included, unless somebody else was at  *)
(* the directory.                                                           *)
RemovedLeavesNothing ==
    [][ consent /\ ~consent' /\ ~foreign => disk' = Nothing /\ temps' = {} ]_vars

(* Every operation ends and gives the lock back, or a process that the CLI  *)
(* left behind holds its output open.                                       *)
OperationEnds == []<>(op = Idle \/ child.state = "held")
--------------------------------------------------------------------------------
(* The strengthening the properties above need to be proved.                *)

InstallSteps == {"prepare", "complete", "download", "stage", "verify", "rename", "mark", "renameMark"}
RemovalSteps == {"recheck", "binary", "marker", "home", "acknowledge"}
TestSteps == {"test", "fallback"}

(* What the removal still has to take away.                                 *)
Pending(step) ==
    CASE step \in {"recheck", "binary"} -> Entries
      [] step = "marker" -> {"marker", "home"}
      [] step = "home" -> {"home"}
      [] OTHER -> {}

(* Nothing the service leaves, and nothing a power loss can take back to,   *)
(* is foreign unless somebody else was there.                               *)
DirectoryOwn ==
    /\ \A e \in Entries : disk[e] \in maybe[e]
    /\ ~foreign => "other" \notin temps /\ \A e \in Entries : "other" \notin maybe[e]

(* A process is waited for by the step that started it.                     *)
ChildAwaited ==
    child /= NoChild =>
        /\ child.content = "pinned" /\ op /= Idle
        /\ IF child.args = "test" THEN op.step \in TestSteps ELSE op.step = "verify"

(* A marker on the disk, an installation that is to write one and a test    *)
(* that is running all come from an acceptance that stands.                 *)
ConsentStands ==
    /\ disk["marker"] = "pinned" => consent \/ revived
    /\ op /= Idle /\ op.step \in InstallSteps => consent
    /\ op /= Idle /\ op.step \in TestSteps => consent \/ revived

(* What a removal has passed is gone, and what it did not find came later:  *)
(* it is somebody else's, and no marker of the agent.                       *)
RemovalGone ==
    op /= Idle /\ op.step \in RemovalSteps =>
        /\ ~foreign => temps = {}
        /\ \A e \in Entries :
              e \notin op.seen \/ e \notin Pending(op.step) =>
                  /\ ~foreign => disk[e] = "none"
                  /\ e = "marker" => disk[e] /= "pinned"

SpeedInv == DirectoryOwn /\ ChildAwaited /\ ConsentStands /\ RemovalGone

================================================================================
