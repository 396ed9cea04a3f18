---------------------------- MODULE UninstallProofs ----------------------------
(***************************************************************************)
(* Of the removal of the agent, for any number of dispatches, WARP         *)
(* requests, attempts, and mishaps: what a commit means, what a recorded   *)
(* failure means, when files are taken away, and that nothing is lost.      *)
(*                                                                         *)
(* The argument is that of the lock: whoever changes the host holds it     *)
(* from its backup to its end, so what it saw while it backed up still     *)
(* holds when it removes, restores or leaves.                              *)
(***************************************************************************)
EXTENDS Uninstall, TLAPS

-----------------------------------------------------------------------------
(* The inductive invariant *)

Before == {"none", "staged", "load", "preflight", "lock", "stage", "done"}
Removing == {"bridge", "unload", "reload", "boot", "warp", "stop", "firewall",
             "precommit", "remove", "purge", "verify", "commit"}
Stopped == {"remove", "purge", "verify", "commit"}
Undoing == {"restore", "copy", "restoreBridge", "restart"}
Leaving == {"callback", "clean"}
Pcs == Before \cup Removing \cup {"success", "finish"} \cup Undoing \cup Leaving

Runs == [pc : Pcs, mutated : BOOLEAN, bridge : BOOLEAN, commit : BOOLEAN,
         success : BOOLEAN, ok : BOOLEAN, keepLocal : BOOLEAN, keepBridge : BOOLEAN,
         keepCallback : BOOLEAN, backup : SUBSET Parts, attempts : Nat, term : BOOLEAN]

Typed ==
    /\ run \in [Runners -> Runs]
    /\ host \in SUBSET Parts
    /\ saved \in [Runners -> SUBSET Parts] /\ staged \in [Runners -> BOOLEAN]
    /\ token \in [Runners -> {"open", "success", "failure"}]
    /\ committed \in [Runners -> BOOLEAN] /\ spoiled \in [Runners -> BOOLEAN]

(* Whoever can still change the host, or holds a backup, holds the lock,    *)
(* and nobody else does.                                                    *)
Working(r) ==
    \/ run[r].pc \in {"stage", "success"} \cup Removing \cup Undoing
    \/ run[r].pc = "finish" /\ run[r].mutated
    \/ run[r].backup /= {}

LockHeld == \A r \in Runners : Working(r) => r \in lock
LockExclusive == \A r, q \in Runners : r \in lock /\ q \in lock => r = q

(* The variables of a script at each of its steps. *)
Untouched(r) ==
    ~run[r].mutated /\ ~run[r].bridge /\ ~run[r].commit /\ ~run[r].success /\ run[r].backup = {}

StepVariables(r) ==
    /\ run[r].pc \in Before => Untouched(r)
    /\ run[r].pc \in Removing => run[r].mutated /\ ~run[r].commit
    /\ run[r].pc \in Undoing => ~run[r].commit
    /\ run[r].pc = "finish" /\ ~run[r].mutated => Untouched(r)
    /\ run[r].pc = "success" => run[r].mutated /\ run[r].commit
    /\ run[r].commit => committed[r]
    /\ run[r].success => run[r].commit

(* A script committed, or left the files in its recovery directory; that    *)
(* does not change any more.                                                *)
Secured == \E q \in Runners : committed[q] \/ "files" \in saved[q]

Changing(r) ==
    \/ run[r].pc \in Removing \cup Undoing
    \/ run[r].pc = "finish" /\ run[r].mutated /\ ~run[r].commit

(* What the host is at each step of the script that works on it, and what   *)
(* is missing in its backup.                                                *)
StepHost(r) ==
    /\ Changing(r) /\ "files" \in host => "files" \in run[r].backup
    /\ run[r].pc \in Stopped => "process" \notin host /\ ~WarpInstalled
    /\ run[r].pc = "commit" => host = {}
    /\ run[r].pc \in {"restoreBridge", "restart"} /\ run[r].ok => Backed(r) \subseteq host
    /\ manager = "supervisor" /\ "files" \in run[r].backup /\ "boot" \notin run[r].backup => Secured
    /\ run[r].pc \in Leaving /\ "files" \in run[r].backup /\ ~run[r].keepLocal =>
          Secured \/ {"boot", "files", "process"} \subseteq host

(* Once a script has committed, no other has anything to bring back. *)
Harmless(q) ==
    /\ run[q].pc \notin {"unload", "reload"}
    /\ run[q].pc \in Removing \cup Undoing \cup {"finish"} /\ ~run[q].commit =>
          ~run[q].bridge /\ Backed(q) = {}
CommittedGone ==
    \A r \in Runners : committed[r] =>
        host = {} /\ ~WarpInstalled /\ \A q \in Runners : Harmless(q)

(* What the panel recorded, and a script that nothing interrupted. *)
Recorded(r) ==
    /\ token[r] = "success" => committed[r]
    /\ token[r] = "failure" /\ ~spoiled[r] => ~committed[r]
    /\ token[r] /= "open" /\ ~spoiled[r] => run[r].pc \in Leaving \cup {"done"}
    /\ committed[r] /\ ~spoiled[r] => run[r].pc \in {"success", "done"} \/ run[r].success

(* The agent is there, or kept, or known to be gone. *)
Kept ==
    \/ {"boot", "files", "process"} \subseteq host
    \/ \E r \in Runners : committed[r] \/ Recoverable(r)

Own(r) == StepVariables(r) /\ StepHost(r) /\ Recorded(r)

UninstallInv ==
    /\ Typed
    /\ LockHeld /\ LockExclusive
    /\ \A r \in Runners : Own(r)
    /\ CommittedGone
    /\ Kept

-----------------------------------------------------------------------------
Act(r) ==
    \/ Dispatch(r) \/ Launch(r) \/ Script(r)
    \/ Interrupt(r) \/ KillRunner(r) \/ Retry(r)

(* The actions by what they change beside their own script. *)
Looks(r) ==
    \/ Dispatch(r) \/ Launch(r) \/ Load(r) \/ Preflight(r) \/ TakeLock(r) \/ Stage(r)
    \/ BackupBridge(r) \/ CheckWarp(r) \/ Precommit(r) \/ Verify(r) \/ Succeed(r) \/ Finish(r)
Removes(r) ==
    \/ Unload(r) \/ Reload(r) \/ CleanBoot(r) \/ Stop(r) \/ CleanFirewall(r)
    \/ RemoveFiles(r) \/ Purge(r)
Restores(r) == RestoreFiles(r) \/ CopyFiles(r) \/ RestoreBridge(r) \/ Restart(r)
Reports(r) == Commit(r) \/ Post(r)
Goes(r) == Clean(r) \/ KillRunner(r) \/ Interrupt(r) \/ Retry(r)

LEMMA ActIs ==
    ASSUME NEW r, Act(r)
    PROVE  Looks(r) \/ Removes(r) \/ Restores(r) \/ Reports(r) \/ Goes(r)
BY DEF Act, Script, Looks, Removes, Restores, Reports, Goes

USE DEF At, Goto, Fail, Mishap, Smooth, files, world, history, Outside,
    AgentEnds, Started, Backed, LocalPaths

(* What the reload of nginx makes of its script. *)
ReloadMoves(r) ==
    \/ run' = [run EXCEPT ![r] = [run[r] EXCEPT !.pc = "boot", !.bridge = TRUE]]
    \/ run' = [run EXCEPT ![r] = [run[r] EXCEPT !.pc = "finish"]]
    \/ run' = [run EXCEPT ![r] = [run[r] EXCEPT !.pc = "finish", !.keepBridge = TRUE]]

LEMMA RunTyped ==
    ASSUME Typed, NEW r \in Runners, Act(r)
    PROVE  run' \in [Runners -> Runs]
<1>a. run[r] \in Runs
  BY DEF Typed
<1> USE DEF Typed
<1>1. CASE Dispatch(r)
  <2>1. "staged" \in Pcs
    BY DEF Pcs, Before, Removing, Undoing, Leaving
  <2>2. [run[r] EXCEPT !.pc = "staged"] \in Runs
    BY <1>a, <2>1 DEF Runs
  <2> QED
    BY <1>1, <2>2 DEF Dispatch
<1>2. CASE Launch(r)
  <2>1. "load" \in Pcs /\ "done" \in Pcs
    BY DEF Pcs, Before, Removing, Undoing, Leaving
  <2>2. /\ [run[r] EXCEPT !.pc = "load"] \in Runs
        /\ [run[r] EXCEPT !.pc = "done"] \in Runs
    BY <1>a, <2>1 DEF Runs
  <2> QED
    BY <1>2, <2>2 DEF Launch
<1>3. CASE Load(r)
  <2>1. "preflight" \in Pcs /\ "done" \in Pcs
    BY DEF Pcs, Before, Removing, Undoing, Leaving
  <2>2. /\ [run[r] EXCEPT !.pc = "preflight"] \in Runs
        /\ [run[r] EXCEPT !.pc = "done"] \in Runs
    BY <1>a, <2>1 DEF Runs
  <2> QED
    BY <1>3, <2>2 DEF Load
<1>4. CASE Preflight(r)
  <2>1. "lock" \in Pcs /\ "finish" \in Pcs
    BY DEF Pcs, Before, Removing, Undoing, Leaving
  <2>2. /\ [run[r] EXCEPT !.pc = "lock"] \in Runs
        /\ [run[r] EXCEPT !.pc = "finish"] \in Runs
    BY <1>a, <2>1 DEF Runs
  <2> QED
    BY <1>4, <2>2 DEF Preflight
<1>5. CASE TakeLock(r)
  <2>1. "stage" \in Pcs /\ "finish" \in Pcs
    BY DEF Pcs, Before, Removing, Undoing, Leaving
  <2>2. /\ [run[r] EXCEPT !.pc = "stage"] \in Runs
        /\ [run[r] EXCEPT !.pc = "finish"] \in Runs
    BY <1>a, <2>1 DEF Runs
  <2> QED
    BY <1>5, <2>2 DEF TakeLock
<1>6. CASE Stage(r)
  <2>1. "bridge" \in Pcs /\ "finish" \in Pcs
    BY DEF Pcs, Before, Removing, Undoing, Leaving
  <2> QED
    BY <1>6, <2>1 DEF Stage, Parts, Runs
<1>7. CASE BackupBridge(r)
  <2>1. "boot" \in Pcs /\ "unload" \in Pcs /\ "finish" \in Pcs
    BY DEF Pcs, Before, Removing, Undoing, Leaving
  <2>2. run[r].backup \cup {"loader"} \in SUBSET Parts
    BY <1>a DEF Runs, Parts
  <2>3. /\ [run[r] EXCEPT !.pc = "boot"] \in Runs
        /\ [run[r] EXCEPT !.pc = "finish"] \in Runs
        /\ [run[r] EXCEPT !.pc = "unload", !.backup = @ \cup {"loader"}] \in Runs
    BY <1>a, <2>1, <2>2 DEF Runs
  <2>4. \/ run' = [run EXCEPT ![r] = [run[r] EXCEPT !.pc = "boot"]]
        \/ run' = [run EXCEPT ![r] = [run[r] EXCEPT !.pc = "finish"]]
        \/ run' = [run EXCEPT ![r] = [run[r] EXCEPT !.pc = "unload", !.backup = @ \cup {"loader"}]]
    BY <1>7 DEF BackupBridge
  <2> QED
    BY <2>3, <2>4
<1>8. CASE CheckWarp(r)
  <2>1. "finish" \in Pcs /\ "stop" \in Pcs
    BY DEF Pcs, Before, Removing, Undoing, Leaving
  <2>2. /\ [run[r] EXCEPT !.pc = "finish"] \in Runs
        /\ [run[r] EXCEPT !.pc = "stop"] \in Runs
    BY <1>a, <2>1 DEF Runs
  <2> QED
    BY <1>8, <2>2 DEF CheckWarp
<1>9. CASE Precommit(r)
  <2>1. "remove" \in Pcs /\ "finish" \in Pcs
    BY DEF Pcs, Before, Removing, Undoing, Leaving
  <2>2. /\ [run[r] EXCEPT !.pc = "remove"] \in Runs
        /\ [run[r] EXCEPT !.pc = "finish"] \in Runs
    BY <1>a, <2>1 DEF Runs
  <2> QED
    BY <1>9, <2>2 DEF Precommit
<1>10. CASE Verify(r)
  <2>1. "commit" \in Pcs /\ "finish" \in Pcs
    BY DEF Pcs, Before, Removing, Undoing, Leaving
  <2>2. /\ [run[r] EXCEPT !.pc = "commit"] \in Runs
        /\ [run[r] EXCEPT !.pc = "finish"] \in Runs
    BY <1>a, <2>1 DEF Runs
  <2> QED
    BY <1>10, <2>2 DEF Verify
<1>11. CASE Succeed(r)
  <2>1. "finish" \in Pcs
    BY DEF Pcs, Before, Removing, Undoing, Leaving
  <2>2. [run[r] EXCEPT !.pc = "finish", !.success = TRUE] \in Runs
    BY <1>a, <2>1 DEF Runs
  <2>3. run' = [run EXCEPT ![r] = [run[r] EXCEPT !.pc = "finish", !.success = TRUE]]
    BY <1>11 DEF Succeed
  <2> QED
    BY <2>2, <2>3
<1>12. CASE Finish(r)
  <2>1. "restore" \in Pcs /\ "callback" \in Pcs
    BY DEF Pcs, Before, Removing, Undoing, Leaving
  <2>2. /\ [run[r] EXCEPT !.pc = "restore"] \in Runs
        /\ [run[r] EXCEPT !.pc = "callback"] \in Runs
    BY <1>a, <2>1 DEF Runs
  <2> QED
    BY <1>12, <2>2 DEF Finish
<1>13. CASE Unload(r)
  <2>1. "reload" \in Pcs
    BY DEF Pcs, Before, Removing, Undoing, Leaving
  <2>2. [run[r] EXCEPT !.pc = "reload"] \in Runs
    BY <1>a, <2>1 DEF Runs
  <2> QED
    BY <1>13, <2>2 DEF Unload
<1>14. CASE Reload(r)
  <2>1. "boot" \in Pcs /\ "finish" \in Pcs
    BY DEF Pcs, Before, Removing, Undoing, Leaving
  <2>2. /\ [run[r] EXCEPT !.pc = "boot", !.bridge = TRUE] \in Runs
        /\ [run[r] EXCEPT !.pc = "finish"] \in Runs
        /\ [run[r] EXCEPT !.pc = "finish", !.keepBridge = TRUE] \in Runs
    BY <1>a, <2>1 DEF Runs
  <2>3. ReloadMoves(r)
    BY <1>14 DEF Reload, ReloadMoves
  <2> QED
    BY <2>2, <2>3 DEF ReloadMoves
<1>15. CASE CleanBoot(r)
  <2>1. "warp" \in Pcs /\ "finish" \in Pcs
    BY DEF Pcs, Before, Removing, Undoing, Leaving
  <2>2. /\ [run[r] EXCEPT !.pc = "warp"] \in Runs
        /\ [run[r] EXCEPT !.pc = "finish"] \in Runs
    BY <1>a, <2>1 DEF Runs
  <2> QED
    BY <1>15, <2>2 DEF CleanBoot
<1>16. CASE Stop(r)
  <2>1. "firewall" \in Pcs /\ "finish" \in Pcs
    BY DEF Pcs, Before, Removing, Undoing, Leaving
  <2>2. /\ [run[r] EXCEPT !.pc = "firewall"] \in Runs
        /\ [run[r] EXCEPT !.pc = "finish"] \in Runs
    BY <1>a, <2>1 DEF Runs
  <2> QED
    BY <1>16, <2>2 DEF Stop
<1>17. CASE CleanFirewall(r)
  <2>1. "precommit" \in Pcs
    BY DEF Pcs, Before, Removing, Undoing, Leaving
  <2>2. [run[r] EXCEPT !.pc = "precommit"] \in Runs
    BY <1>a, <2>1 DEF Runs
  <2> QED
    BY <1>17, <2>2 DEF CleanFirewall
<1>18. CASE RemoveFiles(r)
  <2>1. "purge" \in Pcs /\ "finish" \in Pcs
    BY DEF Pcs, Before, Removing, Undoing, Leaving
  <2>2. /\ [run[r] EXCEPT !.pc = "purge"] \in Runs
        /\ [run[r] EXCEPT !.pc = "finish"] \in Runs
    BY <1>a, <2>1 DEF Runs
  <2> QED
    BY <1>18, <2>2 DEF RemoveFiles
<1>19. CASE Purge(r)
  <2>1. "verify" \in Pcs /\ "finish" \in Pcs
    BY DEF Pcs, Before, Removing, Undoing, Leaving
  <2>2. /\ [run[r] EXCEPT !.pc = "verify"] \in Runs
        /\ [run[r] EXCEPT !.pc = "finish"] \in Runs
    BY <1>a, <2>1 DEF Runs
  <2> QED
    BY <1>19, <2>2 DEF Purge
<1>20. CASE RestoreFiles(r)
  <2>1. "restoreBridge" \in Pcs /\ "copy" \in Pcs
    BY DEF Pcs, Before, Removing, Undoing, Leaving
  <2>2. /\ [run[r] EXCEPT !.pc = "restoreBridge"] \in Runs
        /\ [run[r] EXCEPT !.pc = "copy"] \in Runs
        /\ [run[r] EXCEPT !.pc = "restoreBridge", !.ok = FALSE] \in Runs
    BY <1>a, <2>1 DEF Runs
  <2>3. \/ run' = [run EXCEPT ![r] = [run[r] EXCEPT !.pc = "restoreBridge"]]
        \/ run' = [run EXCEPT ![r] = [run[r] EXCEPT !.pc = "copy"]]
        \/ run' = [run EXCEPT ![r] = [run[r] EXCEPT !.pc = "restoreBridge", !.ok = FALSE]]
    BY <1>20 DEF RestoreFiles
  <2> QED
    BY <2>2, <2>3
<1>21. CASE RestoreBridge(r)
  <2>1. "restart" \in Pcs
    BY DEF Pcs, Before, Removing, Undoing, Leaving
  <2>2. /\ [run[r] EXCEPT !.pc = "restart"] \in Runs
        /\ [run[r] EXCEPT !.pc = "restart", !.ok = FALSE] \in Runs
    BY <1>a, <2>1 DEF Runs
  <2>3. \/ run' = [run EXCEPT ![r] = [run[r] EXCEPT !.pc = "restart"]]
        \/ run' = [run EXCEPT ![r] = [run[r] EXCEPT !.pc = "restart", !.ok = FALSE]]
    BY <1>21 DEF RestoreBridge
  <2> QED
    BY <2>2, <2>3
<1>22. CASE Restart(r)
  <2>1. "callback" \in Pcs
    BY DEF Pcs, Before, Removing, Undoing, Leaving
  <2>2. /\ [run[r] EXCEPT !.pc = "callback", !.mutated = FALSE, !.bridge = FALSE] \in Runs
        /\ [run[r] EXCEPT !.pc = "callback", !.ok = FALSE, !.keepLocal = TRUE, !.keepBridge = TRUE] \in Runs
    BY <1>a, <2>1 DEF Runs
  <2>3. Restored(r) \/ NotRestored(r)
    BY <1>22 DEF Restart
  <2>4. CASE Restored(r)
    BY <2>2, <2>4 DEF Restored
  <2>5. CASE NotRestored(r)
    BY <2>2, <2>5 DEF NotRestored
  <2> QED
    BY <2>3, <2>4, <2>5
<1>23. CASE Commit(r)
  <2>1. "success" \in Pcs
    BY DEF Pcs, Before, Removing, Undoing, Leaving
  <2>2. [run[r] EXCEPT !.pc = "success", !.commit = TRUE] \in Runs
    BY <1>a, <2>1 DEF Runs
  <2>3. run' = [run EXCEPT ![r] = [run[r] EXCEPT !.pc = "success", !.commit = TRUE]]
    BY <1>23 DEF Commit
  <2> QED
    BY <2>2, <2>3
<1>24. CASE Post(r)
  <2>1. "clean" \in Pcs
    BY DEF Pcs, Before, Removing, Undoing, Leaving
  <2> DEFINE last == run[r].attempts + 1 =
                        (IF run[r].success THEN SuccessAttempts ELSE FailureAttempts)
             attempted == [run[r] EXCEPT !.attempts = @ + 1,
                                         !.pc = IF last THEN "clean" ELSE @,
                                         !.keepCallback = last /\ run[r].commit /\ run[r].success]
  <2>2. run[r].attempts + 1 \in Nat /\ (IF last THEN "clean" ELSE run[r].pc) \in Pcs
    BY <1>a, <2>1 DEF Runs
  <2>3. (last /\ run[r].commit /\ run[r].success) \in BOOLEAN
    OBVIOUS
  <2>4. attempted \in Runs
    <3> HIDE DEF last
    <3> QED
      BY <1>a, <2>2, <2>3 DEF Runs
  <2>5. [run[r] EXCEPT !.pc = "clean"] \in Runs
    BY <1>a, <2>1 DEF Runs
  <2>6. \/ run' = [run EXCEPT ![r] = attempted]
        \/ run' = [run EXCEPT ![r] = [run[r] EXCEPT !.pc = "clean"]]
    BY <1>24 DEF Post
  <2> HIDE DEF attempted
  <2> QED
    BY <2>4, <2>5, <2>6
<1>25. CASE Clean(r)
  <2>1. "done" \in Pcs
    BY DEF Pcs, Before, Removing, Undoing, Leaving
  <2> QED
    BY <1>25, <2>1 DEF Clean, Exit, Fresh, Runs
<1>26. CASE KillRunner(r)
  <2>1. "done" \in Pcs
    BY DEF Pcs, Before, Removing, Undoing, Leaving
  <2> QED
    BY <1>26, <2>1 DEF KillRunner, Exit, Fresh, Runs
<1>27. CASE Interrupt(r)
  <2>1. "finish" \in Pcs
    BY DEF Pcs, Before, Removing, Undoing, Leaving
  <2> DEFINE ignored == run[r].pc \in Trapped
             next == IF ignored THEN run[r].pc ELSE "finish"
             still == run[r].success /\ ignored
  <2>2. next \in Pcs /\ still \in BOOLEAN
    BY <1>a, <2>1 DEF Runs
  <2>3. run' = [run EXCEPT ![r] = [run[r] EXCEPT !.term = TRUE, !.success = still, !.pc = next]]
    BY <1>27 DEF Interrupt
  <2> HIDE DEF next, still
  <2>4. [run[r] EXCEPT !.term = TRUE, !.success = still, !.pc = next] \in Runs
    BY <1>a, <2>2 DEF Runs
  <2> QED
    BY <2>3, <2>4
<1>28. CASE Retry(r)
  <2>1. "load" \in Pcs
    BY DEF Pcs, Before, Removing, Undoing, Leaving
  <2> QED
    BY <1>28, <2>1 DEF Retry, Fresh, Runs
<1>29. CASE CopyFiles(r)
  <2>1. "restoreBridge" \in Pcs
    BY DEF Pcs, Before, Removing, Undoing, Leaving
  <2>2. /\ [run[r] EXCEPT !.pc = "restoreBridge"] \in Runs
        /\ [run[r] EXCEPT !.pc = "restoreBridge", !.ok = FALSE] \in Runs
    BY <1>a, <2>1 DEF Runs
  <2>3. \/ run' = [run EXCEPT ![r] = [run[r] EXCEPT !.pc = "restoreBridge"]]
        \/ run' = [run EXCEPT ![r] = [run[r] EXCEPT !.pc = "restoreBridge", !.ok = FALSE]]
    BY <1>29 DEF CopyFiles
  <2> QED
    BY <2>2, <2>3
<1> QED
  BY <1>1, <1>2, <1>3, <1>4, <1>5, <1>6, <1>7, <1>8, <1>9, <1>10, <1>11, <1>12, <1>13, <1>14, <1>15, <1>16, <1>17, <1>18, <1>19, <1>20, <1>21, <1>22, <1>23, <1>24, <1>25, <1>26, <1>27, <1>28, <1>29 DEF Act, Script

(* What the actions do to the variables beside those of the script. *)
LEMMA TypedStep ==
    ASSUME Typed, NEW r \in Runners, Act(r)
    PROVE  Typed'
<1>a. run' \in [Runners -> Runs]
  BY RunTyped
<1>b. run[r].backup \in SUBSET Parts
  BY DEF Typed, Runs
<1> USE DEF Typed
<1>1. CASE Dispatch(r)
  BY <1>1, <1>a, <1>b DEF Dispatch, StageFiles
<1>2. CASE Launch(r)
  BY <1>2, <1>a, <1>b DEF Launch
<1>3. CASE Load(r)
  BY <1>3, <1>a, <1>b DEF Load
<1>4. CASE Preflight(r)
  BY <1>4, <1>a, <1>b DEF Preflight
<1>5. CASE TakeLock(r)
  BY <1>5, <1>a, <1>b DEF TakeLock
<1>6. CASE Stage(r)
  BY <1>6, <1>a, <1>b DEF Stage
<1>7. CASE BackupBridge(r)
  BY <1>7, <1>a, <1>b DEF BackupBridge
<1>8. CASE CheckWarp(r)
  BY <1>8, <1>a, <1>b DEF CheckWarp
<1>9. CASE Precommit(r)
  BY <1>9, <1>a, <1>b DEF Precommit
<1>10. CASE Verify(r)
  BY <1>10, <1>a, <1>b DEF Verify
<1>11. CASE Succeed(r)
  BY <1>11, <1>a, <1>b DEF Succeed
<1>12. CASE Finish(r)
  BY <1>12, <1>a, <1>b DEF Finish
<1>13. CASE Unload(r)
  BY <1>13, <1>a, <1>b DEF Unload
<1>14. CASE Reload(r)
  BY <1>14, <1>a, <1>b DEF Reload, Parts
<1>15. CASE CleanBoot(r)
  BY <1>15, <1>a, <1>b DEF CleanBoot
<1>16. CASE Stop(r)
  BY <1>16, <1>a, <1>b DEF Stop
<1>17. CASE CleanFirewall(r)
  BY <1>17, <1>a, <1>b DEF CleanFirewall
<1>18. CASE RemoveFiles(r)
  BY <1>18, <1>a, <1>b DEF RemoveFiles
<1>19. CASE Purge(r)
  BY <1>19, <1>a, <1>b DEF Purge
<1>20. CASE RestoreFiles(r)
  BY <1>20, <1>a, <1>b DEF RestoreFiles
<1>21. CASE RestoreBridge(r)
  BY <1>21, <1>a, <1>b DEF RestoreBridge, Parts
<1>22. CASE Restart(r)
  BY <1>22, <1>a, <1>b DEF Restart, Parts
<1>23. CASE Commit(r)
  BY <1>23, <1>a, <1>b DEF Commit
<1>24. CASE Post(r)
  BY <1>24, <1>a, <1>b DEF Post
<1>25. CASE Clean(r)
  <2> DEFINE left == {p \in run[r].backup : IF p = "loader" THEN run[r].keepBridge ELSE run[r].keepLocal}
  <2>1. left \in SUBSET Parts
    BY <1>b
  <2>2. /\ saved' = [saved EXCEPT ![r] = @ \cup left]
        /\ staged' = [staged EXCEPT ![r] = run[r].keepCallback]
        /\ UNCHANGED <<host, token, committed, spoiled>>
    BY <1>25 DEF Clean, Exit
  <2>3. run[r].keepCallback \in BOOLEAN
    BY DEF Runs
  <2> HIDE DEF left
  <2> QED
    BY <1>a, <2>1, <2>2, <2>3
<1>26. CASE KillRunner(r)
  BY <1>26, <1>a, <1>b DEF KillRunner, Exit
<1>27. CASE Interrupt(r)
  BY <1>27, <1>a, <1>b DEF Interrupt
<1>28. CASE Retry(r)
  BY <1>28, <1>a, <1>b DEF Retry
<1>29. CASE CopyFiles(r)
  BY <1>29, <1>a, <1>b DEF CopyFiles
<1> QED
  BY <1>1, <1>2, <1>3, <1>4, <1>5, <1>6, <1>7, <1>8, <1>9, <1>10, <1>11, <1>12, <1>13, <1>14, <1>15, <1>16, <1>17, <1>18, <1>19, <1>20, <1>21, <1>22, <1>23, <1>24, <1>25, <1>26, <1>27, <1>28, <1>29 DEF Act, Script

USE DEF Before, Removing, Stopped, Undoing, Leaving

LEMMA LockMoves ==
    ASSUME NEW r \in Runners, Act(r), NEW q \in Runners
    PROVE  /\ q \in lock' => q \in lock \/ (q = r /\ lock = {})
           /\ q /= r /\ q \in lock => q \in lock'
<1>0. q /= "supervisor"
  BY UninstallAssumption
<1>1. CASE Dispatch(r)
  BY <1>1 DEF Dispatch, StageFiles
<1>2. CASE Launch(r)
  BY <1>2 DEF Launch
<1>3. CASE Load(r)
  BY <1>3 DEF Load
<1>4. CASE Preflight(r)
  BY <1>4 DEF Preflight
<1>5. CASE TakeLock(r)
  BY <1>5 DEF TakeLock
<1>6. CASE Stage(r)
  BY <1>6 DEF Stage
<1>7. CASE BackupBridge(r)
  BY <1>7 DEF BackupBridge
<1>8. CASE CheckWarp(r)
  BY <1>8 DEF CheckWarp
<1>9. CASE Precommit(r)
  BY <1>9 DEF Precommit
<1>10. CASE Verify(r)
  BY <1>10 DEF Verify
<1>11. CASE Succeed(r)
  BY <1>11 DEF Succeed
<1>12. CASE Finish(r)
  BY <1>12 DEF Finish
<1>13. CASE Unload(r)
  BY <1>13 DEF Unload
<1>14. CASE Reload(r)
  BY <1>14 DEF Reload
<1>15. CASE CleanBoot(r)
  BY <1>15 DEF CleanBoot
<1>16. CASE Stop(r)
  BY <1>16 DEF Stop
<1>17. CASE CleanFirewall(r)
  BY <1>17 DEF CleanFirewall
<1>18. CASE RemoveFiles(r)
  BY <1>18 DEF RemoveFiles
<1>19. CASE Purge(r)
  BY <1>19 DEF Purge
<1>20. CASE RestoreFiles(r)
  BY <1>20 DEF RestoreFiles
<1>21. CASE RestoreBridge(r)
  BY <1>21 DEF RestoreBridge
<1>22. CASE Restart(r)
  BY <1>22, <1>0 DEF Restart, Restored, NotRestored
<1>23. CASE Commit(r)
  BY <1>23 DEF Commit
<1>24. CASE Post(r)
  BY <1>24 DEF Post
<1>25. CASE Clean(r)
  BY <1>25 DEF Clean, Exit, Fresh
<1>26. CASE KillRunner(r)
  BY <1>26 DEF KillRunner, Exit, Fresh
<1>27. CASE Interrupt(r)
  BY <1>27 DEF Interrupt
<1>28. CASE Retry(r)
  BY <1>28 DEF Retry, Fresh
<1>29. CASE CopyFiles(r)
  BY <1>29 DEF CopyFiles
<1> QED
  BY <1>1, <1>2, <1>3, <1>4, <1>5, <1>6, <1>7, <1>8, <1>9, <1>10, <1>11, <1>12, <1>13, <1>14, <1>15, <1>16, <1>17, <1>18, <1>19, <1>20, <1>21, <1>22, <1>23, <1>24, <1>25, <1>26, <1>27, <1>28, <1>29 DEF Act, Script

(* Steps that only go on. *)
LEMMA PlainMoves ==
    ASSUME Typed, NEW r \in Runners
    PROVE  /\ Load(r) => \/ run'[r] = [run[r] EXCEPT !.pc = "preflight"]
                         \/ run'[r] = [run[r] EXCEPT !.pc = "done"]
           /\ Preflight(r) => \/ run'[r] = [run[r] EXCEPT !.pc = "lock"]
                              \/ run'[r] = [run[r] EXCEPT !.pc = "finish"]
           /\ Succeed(r) => run'[r] = [run[r] EXCEPT !.pc = "finish", !.success = TRUE]
           /\ CleanBoot(r) => \/ run'[r] = [run[r] EXCEPT !.pc = "warp"]
                              \/ run'[r] = [run[r] EXCEPT !.pc = "finish"]
           /\ Purge(r) => \/ run'[r] = [run[r] EXCEPT !.pc = "verify"]
                          \/ run'[r] = [run[r] EXCEPT !.pc = "finish"]
           /\ Verify(r) => \/ run'[r] = [run[r] EXCEPT !.pc = "commit"]
                           \/ run'[r] = [run[r] EXCEPT !.pc = "finish"]
           /\ Stop(r) => \/ run'[r] = [run[r] EXCEPT !.pc = "firewall"]
                         \/ run'[r] = [run[r] EXCEPT !.pc = "finish"]
<1> USE DEF Typed
<1>1. ASSUME Load(r)
      PROVE  \/ run'[r] = [run[r] EXCEPT !.pc = "preflight"]
             \/ run'[r] = [run[r] EXCEPT !.pc = "done"]
  BY <1>1 DEF Load
<1>2. ASSUME Preflight(r)
      PROVE  \/ run'[r] = [run[r] EXCEPT !.pc = "lock"]
             \/ run'[r] = [run[r] EXCEPT !.pc = "finish"]
  BY <1>2 DEF Preflight
<1>3. ASSUME Succeed(r)
      PROVE  run'[r] = [run[r] EXCEPT !.pc = "finish", !.success = TRUE]
  BY <1>3 DEF Succeed
<1>4. ASSUME CleanBoot(r)
      PROVE  \/ run'[r] = [run[r] EXCEPT !.pc = "warp"]
             \/ run'[r] = [run[r] EXCEPT !.pc = "finish"]
  BY <1>4 DEF CleanBoot
<1>5. ASSUME Purge(r)
      PROVE  \/ run'[r] = [run[r] EXCEPT !.pc = "verify"]
             \/ run'[r] = [run[r] EXCEPT !.pc = "finish"]
  BY <1>5 DEF Purge
<1>6. ASSUME Verify(r)
      PROVE  \/ run'[r] = [run[r] EXCEPT !.pc = "commit"]
             \/ run'[r] = [run[r] EXCEPT !.pc = "finish"]
  BY <1>6 DEF Verify
<1>7. ASSUME Stop(r)
      PROVE  \/ run'[r] = [run[r] EXCEPT !.pc = "firewall"]
             \/ run'[r] = [run[r] EXCEPT !.pc = "finish"]
  BY <1>7 DEF Stop
<1> QED
  BY <1>1, <1>2, <1>3, <1>4, <1>5, <1>6, <1>7

(* An attempt to report leaves the script where it is or goes on. *)
LEMMA PostMoves ==
    ASSUME Typed, NEW r \in Runners, Post(r)
    PROVE  /\ run[r].pc = "callback" /\ run'[r].pc \in Leaving
           /\ run'[r].mutated = run[r].mutated /\ run'[r].backup = run[r].backup
           /\ run'[r].commit = run[r].commit /\ run'[r].success = run[r].success
           /\ run'[r].bridge = run[r].bridge /\ run'[r].keepLocal = run[r].keepLocal
           /\ \/ token'[r] = token[r]
              \/ run[r].success /\ token'[r] = "success"
              \/ ~run[r].success /\ token'[r] = "failure"
           /\ UNCHANGED <<manager, host, lock, saved, committed, spoiled, warpFile>>
BY DEF Post, Typed, Runs, warpVars

LEMMA LockKept ==
    ASSUME UninstallInv, NEW r \in Runners, Act(r)
    PROVE  Working(r)' => r \in lock'
<1>a. Typed /\ StepVariables(r) /\ (Working(r) => r \in lock)
  BY DEF UninstallInv, Own, LockHeld
<1> USE DEF Typed, Runs, Working, StepVariables, Untouched
<1>1. CASE Dispatch(r)
  BY <1>1, <1>a DEF Dispatch, StageFiles
<1>2. CASE Launch(r)
  BY <1>2, <1>a DEF Launch
<1>3. CASE Load(r)
  BY <1>3, <1>a DEF Load
<1>4. CASE Preflight(r)
  <2>1. \/ run'[r] = [run[r] EXCEPT !.pc = "lock"]
        \/ run'[r] = [run[r] EXCEPT !.pc = "finish"]
    BY <1>a, <1>4, PlainMoves
  <2>2. run[r].pc = "preflight" /\ UNCHANGED <<lock, committed>>
    BY <1>4 DEF Preflight
  <2> QED
    BY <2>1, <2>2, <1>a
<1>5. CASE TakeLock(r)
  BY <1>5, <1>a DEF TakeLock
<1>6. CASE Stage(r)
  BY <1>6, <1>a DEF Stage
<1>7. CASE BackupBridge(r)
  BY <1>7, <1>a DEF BackupBridge
<1>8. CASE CheckWarp(r)
  BY <1>8, <1>a DEF CheckWarp
<1>9. CASE Precommit(r)
  BY <1>9, <1>a DEF Precommit
<1>10. CASE Verify(r)
  BY <1>10, <1>a DEF Verify
<1>11. CASE Succeed(r)
  BY <1>11, <1>a DEF Succeed
<1>12. CASE Finish(r)
  BY <1>12, <1>a DEF Finish
<1>13. CASE Unload(r)
  BY <1>13, <1>a DEF Unload
<1>14. CASE Reload(r)
  BY <1>14, <1>a DEF Reload
<1>15. CASE CleanBoot(r)
  BY <1>15, <1>a DEF CleanBoot
<1>16. CASE Stop(r)
  BY <1>16, <1>a DEF Stop
<1>17. CASE CleanFirewall(r)
  BY <1>17, <1>a DEF CleanFirewall
<1>18. CASE RemoveFiles(r)
  BY <1>18, <1>a DEF RemoveFiles
<1>19. CASE Purge(r)
  BY <1>19, <1>a DEF Purge
<1>20. CASE RestoreFiles(r)
  BY <1>20, <1>a DEF RestoreFiles
<1>21. CASE RestoreBridge(r)
  BY <1>21, <1>a DEF RestoreBridge
<1>22. CASE Restart(r)
  BY <1>22, <1>a DEF Restart, Restored, NotRestored
<1>23. CASE Commit(r)
  BY <1>23, <1>a DEF Commit
<1>24. CASE Post(r)
  BY <1>24, <1>a, PostMoves
<1>25. CASE Clean(r)
  BY <1>25, <1>a DEF Clean, Exit, Fresh
<1>26. CASE KillRunner(r)
  BY <1>26, <1>a DEF KillRunner, Exit, Fresh
<1>27. CASE Interrupt(r)
  BY <1>27, <1>a DEF Interrupt
<1>28. CASE Retry(r)
  BY <1>28, <1>a DEF Retry, Fresh
<1>29. CASE CopyFiles(r)
  BY <1>29, <1>a DEF CopyFiles
<1> QED
  BY <1>1, <1>2, <1>3, <1>4, <1>5, <1>6, <1>7, <1>8, <1>9, <1>10, <1>11, <1>12, <1>13, <1>14, <1>15, <1>16, <1>17, <1>18, <1>19, <1>20, <1>21, <1>22, <1>23, <1>24, <1>25, <1>26, <1>27, <1>28, <1>29 DEF Act, Script

(* Other scripts are where they were, and, unless this one holds the lock, *)
(* so is the host.                                                         *)
LEMMA OthersKeep ==
    ASSUME UninstallInv, NEW r \in Runners, Act(r), NEW q \in Runners \ {r}
    PROVE  /\ run'[q] = run[q] /\ token'[q] = token[q]
           /\ committed'[q] = committed[q] /\ spoiled'[q] = spoiled[q]
           /\ saved'[q] = saved[q]
<1> USE DEF UninstallInv, Typed
<1>1. CASE Looks(r)
  BY <1>1 DEF Looks, Dispatch, Launch, Load, Preflight, TakeLock, Stage, BackupBridge, CheckWarp, Precommit, Verify, Succeed, Finish
<1>2. CASE Removes(r)
  BY <1>2 DEF Removes, Unload, Reload, CleanBoot, Stop, CleanFirewall, RemoveFiles, Purge
<1>3. CASE Restores(r)
  BY <1>3 DEF Restores, RestoreFiles, CopyFiles, RestoreBridge, Restart, Restored, NotRestored
<1>4. CASE Reports(r)
  BY <1>4 DEF Reports, Commit, Post
<1>5. CASE Goes(r)
  BY <1>5 DEF Goes, Clean, KillRunner, Interrupt, Retry, Exit
<1> QED
  BY <1>1, <1>2, <1>3, <1>4, <1>5, ActIs

LEMMA HostLocked ==
    ASSUME UninstallInv, NEW r \in Runners, Act(r)
    PROVE  /\ r \in lock \/ host' = host
           /\ UNCHANGED <<warpFile, manager>>
<1> USE DEF UninstallInv, LockHeld, Working, world, warpVars
<1>1. CASE Looks(r)
  BY <1>1 DEF Looks, Dispatch, Launch, Load, Preflight, TakeLock, Stage, BackupBridge, CheckWarp, Precommit, Verify, Succeed, Finish
<1>2. CASE Removes(r)
  BY <1>2 DEF Removes, Unload, Reload, CleanBoot, Stop, CleanFirewall, RemoveFiles, Purge
<1>3. CASE Restores(r)
  BY <1>3 DEF Restores, RestoreFiles, CopyFiles, RestoreBridge, Restart
<1>4. CASE Reports(r)
  BY <1>4 DEF Reports, Commit, Post
<1>5. CASE Goes(r)
  BY <1>5 DEF Goes, Clean, KillRunner, Interrupt, Retry, Exit
<1> QED
  BY <1>1, <1>2, <1>3, <1>4, <1>5, ActIs

(* What is committed or left behind stays so. *)
LEMMA SecuredStays ==
    ASSUME UninstallInv, NEW r \in Runners, Act(r), NEW q \in Runners
    PROVE  /\ committed[q] => committed'[q]
           /\ "files" \in saved[q] => "files" \in saved'[q]
           /\ Secured => Secured'
<1>1. ASSUME NEW p \in Runners
      PROVE  /\ committed[p] => committed'[p]
             /\ "files" \in saved[p] => "files" \in saved'[p]
  <2> USE DEF UninstallInv, Typed
  <2>1. CASE Looks(r)
    BY <2>1 DEF Looks, Dispatch, Launch, Load, Preflight, TakeLock, Stage, BackupBridge, CheckWarp, Precommit, Verify, Succeed, Finish
  <2>2. CASE Removes(r)
    BY <2>2 DEF Removes, Unload, Reload, CleanBoot, Stop, CleanFirewall, RemoveFiles, Purge
  <2>3. CASE Restores(r)
    BY <2>3 DEF Restores, RestoreFiles, CopyFiles, RestoreBridge, Restart
  <2>4. CASE Reports(r)
    BY <2>4 DEF Reports, Commit, Post
  <2>5. CASE Goes(r)
    BY <2>5 DEF Goes, Clean, KillRunner, Interrupt, Retry, Exit
  <2> QED
    BY <2>1, <2>2, <2>3, <2>4, <2>5, ActIs
<1> QED
  BY <1>1 DEF Secured

(* Where rc.local did not start the agent any more when a script backed up, *)
(* another one had been there before.                                       *)
LEMMA StageSecured ==
    ASSUME UninstallInv, NEW r \in Runners, Stage(r), "boot" \notin host
    PROVE  Secured
<1>1. Working(r) /\ run[r].backup = {}
  BY DEF Stage, Working, UninstallInv, Own, StepVariables, Untouched, Before
<1>2. PICK q \in Runners : committed[q] \/ Recoverable(q)
  BY DEF UninstallInv, Kept
<1>3. run[q].backup = {}
  BY <1>1 DEF UninstallInv, LockHeld, LockExclusive, Working
<1> QED
  BY <1>2, <1>3 DEF Secured, Recoverable

LEMMA LockStep ==
    ASSUME UninstallInv, NEW r \in Runners, Act(r)
    PROVE  LockHeld' /\ LockExclusive'
<1>1. \A q \in Runners : /\ q \in lock' => q \in lock \/ (q = r /\ lock = {})
                         /\ q /= r /\ q \in lock => q \in lock'
  BY LockMoves
<1>2. ASSUME NEW q \in Runners, Working(q)' PROVE q \in lock'
  <2>1. CASE q = r
    BY <1>2, <2>1, LockKept
  <2>2. CASE q /= r
    BY <1>1, <1>2, <2>2, OthersKeep DEF Working, UninstallInv, LockHeld
  <2> QED
    BY <2>1, <2>2
<1>3. ASSUME NEW p \in Runners, NEW q \in Runners, p \in lock', q \in lock' PROVE p = q
  <2>1. \A i, j \in Runners : i \in lock /\ j \in lock => i = j
    BY DEF UninstallInv, LockExclusive
  <2>2. CASE lock = {}
    BY <1>1, <1>3, <2>2
  <2>3. CASE lock /= {}
    BY <1>1, <1>3, <2>1, <2>3
  <2> QED
    BY <2>2, <2>3
<1>4. LockHeld'
  BY <1>2 DEF LockHeld, Working
<1>5. LockExclusive'
  BY <1>3 DEF LockExclusive
<1> QED
  BY <1>4, <1>5

LEMMA OthersStep ==
    ASSUME UninstallInv, NEW r \in Runners, Act(r), NEW q \in Runners \ {r}
    PROVE  Own(q)'
<1>1. /\ run'[q] = run[q] /\ token'[q] = token[q]
      /\ committed'[q] = committed[q] /\ spoiled'[q] = spoiled[q]
  BY OthersKeep
<1>2. /\ Working(q) => host' = host
      /\ UNCHANGED <<warpFile, manager>>
      /\ Secured => Secured'
  BY HostLocked, SecuredStays DEF UninstallInv, LockHeld, LockExclusive
<1>3. Own(q)
  BY DEF UninstallInv
<1>4. StepVariables(q)' /\ Recorded(q)'
  BY <1>1, <1>3 DEF Own, StepVariables, Untouched, Recorded
<1>5. StepHost(q)'
  BY <1>1, <1>2, <1>3 DEF Own, StepHost, Changing, Working, WarpInstalled
<1> QED
  BY <1>4, <1>5 DEF Own

LEMMA VariablesStep ==
    ASSUME UninstallInv, NEW r \in Runners, Act(r)
    PROVE  StepVariables(r)'
<1>a. Typed /\ StepVariables(r) /\ (Working(r) => r \in lock)
  BY DEF UninstallInv, Own, LockHeld
<1> USE DEF Typed, Runs, StepVariables, Untouched
<1>1. CASE Dispatch(r)
  BY <1>1, <1>a DEF Dispatch, StageFiles
<1>2. CASE Launch(r)
  BY <1>2, <1>a DEF Launch
<1>3. CASE Load(r)
  <2>1. \/ run'[r] = [run[r] EXCEPT !.pc = "preflight"]
        \/ run'[r] = [run[r] EXCEPT !.pc = "done"]
    BY <1>a, <1>3, PlainMoves
  <2>2. run[r].pc = "load" /\ UNCHANGED <<lock, committed>>
    BY <1>3 DEF Load
  <2> QED
    BY <2>1, <2>2, <1>a
<1>4. CASE Preflight(r)
  <2>1. \/ run'[r] = [run[r] EXCEPT !.pc = "lock"]
        \/ run'[r] = [run[r] EXCEPT !.pc = "finish"]
    BY <1>a, <1>4, PlainMoves
  <2>2. run[r].pc = "preflight" /\ UNCHANGED <<lock, committed>>
    BY <1>4 DEF Preflight
  <2> QED
    BY <2>1, <2>2, <1>a
<1>5. CASE TakeLock(r)
  BY <1>5, <1>a DEF TakeLock
<1>6. CASE Stage(r)
  BY <1>6, <1>a DEF Stage
<1>7. CASE BackupBridge(r)
  BY <1>7, <1>a DEF BackupBridge
<1>8. CASE CheckWarp(r)
  BY <1>8, <1>a DEF CheckWarp
<1>9. CASE Precommit(r)
  BY <1>9, <1>a DEF Precommit
<1>10. CASE Verify(r)
  <2>1. \/ run'[r] = [run[r] EXCEPT !.pc = "commit"]
        \/ run'[r] = [run[r] EXCEPT !.pc = "finish"]
    BY <1>a, <1>10, PlainMoves
  <2>2. run[r].pc = "verify" /\ UNCHANGED committed
    BY <1>10 DEF Verify
  <2> QED
    BY <2>1, <2>2, <1>a
<1>11. CASE Succeed(r)
  <2>1. run'[r] = [run[r] EXCEPT !.pc = "finish", !.success = TRUE]
    BY <1>a, <1>11, PlainMoves
  <2>2. run[r].pc = "success" /\ UNCHANGED <<lock, committed>>
    BY <1>11 DEF Succeed
  <2> QED
    BY <2>1, <2>2, <1>a
<1>12. CASE Finish(r)
  BY <1>12, <1>a DEF Finish
<1>13. CASE Unload(r)
  BY <1>13, <1>a DEF Unload
<1>14. CASE Reload(r)
  BY <1>14, <1>a DEF Reload
<1>15. CASE CleanBoot(r)
  <2>1. \/ run'[r] = [run[r] EXCEPT !.pc = "warp"]
        \/ run'[r] = [run[r] EXCEPT !.pc = "finish"]
    BY <1>a, <1>15, PlainMoves
  <2>2. run[r].pc = "boot" /\ UNCHANGED <<lock, committed>>
    BY <1>15 DEF CleanBoot
  <2> QED
    BY <2>1, <2>2, <1>a
<1>16. CASE Stop(r)
  <2>1. \/ run'[r] = [run[r] EXCEPT !.pc = "firewall"]
        \/ run'[r] = [run[r] EXCEPT !.pc = "finish"]
    BY <1>a, <1>16, PlainMoves
  <2>2. run[r].pc = "stop" /\ UNCHANGED committed
    BY <1>16 DEF Stop
  <2> QED
    BY <2>1, <2>2, <1>a
<1>17. CASE CleanFirewall(r)
  BY <1>17, <1>a DEF CleanFirewall
<1>18. CASE RemoveFiles(r)
  BY <1>18, <1>a DEF RemoveFiles
<1>19. CASE Purge(r)
  <2>1. \/ run'[r] = [run[r] EXCEPT !.pc = "verify"]
        \/ run'[r] = [run[r] EXCEPT !.pc = "finish"]
    BY <1>a, <1>19, PlainMoves
  <2>2. run[r].pc = "purge" /\ UNCHANGED committed
    BY <1>19 DEF Purge
  <2> QED
    BY <2>1, <2>2, <1>a
<1>20. CASE RestoreFiles(r)
  BY <1>20, <1>a DEF RestoreFiles
<1>21. CASE RestoreBridge(r)
  BY <1>21, <1>a DEF RestoreBridge
<1>22. CASE Restart(r)
  BY <1>22, <1>a DEF Restart, Restored, NotRestored
<1>23. CASE Commit(r)
  BY <1>23, <1>a DEF Commit
<1>24. CASE Post(r)
  BY <1>24, <1>a, PostMoves
<1>25. CASE Clean(r)
  BY <1>25, <1>a DEF Clean, Exit, Fresh
<1>26. CASE KillRunner(r)
  BY <1>26, <1>a DEF KillRunner, Exit, Fresh
<1>27. CASE Interrupt(r)
  BY <1>27, <1>a DEF Interrupt
<1>28. CASE Retry(r)
  BY <1>28, <1>a DEF Retry, Fresh
<1>29. CASE CopyFiles(r)
  BY <1>29, <1>a DEF CopyFiles
<1> QED
  BY <1>1, <1>2, <1>3, <1>4, <1>5, <1>6, <1>7, <1>8, <1>9, <1>10, <1>11, <1>12, <1>13, <1>14, <1>15, <1>16, <1>17, <1>18, <1>19, <1>20, <1>21, <1>22, <1>23, <1>24, <1>25, <1>26, <1>27, <1>28, <1>29 DEF Act, Script

LEMMA HostStep ==
    ASSUME UninstallInv, NEW r \in Runners, Act(r)
    PROVE  StepHost(r)'
<1>a. Typed /\ StepVariables(r) /\ StepHost(r)
  BY DEF UninstallInv, Own
<1>b. /\ Secured => Secured'
      /\ committed[r] => Secured
  BY SecuredStays DEF Secured
<1>c. committed[r] => host = {}
  BY DEF UninstallInv, CommittedGone
<1> USE DEF Typed, Runs, StepVariables, Untouched, StepHost, Changing, WarpInstalled, warpVars
<1>1. CASE Dispatch(r)
  BY <1>1, <1>a, <1>b, <1>c DEF Dispatch, StageFiles
<1>2. CASE Launch(r)
  BY <1>2, <1>a, <1>b, <1>c DEF Launch
<1>3. CASE Load(r)
  BY <1>3, <1>a, <1>b, <1>c DEF Load
<1>4. CASE Preflight(r)
  <2>1. \/ run'[r] = [run[r] EXCEPT !.pc = "lock"]
        \/ run'[r] = [run[r] EXCEPT !.pc = "finish"]
    BY <1>a, <1>4, PlainMoves
  <2>2. run[r].pc = "preflight" /\ ~run[r].mutated /\ run[r].backup = {}
    BY <1>4, <1>a DEF Preflight
  <2> QED
    BY <1>a, <2>1, <2>2
<1>5. CASE TakeLock(r)
  BY <1>5, <1>a, <1>b, <1>c DEF TakeLock
<1>6. CASE Stage(r)
  <2>1. /\ run[r].pc = "stage" /\ ~run[r].mutated /\ run[r].backup = {}
        /\ UNCHANGED <<host, manager, warpFile>>
    BY <1>6, <1>a DEF Stage
  <2>2. \/ run'[r] = [run[r] EXCEPT !.pc = "bridge", !.mutated = TRUE, !.backup = host \cap LocalPaths]
        \/ run'[r] = [run[r] EXCEPT !.pc = "finish"]
    BY <1>6, <1>a DEF Stage
  <2>3. "boot" \in host \/ Secured'
    BY <1>6, <1>b, StageSecured
  <2>4. CASE run'[r] = [run[r] EXCEPT !.pc = "finish"]
    BY <1>a, <2>1, <2>4
  <2>5. CASE run'[r] = [run[r] EXCEPT !.pc = "bridge", !.mutated = TRUE, !.backup = host \cap LocalPaths]
    <3>1. run'[r].pc = "bridge" /\ run'[r].backup = host \cap LocalPaths
      BY <1>a, <2>5
    <3> QED
      BY <2>1, <2>3, <3>1
  <2> QED
    BY <2>2, <2>4, <2>5
<1>7. CASE BackupBridge(r)
  <2>1. /\ run[r].pc = "bridge" /\ run'[r].pc \in {"boot", "unload", "finish"}
        /\ UNCHANGED <<host, manager, warpFile>>
    BY <1>7, <1>a DEF BackupBridge
  <2>2. run'[r].backup \in {run[r].backup, run[r].backup \cup {"loader"}}
    BY <1>7, <1>a DEF BackupBridge
  <2> QED
    BY <1>a, <1>b, <2>1, <2>2
<1>8. CASE CheckWarp(r)
  BY <1>8, <1>a, <1>b, <1>c DEF CheckWarp
<1>9. CASE Precommit(r)
  BY <1>9, <1>a, <1>b, <1>c DEF Precommit
<1>10. CASE Verify(r)
  BY <1>10, <1>a, <1>b, <1>c DEF Verify
<1>11. CASE Succeed(r)
  BY <1>11, <1>a, <1>b, <1>c DEF Succeed
<1>12. CASE Finish(r)
  BY <1>12, <1>a, <1>b, <1>c DEF Finish
<1>13. CASE Unload(r)
  BY <1>13, <1>a, <1>b, <1>c DEF Unload
<1>14. CASE Reload(r)
  BY <1>14, <1>a, <1>b, <1>c DEF Reload
<1>15. CASE CleanBoot(r)
  BY <1>15, <1>a, <1>b, <1>c DEF CleanBoot
<1>16. CASE Stop(r)
  BY <1>16, <1>a, <1>b, <1>c DEF Stop
<1>17. CASE CleanFirewall(r)
  BY <1>17, <1>a, <1>b, <1>c DEF CleanFirewall
<1>18. CASE RemoveFiles(r)
  BY <1>18, <1>a, <1>b, <1>c DEF RemoveFiles
<1>19. CASE Purge(r)
  BY <1>19, <1>a, <1>b, <1>c DEF Purge
<1>20. CASE RestoreFiles(r)
  BY <1>20, <1>a, <1>b, <1>c DEF RestoreFiles
<1>21. CASE RestoreBridge(r)
  BY <1>21, <1>a, <1>b, <1>c DEF RestoreBridge
<1>22. CASE Restart(r)
  BY <1>22, <1>a, <1>b, <1>c DEF Restart, Restored, NotRestored
<1>23. CASE Commit(r)
  BY <1>23, <1>a, <1>b, <1>c DEF Commit
<1>24. CASE Post(r)
  BY <1>24, <1>a, <1>b, PostMoves
<1>25. CASE Clean(r)
  BY <1>25, <1>a, <1>b, <1>c DEF Clean, Exit, Fresh
<1>26. CASE KillRunner(r)
  BY <1>26, <1>a, <1>b, <1>c DEF KillRunner, Exit, Fresh
<1>27. CASE Interrupt(r)
  BY <1>27, <1>a, <1>b, <1>c DEF Interrupt
<1>28. CASE Retry(r)
  BY <1>28, <1>a, <1>b, <1>c DEF Retry, Fresh
<1>29. CASE CopyFiles(r)
  BY <1>29, <1>a, <1>b, <1>c DEF CopyFiles
<1> QED
  BY <1>1, <1>2, <1>3, <1>4, <1>5, <1>6, <1>7, <1>8, <1>9, <1>10, <1>11, <1>12, <1>13, <1>14, <1>15, <1>16, <1>17, <1>18, <1>19, <1>20, <1>21, <1>22, <1>23, <1>24, <1>25, <1>26, <1>27, <1>28, <1>29 DEF Act, Script

LEMMA RecordedStep ==
    ASSUME UninstallInv, NEW r \in Runners, Act(r)
    PROVE  Recorded(r)'
<1>a. Typed /\ StepVariables(r) /\ Recorded(r)
  BY DEF UninstallInv, Own
<1> USE DEF Typed, Runs, StepVariables, Untouched, Recorded
<1>1. CASE Dispatch(r)
  BY <1>1, <1>a DEF Dispatch, StageFiles
<1>2. CASE Launch(r)
  BY <1>2, <1>a DEF Launch
<1>3. CASE Load(r)
  BY <1>3, <1>a DEF Load
<1>4. CASE Preflight(r)
  BY <1>4, <1>a DEF Preflight
<1>5. CASE TakeLock(r)
  BY <1>5, <1>a DEF TakeLock
<1>6. CASE Stage(r)
  BY <1>6, <1>a DEF Stage
<1>7. CASE BackupBridge(r)
  BY <1>7, <1>a DEF BackupBridge
<1>8. CASE CheckWarp(r)
  BY <1>8, <1>a DEF CheckWarp
<1>9. CASE Precommit(r)
  BY <1>9, <1>a DEF Precommit
<1>10. CASE Verify(r)
  BY <1>10, <1>a DEF Verify
<1>11. CASE Succeed(r)
  BY <1>11, <1>a DEF Succeed
<1>12. CASE Finish(r)
  BY <1>12, <1>a DEF Finish
<1>13. CASE Unload(r)
  BY <1>13, <1>a DEF Unload
<1>14. CASE Reload(r)
  BY <1>14, <1>a DEF Reload
<1>15. CASE CleanBoot(r)
  BY <1>15, <1>a DEF CleanBoot
<1>16. CASE Stop(r)
  BY <1>16, <1>a DEF Stop
<1>17. CASE CleanFirewall(r)
  BY <1>17, <1>a DEF CleanFirewall
<1>18. CASE RemoveFiles(r)
  BY <1>18, <1>a DEF RemoveFiles
<1>19. CASE Purge(r)
  BY <1>19, <1>a DEF Purge
<1>20. CASE RestoreFiles(r)
  BY <1>20, <1>a DEF RestoreFiles
<1>21. CASE RestoreBridge(r)
  BY <1>21, <1>a DEF RestoreBridge
<1>22. CASE Restart(r)
  BY <1>22, <1>a DEF Restart, Restored, NotRestored
<1>23. CASE Commit(r)
  BY <1>23, <1>a DEF Commit
<1>24. CASE Post(r)
  BY <1>24, <1>a, PostMoves
<1>25. CASE Clean(r)
  BY <1>25, <1>a DEF Clean, Exit, Fresh
<1>26. CASE KillRunner(r)
  BY <1>26, <1>a DEF KillRunner, Exit, Fresh
<1>27. CASE Interrupt(r)
  BY <1>27, <1>a DEF Interrupt
<1>28. CASE Retry(r)
  BY <1>28, <1>a DEF Retry, Fresh
<1>29. CASE CopyFiles(r)
  BY <1>29, <1>a DEF CopyFiles
<1> QED
  BY <1>1, <1>2, <1>3, <1>4, <1>5, <1>6, <1>7, <1>8, <1>9, <1>10, <1>11, <1>12, <1>13, <1>14, <1>15, <1>16, <1>17, <1>18, <1>19, <1>20, <1>21, <1>22, <1>23, <1>24, <1>25, <1>26, <1>27, <1>28, <1>29 DEF Act, Script

LEMMA HarmlessStep ==
    ASSUME UninstallInv, NEW r \in Runners, Harmless(r), host = {}, Act(r)
    PROVE  Harmless(r)'
<1>a. Typed /\ StepVariables(r) /\ StepHost(r) /\ Harmless(r)
  BY DEF UninstallInv, Own
<1> USE DEF Typed, Runs, StepVariables, Untouched, Harmless
<1>1. CASE Dispatch(r)
  BY <1>1, <1>a DEF Dispatch, StageFiles
<1>2. CASE Launch(r)
  BY <1>2, <1>a DEF Launch
<1>3. CASE Load(r)
  BY <1>3, <1>a DEF Load
<1>4. CASE Preflight(r)
  <2>1. \/ run'[r] = [run[r] EXCEPT !.pc = "lock"]
        \/ run'[r] = [run[r] EXCEPT !.pc = "finish"]
    BY <1>a, <1>4, PlainMoves
  <2>2. run[r].pc = "preflight" /\ UNCHANGED lock
    BY <1>4 DEF Preflight
  <2> QED
    BY <2>1, <2>2, <1>a
<1>5. CASE TakeLock(r)
  BY <1>5, <1>a DEF TakeLock
<1>6. CASE Stage(r)
  BY <1>6, <1>a DEF Stage
<1>7. CASE BackupBridge(r)
  BY <1>7, <1>a DEF BackupBridge
<1>8. CASE CheckWarp(r)
  BY <1>8, <1>a DEF CheckWarp
<1>9. CASE Precommit(r)
  BY <1>9, <1>a DEF Precommit
<1>10. CASE Verify(r)
  <2>1. \/ run'[r] = [run[r] EXCEPT !.pc = "commit"]
        \/ run'[r] = [run[r] EXCEPT !.pc = "finish"]
    BY <1>a, <1>10, PlainMoves
  <2>2. run[r].pc = "verify" /\ UNCHANGED lock
    BY <1>10 DEF Verify
  <2> QED
    BY <2>1, <2>2, <1>a
<1>11. CASE Succeed(r)
  BY <1>11, <1>a DEF Succeed
<1>12. CASE Finish(r)
  BY <1>12, <1>a DEF Finish
<1>13. CASE Unload(r)
  BY <1>13, <1>a DEF Unload
<1>14. CASE Reload(r)
  BY <1>14, <1>a DEF Reload
<1>15. CASE CleanBoot(r)
  BY <1>15, <1>a DEF CleanBoot
<1>16. CASE Stop(r)
  <2>1. \/ run'[r] = [run[r] EXCEPT !.pc = "firewall"]
        \/ run'[r] = [run[r] EXCEPT !.pc = "finish"]
    BY <1>a, <1>16, PlainMoves
  <2>2. run[r].pc = "stop"
    BY <1>16 DEF Stop
  <2> QED
    BY <2>1, <2>2, <1>a
<1>17. CASE CleanFirewall(r)
  BY <1>17, <1>a DEF CleanFirewall
<1>18. CASE RemoveFiles(r)
  BY <1>18, <1>a DEF RemoveFiles
<1>19. CASE Purge(r)
  BY <1>19, <1>a DEF Purge
<1>20. CASE RestoreFiles(r)
  BY <1>20, <1>a DEF RestoreFiles
<1>21. CASE RestoreBridge(r)
  BY <1>21, <1>a DEF RestoreBridge
<1>22. CASE Restart(r)
  BY <1>22, <1>a DEF Restart, Restored, NotRestored
<1>23. CASE Commit(r)
  BY <1>23, <1>a DEF Commit
<1>24. CASE Post(r)
  BY <1>24, <1>a, PostMoves
<1>25. CASE Clean(r)
  BY <1>25, <1>a DEF Clean, Exit, Fresh
<1>26. CASE KillRunner(r)
  BY <1>26, <1>a DEF KillRunner, Exit, Fresh
<1>27. CASE Interrupt(r)
  BY <1>27, <1>a DEF Interrupt
<1>28. CASE Retry(r)
  BY <1>28, <1>a DEF Retry, Fresh
<1>29. CASE CopyFiles(r)
  BY <1>29, <1>a DEF CopyFiles
<1> QED
  BY <1>1, <1>2, <1>3, <1>4, <1>5, <1>6, <1>7, <1>8, <1>9, <1>10, <1>11, <1>12, <1>13, <1>14, <1>15, <1>16, <1>17, <1>18, <1>19, <1>20, <1>21, <1>22, <1>23, <1>24, <1>25, <1>26, <1>27, <1>28, <1>29 DEF Act, Script

LEMMA HostStaysEmpty ==
    ASSUME UninstallInv, NEW r \in Runners, Harmless(r), host = {}, Act(r)
    PROVE  host' = {}
<1>a. Typed /\ StepVariables(r)
  BY DEF UninstallInv, Own
<1> USE DEF Typed, Runs, StepVariables, Untouched, Harmless
<1>1. CASE Looks(r)
  BY <1>1, <1>a DEF Looks, Dispatch, Launch, Load, Preflight, TakeLock, Stage, BackupBridge, CheckWarp, Precommit, Verify, Succeed, Finish, StageFiles
<1>2. CASE Removes(r)
  BY <1>2, <1>a DEF Removes, Unload, Reload, CleanBoot, Stop, CleanFirewall, RemoveFiles, Purge
<1>3. CASE Restores(r)
  BY <1>3, <1>a DEF Restores, RestoreFiles, CopyFiles, RestoreBridge, Restart, Restored, NotRestored
<1>4. CASE Reports(r)
  BY <1>4, <1>a DEF Reports, Commit, Post
<1>5. CASE Goes(r)
  BY <1>5, <1>a DEF Goes, Clean, KillRunner, Interrupt, Retry, Exit, Fresh
<1> QED
  BY <1>1, <1>2, <1>3, <1>4, <1>5, ActIs

(* One script at a time works: when it commits, the others hold nothing. *)
LEMMA OthersHarmless ==
    ASSUME UninstallInv, NEW r \in Runners, NEW q \in Runners \ {r}, Working(r)
    PROVE  Harmless(q)
<1>1. ~Working(q)
  BY DEF UninstallInv, LockHeld, LockExclusive
<1> QED
  BY <1>1 DEF UninstallInv, Own, StepVariables, Untouched, Working, Harmless

LEMMA CommittedGoneStep ==
    ASSUME UninstallInv, NEW r \in Runners, Act(r)
    PROVE  CommittedGone'
<1>1. CASE Commit(r)
  <2>1. Working(r) /\ host = {} /\ ~WarpInstalled
    BY <1>1 DEF Commit, Working, UninstallInv, Own, StepHost
  <2>2. run'[r].pc = "success"
    BY <1>1 DEF Commit, UninstallInv, Typed
  <2>3. ASSUME NEW q \in Runners PROVE Harmless(q)'
    <3>1. CASE q = r
      BY <2>2, <3>1 DEF Harmless
    <3>2. CASE q /= r
      <4>1. Harmless(q)
        BY <2>1, <3>2, OthersHarmless
      <4>2. run'[q] = run[q]
        BY <3>2, OthersKeep
      <4> QED
        BY <4>1, <4>2 DEF Harmless
    <3> QED
      BY <3>1, <3>2
  <2>4. host' = {} /\ ~WarpInstalled'
    BY <1>1, <2>1 DEF Commit, WarpInstalled, warpVars
  <2> QED
    BY <2>3, <2>4 DEF CommittedGone
<1>2. CASE ~Commit(r)
  <2>1. committed' = committed
    <3> USE DEF history
    <3>1. CASE Looks(r)
      BY <3>1 DEF Looks, Dispatch, Launch, Load, Preflight, TakeLock, Stage, BackupBridge, CheckWarp, Precommit, Verify, Succeed, Finish
    <3>2. CASE Removes(r)
      BY <3>2 DEF Removes, Unload, Reload, CleanBoot, Stop, CleanFirewall, RemoveFiles, Purge
    <3>3. CASE Restores(r)
      BY <3>3 DEF Restores, RestoreFiles, CopyFiles, RestoreBridge, Restart
    <3>4. CASE Reports(r)
      BY <3>4, <1>2 DEF Reports, Post
    <3>5. CASE Goes(r)
      BY <3>5 DEF Goes, Clean, KillRunner, Interrupt, Retry
    <3> QED
      BY <3>1, <3>2, <3>3, <3>4, <3>5, ActIs
  <2>2. ASSUME NEW p \in Runners, committed'[p]
        PROVE  host' = {} /\ ~WarpInstalled' /\ \A q \in Runners : Harmless(q)'
    <3>1. host = {} /\ ~WarpInstalled /\ \A q \in Runners : Harmless(q)
      BY <2>1, <2>2 DEF UninstallInv, CommittedGone
    <3>2. host' = {} /\ Harmless(r)'
      BY <3>1, HostStaysEmpty, HarmlessStep
    <3>3. ~WarpInstalled'
      BY <3>1, HostLocked DEF WarpInstalled
    <3>4. ASSUME NEW q \in Runners, q /= r PROVE Harmless(q)'
      <4>1. run'[q] = run[q]
        BY <3>4, OthersKeep
      <4> QED
        BY <3>1, <4>1 DEF Harmless
    <3> QED
      BY <3>2, <3>3, <3>4
  <2> QED
    BY <2>2 DEF CommittedGone
<1> QED
  BY <1>1, <1>2

(* Only a script that removes or undoes changes the host. *)
LEMMA HostStands ==
    ASSUME UninstallInv, NEW r \in Runners, Act(r), run[r].pc \notin Removing \cup Undoing
    PROVE  host' = host
<1>1. CASE Looks(r)
  BY <1>1 DEF Looks, Dispatch, Launch, Load, Preflight, TakeLock, Stage, BackupBridge, CheckWarp, Precommit, Verify, Succeed, Finish, StageFiles
<1>2. CASE Removes(r)
  BY <1>2 DEF Removes, Unload, Reload, CleanBoot, Stop, CleanFirewall, RemoveFiles, Purge
<1>3. CASE Restores(r)
  BY <1>3 DEF Restores, RestoreFiles, CopyFiles, RestoreBridge, Restart, Restored, NotRestored
<1>4. CASE Reports(r)
  BY <1>4 DEF Reports, Commit, Post
<1>5. CASE Goes(r)
  BY <1>5 DEF Goes, Clean, KillRunner, Interrupt, Retry, Exit, Fresh
<1> QED
  BY <1>1, <1>2, <1>3, <1>4, <1>5, ActIs

(* A backup of the files is left to whoever comes next, unless the agent is *)
(* back or known to be gone.                                                *)
LEMMA BackupKept ==
    ASSUME UninstallInv, NEW r \in Runners, Act(r), Recoverable(r)
    PROVE  Recoverable(r)' \/ Secured \/ {"boot", "files", "process"} \subseteq host'
<1>a. Typed /\ StepVariables(r) /\ StepHost(r) /\ Recoverable(r)
  BY DEF UninstallInv, Own
<1> USE DEF Typed, Runs, StepVariables, Untouched, Recoverable
<1>1. CASE Dispatch(r)
  BY <1>1, <1>a DEF Dispatch, StageFiles
<1>2. CASE Launch(r)
  BY <1>2, <1>a DEF Launch
<1>3. CASE Load(r)
  BY <1>3, <1>a DEF Load
<1>4. CASE Preflight(r)
  BY <1>4, <1>a DEF Preflight
<1>5. CASE TakeLock(r)
  BY <1>5, <1>a DEF TakeLock
<1>6. CASE Stage(r)
  BY <1>6, <1>a DEF Stage
<1>7. CASE BackupBridge(r)
  BY <1>7, <1>a DEF BackupBridge
<1>8. CASE CheckWarp(r)
  BY <1>8, <1>a DEF CheckWarp
<1>9. CASE Precommit(r)
  BY <1>9, <1>a DEF Precommit
<1>10. CASE Verify(r)
  <2>1. \/ run'[r] = [run[r] EXCEPT !.pc = "commit"]
        \/ run'[r] = [run[r] EXCEPT !.pc = "finish"]
    BY <1>a, <1>10, PlainMoves
  <2>2. run[r].pc = "verify" /\ UNCHANGED saved
    BY <1>10 DEF Verify
  <2> QED
    BY <2>1, <2>2, <1>a
<1>11. CASE Succeed(r)
  BY <1>11, <1>a DEF Succeed
<1>12. CASE Finish(r)
  BY <1>12, <1>a DEF Finish
<1>13. CASE Unload(r)
  BY <1>13, <1>a DEF Unload
<1>14. CASE Reload(r)
  <2>1. run'[r].backup = run[r].backup /\ UNCHANGED saved
    BY <1>14, <1>a DEF Reload
  <2> QED
    BY <1>a, <2>1
<1>15. CASE CleanBoot(r)
  <2>1. \/ run'[r] = [run[r] EXCEPT !.pc = "warp"]
        \/ run'[r] = [run[r] EXCEPT !.pc = "finish"]
    BY <1>a, <1>15, PlainMoves
  <2>2. run[r].pc = "boot" /\ UNCHANGED saved
    BY <1>15 DEF CleanBoot
  <2> QED
    BY <2>1, <2>2, <1>a
<1>16. CASE Stop(r)
  <2>1. \/ run'[r] = [run[r] EXCEPT !.pc = "firewall"]
        \/ run'[r] = [run[r] EXCEPT !.pc = "finish"]
    BY <1>a, <1>16, PlainMoves
  <2>2. run[r].pc = "stop" /\ UNCHANGED saved
    BY <1>16 DEF Stop
  <2> QED
    BY <2>1, <2>2, <1>a
<1>17. CASE CleanFirewall(r)
  BY <1>17, <1>a DEF CleanFirewall
<1>18. CASE RemoveFiles(r)
  BY <1>18, <1>a DEF RemoveFiles
<1>19. CASE Purge(r)
  <2>1. \/ run'[r] = [run[r] EXCEPT !.pc = "verify"]
        \/ run'[r] = [run[r] EXCEPT !.pc = "finish"]
    BY <1>a, <1>19, PlainMoves
  <2>2. run[r].pc = "purge" /\ UNCHANGED saved
    BY <1>19 DEF Purge
  <2> QED
    BY <2>1, <2>2, <1>a
<1>20. CASE RestoreFiles(r)
  BY <1>20, <1>a DEF RestoreFiles
<1>21. CASE RestoreBridge(r)
  BY <1>21, <1>a DEF RestoreBridge
<1>22. CASE Restart(r)
  BY <1>22, <1>a DEF Restart, Restored, NotRestored
<1>23. CASE Commit(r)
  BY <1>23, <1>a DEF Commit
<1>24. CASE Post(r)
  BY <1>24, <1>a, PostMoves
<1>25. CASE Clean(r)
  BY <1>25, <1>a DEF Clean, Exit, Fresh, StepHost
<1>26. CASE KillRunner(r)
  BY <1>26, <1>a DEF KillRunner, Exit, Fresh
<1>27. CASE Interrupt(r)
  BY <1>27, <1>a DEF Interrupt
<1>28. CASE Retry(r)
  BY <1>28, <1>a DEF Retry, Fresh
<1>29. CASE CopyFiles(r)
  BY <1>29, <1>a DEF CopyFiles
<1> QED
  BY <1>1, <1>2, <1>3, <1>4, <1>5, <1>6, <1>7, <1>8, <1>9, <1>10, <1>11, <1>12, <1>13, <1>14, <1>15, <1>16, <1>17, <1>18, <1>19, <1>20, <1>21, <1>22, <1>23, <1>24, <1>25, <1>26, <1>27, <1>28, <1>29 DEF Act, Script

LEMMA KeptStep ==
    ASSUME UninstallInv, NEW r \in Runners, Act(r)
    PROVE  Kept'
<1>1. CASE Secured
  <2>1. Secured'
    BY <1>1, SecuredStays
  <2> QED
    BY <2>1 DEF Kept, Secured, Recoverable
<1>2. CASE Recoverable(r)
  <2>1. Recoverable(r)' \/ Secured \/ {"boot", "files", "process"} \subseteq host'
    BY <1>2, BackupKept
  <2> QED
    BY <1>1, <2>1 DEF Kept
<1>3. ASSUME NEW q \in Runners \ {r}, Recoverable(q)
      PROVE  Kept'
  BY <1>3, OthersKeep DEF Kept, Recoverable
<1>4. CASE {"boot", "files", "process"} \subseteq host /\ ~Recoverable(r)
  <2>1. run[r].pc \notin Removing \cup Undoing
    BY <1>4 DEF UninstallInv, Own, StepHost, Changing, Recoverable
  <2> QED
    BY <1>4, <2>1, HostStands DEF Kept
<1> QED
  BY <1>1, <1>2, <1>3, <1>4 DEF UninstallInv, Kept, Secured

LEMMA ActStep ==
    ASSUME UninstallInv, NEW r \in Runners, Act(r)
    PROVE  UninstallInv'
<1>1. Typed'
  BY TypedStep DEF UninstallInv
<1>2. LockHeld' /\ LockExclusive'
  BY LockStep
<1>3. ASSUME NEW q \in Runners PROVE Own(q)'
  <2>1. CASE q = r
    BY <2>1, VariablesStep, HostStep, RecordedStep DEF Own
  <2>2. CASE q /= r
    BY <2>2, OthersStep
  <2> QED
    BY <2>1, <2>2
<1>4. CommittedGone' /\ Kept'
  BY CommittedGoneStep, KeptStep
<1> QED
  BY <1>1, <1>2, <1>3, <1>4 DEF UninstallInv

(* What a reboot makes of each script. *)
LEMMA RebootMoves ==
    ASSUME UninstallInv, Reboot
    PROVE  /\ \A q \in Runners :
                /\ \/ run[q].pc = "none" /\ run'[q] = run[q]
                   \/ run'[q].pc = "done" /\ Untouched(q)'
                /\ "files" \in saved[q] \cup run[q].backup => "files" \in saved'[q]
           /\ Typed' /\ lock' = {}
           /\ host' \in {host \cup {"process"}, host \ {"process"}}
           /\ "process" \in host' => {"boot", "files"} \subseteq host
           /\ {"boot", "files"} \subseteq host => host' = host \cup {"process"}
           /\ UNCHANGED <<token, committed, spoiled, warpFile>>
<1>1. \A q \in Runners : run[q] \in Runs
  BY DEF UninstallInv, Typed
<1>2. [Fresh EXCEPT !.pc = "done"] \in Runs
  <2>1. "done" \in Pcs /\ {} \in SUBSET Parts
    BY DEF Pcs
  <2> QED
    BY <2>1 DEF Fresh, Runs
<1>3. run' = [q \in Runners |-> IF run[q].pc = "none" THEN run[q] ELSE [Fresh EXCEPT !.pc = "done"]]
  BY DEF Reboot
<1>4. run' \in [Runners -> Runs]
  BY <1>1, <1>2, <1>3
<1>5. ASSUME NEW q \in Runners
      PROVE  \/ run[q].pc = "none" /\ run'[q] = run[q]
             \/ run'[q].pc = "done" /\ Untouched(q)'
  BY <1>3 DEF Fresh, Untouched
<1>6. saved' \in [Runners -> SUBSET Parts]
  <2>1. \A q \in Runners : (saved[q] \cup run[q].backup) \ {"loader"} \in SUBSET Parts
    BY <1>1 DEF UninstallInv, Typed, Runs
  <2> QED
    BY <2>1 DEF Reboot
<1>7. ASSUME NEW q \in Runners, "files" \in saved[q] \cup run[q].backup
      PROVE  "files" \in saved'[q]
  BY <1>7 DEF Reboot
<1>8. /\ UNCHANGED <<token, committed, spoiled, warpFile>> /\ lock' = {}
      /\ staged' \in [Runners -> BOOLEAN]
      /\ host' \in {host \cup {"process"}, host \ {"process"}}
      /\ "process" \in host' => {"boot", "files"} \subseteq host
      /\ {"boot", "files"} \subseteq host => host' = host \cup {"process"}
  BY DEF Reboot
<1>9. host' \in SUBSET Parts
  BY <1>8 DEF UninstallInv, Typed, Parts
<1>10. Typed'
  BY <1>4, <1>6, <1>8, <1>9 DEF UninstallInv, Typed
<1> QED
  BY <1>5, <1>7, <1>8, <1>10

LEMMA RebootStep ==
    ASSUME UninstallInv, Reboot
    PROVE  UninstallInv'
<1>1. \A q \in Runners : Own(q)
  BY DEF UninstallInv
<1>2. LockHeld' /\ LockExclusive'
  <2>1. ASSUME NEW q \in Runners PROVE ~Working(q)'
    BY <1>1, RebootMoves DEF Own, StepVariables, Untouched, Working
  <2>2. lock' = {}
    BY RebootMoves
  <2> QED
    BY <2>1, <2>2 DEF LockHeld, LockExclusive
<1>3. ASSUME NEW q \in Runners PROVE Own(q)'
  <2>1. \/ run[q].pc = "none" /\ run'[q] = run[q]
        \/ run'[q].pc = "done" /\ Untouched(q)'
    BY RebootMoves
  <2>2. UNCHANGED <<token, committed, spoiled>>
    BY RebootMoves
  <2>3. StepVariables(q)'
    BY <1>1, <2>1, <2>2 DEF Own, StepVariables, Untouched
  <2>4. StepHost(q)'
    BY <1>1, <2>1 DEF Own, StepVariables, Untouched, StepHost, Changing
  <2>5. Recorded(q)'
    BY <1>1, <2>1, <2>2 DEF Own, StepVariables, Untouched, Recorded
  <2> QED
    BY <2>3, <2>4, <2>5 DEF Own
<1>4. CommittedGone'
  <2>1. ASSUME NEW p \in Runners, committed'[p]
        PROVE  host' = {} /\ ~WarpInstalled' /\ \A q \in Runners : Harmless(q)'
    <3>1. host = {} /\ ~WarpInstalled
      BY <2>1, RebootMoves DEF UninstallInv, CommittedGone
    <3>2. host' = {} /\ ~WarpInstalled'
      BY <3>1, RebootMoves DEF WarpInstalled
    <3>3. ASSUME NEW q \in Runners PROVE Harmless(q)'
      <4>1. run'[q].pc \in {"none", "done"}
        BY RebootMoves
      <4> QED
        BY <4>1 DEF Harmless
    <3> QED
      BY <3>2, <3>3
  <2> QED
    BY <2>1 DEF CommittedGone
<1>5. Kept'
  <2>1. CASE {"boot", "files", "process"} \subseteq host
    <3>1. host' = host \cup {"process"}
      BY <2>1, RebootMoves
    <3> QED
      BY <2>1, <3>1 DEF Kept
  <2>2. CASE \E q \in Runners : committed[q] \/ Recoverable(q)
    <3>1. PICK q \in Runners : committed[q] \/ Recoverable(q)
      BY <2>2
    <3> QED
      BY <3>1, RebootMoves DEF Kept, Recoverable
  <2> QED
    BY <2>1, <2>2 DEF UninstallInv, Kept
<1> QED
  BY <1>2, <1>3, <1>4, <1>5, RebootMoves DEF UninstallInv

(* Requests to WARP are only served where the agent runs. *)
LEMMA ServeStep ==
    ASSUME UninstallInv, Serve
    PROVE  UninstallInv'
<1>1. /\ "process" \in host
      /\ UNCHANGED <<manager, host, lock, run, staged, saved, token, committed, spoiled>>
  BY DEF Serve
<1>2. Typed' /\ LockHeld' /\ LockExclusive' /\ Kept'
  BY <1>1 DEF UninstallInv, Typed, LockHeld, LockExclusive, Working, Kept, Recoverable
<1>3. ASSUME NEW q \in Runners PROVE Own(q)'
  <2>1. Own(q)
    BY DEF UninstallInv
  <2>2. StepVariables(q)' /\ Recorded(q)'
    BY <1>1, <2>1 DEF Own, StepVariables, Untouched, Recorded
  <2>3. run[q].pc \notin Stopped
    BY <1>1, <2>1 DEF Own, StepHost
  <2>4. StepHost(q)'
    BY <1>1, <2>1, <2>3 DEF Own, StepHost, Changing, Secured
  <2> QED
    BY <2>2, <2>4 DEF Own
<1>4. CommittedGone'
  BY <1>1 DEF UninstallInv, CommittedGone
<1> QED
  BY <1>2, <1>3, <1>4 DEF UninstallInv

LEMMA StutterStep ==
    ASSUME UninstallInv, UNCHANGED vars
    PROVE  UninstallInv'
<1>1. UNCHANGED <<manager, host, lock, run, staged, saved, token, committed, spoiled, warpFile>>
  BY DEF vars, warpVars
<1>2. Typed' /\ LockHeld' /\ LockExclusive' /\ Kept'
  BY <1>1 DEF UninstallInv, Typed, LockHeld, LockExclusive, Working, Kept, Recoverable
<1>3. ASSUME NEW q \in Runners PROVE Own(q)'
  <2>1. Own(q)
    BY DEF UninstallInv
  <2>2. StepVariables(q)' /\ Recorded(q)'
    BY <1>1, <2>1 DEF Own, StepVariables, Untouched, Recorded
  <2>3. StepHost(q)'
    BY <1>1, <2>1 DEF Own, StepHost, Changing, Secured, WarpInstalled
  <2> QED
    BY <2>2, <2>3 DEF Own
<1>4. CommittedGone'
  BY <1>1 DEF UninstallInv, CommittedGone, Harmless, WarpInstalled
<1> QED
  BY <1>2, <1>3, <1>4 DEF UninstallInv

LEMMA InitHolds == Init => UninstallInv
<1> SUFFICES ASSUME Init PROVE UninstallInv
  OBVIOUS
<1>1. Fresh \in Runs
  <2>1. "none" \in Pcs /\ {} \in SUBSET Parts
    BY DEF Pcs
  <2> QED
    BY <2>1 DEF Fresh, Runs
<1>2. /\ run = [r \in Runners |-> Fresh] /\ lock = {} /\ warpFile = "none"
      /\ staged = [r \in Runners |-> FALSE] /\ saved = [r \in Runners |-> {}]
      /\ token = [r \in Runners |-> "open"]
      /\ committed = [r \in Runners |-> FALSE] /\ spoiled = [r \in Runners |-> FALSE]
  BY DEF Init, WarpInit
<1>3. host \in {Parts, Parts \ {"loader"}}
  <2>1. PICK h \in Hosts : host = h[2]
    BY DEF Init
  <2>2. h \in {"systemd", "supervisor"} \X {Parts, Parts \ {"loader"}}
    BY UninstallAssumption DEF UninstallAssumption
  <2> QED
    BY <2>1, <2>2
<1>4. Typed
  BY <1>1, <1>2, <1>3 DEF Typed
<1>5. \A r \in Runners : run[r].pc = "none" /\ Untouched(r)
  BY <1>2 DEF Fresh, Untouched
<1>6. \A r \in Runners : ~Working(r) /\ Own(r)
  BY <1>2, <1>5 DEF Working, Own, StepVariables, StepHost, Changing, Recorded, Untouched
<1>7. LockHeld /\ LockExclusive /\ CommittedGone
  BY <1>2, <1>6 DEF LockHeld, LockExclusive, CommittedGone
<1>8. {"boot", "files", "process"} \subseteq host
  BY <1>3 DEF Parts
<1> QED
  BY <1>4, <1>6, <1>7, <1>8 DEF UninstallInv, Kept

-----------------------------------------------------------------------------
(* The strengthening holds in every state: what each step of a script knows *)
(* of the host, because whoever changes the host holds the uninstall lock.  *)
THEOREM UninstallInvariant == Spec => []UninstallInv
<1>1. ASSUME UninstallInv, [Next]_vars PROVE UninstallInv'
  <2>1. CASE UNCHANGED vars
    BY <1>1, <2>1, StutterStep
  <2>2. CASE Reboot
    BY <1>1, <2>2, RebootStep
  <2>3. CASE Serve
    BY <1>1, <2>3, ServeStep
  <2>4. CASE \E r \in Runners : Act(r)
    BY <1>1, <2>4, ActStep
  <2> QED
    BY <1>1, <2>1, <2>2, <2>3, <2>4 DEF Next, Act
<1> QED
  BY <1>1, InitHolds, PTL DEF Spec

(* A committed removal is a complete one, and success is only recorded for  *)
(* one, however many removals, restorations and reboots there are.          *)
THEOREM CommitAlwaysTotal == Spec => []CommitIsTotal
<1>1. UninstallInv => CommitIsTotal
  BY DEF UninstallInv, Own, Recorded, CommittedGone, CommitIsTotal
<1> QED
  BY <1>1, UninstallInvariant, PTL

(* A failure is only recorded where the agent runs, can be recovered from a *)
(* directory that is named in the report, or was removed by another script. *)
THEOREM FailureAlwaysUndone == Spec => []FailureIsUndone
<1>1. UninstallInv => FailureIsUndone
  BY DEF UninstallInv, Own, Recorded, Kept, FailureIsUndone
<1> QED
  BY <1>1, UninstallInvariant, PTL

(* Which steps take the agent's files away. *)
LEMMA FilesTaken ==
    ASSUME UninstallInv, [Next]_vars, "files" \in host \ host'
    PROVE  \/ "process" \notin host /\ ~WarpInstalled
           \/ \E r \in Runners : run[r].pc = "restore" /\ "files" \in run[r].backup
<1>1. host' /= host /\ host' \notin {host \cup {"process"}, host \ {"process"}}
  OBVIOUS
<1>2. ~Serve /\ ~Reboot
  BY <1>1, RebootMoves DEF Serve
<1>3. PICK r \in Runners : Act(r)
  BY <1>1, <1>2 DEF Next, Act, vars
<1>4. StepHost(r)
  BY DEF UninstallInv, Own
<1>5. CASE Looks(r)
  BY <1>1, <1>5 DEF Looks, Dispatch, Launch, Load, Preflight, TakeLock, Stage, BackupBridge, CheckWarp, Precommit, Verify, Succeed, Finish
<1>6. CASE Removes(r)
  <2>1. RemoveFiles(r)
    BY <1>6 DEF Removes, Unload, Reload, CleanBoot, Stop, CleanFirewall, Purge
  <2> QED
    BY <1>4, <2>1 DEF RemoveFiles, StepHost
<1>7. CASE Restores(r)
  <2>1. RestoreFiles(r)
    BY <1>7 DEF Restores, CopyFiles, RestoreBridge, Restart
  <2> QED
    BY <1>4, <2>1 DEF RestoreFiles, StepHost, Changing
<1>8. CASE Reports(r)
  BY <1>1, <1>8 DEF Reports, Commit, Post
<1>9. CASE Goes(r)
  BY <1>1, <1>9 DEF Goes, Clean, KillRunner, Interrupt, Retry
<1> QED
  BY <1>3, <1>5, <1>6, <1>7, <1>8, <1>9, ActIs

(* A step that takes the agent's files away finds the agent stopped and no  *)
(* credentials of WARP, or is that of an undo that has them in its recovery *)
(* directory, whenever a request in flight registers.                       *)
THEOREM WarpAlwaysHasAgent == Spec => WarpKeepsItsAgent
<1>1. ASSUME UninstallInv, [Next]_vars
      PROVE  "files" \in host \ host' =>
                 \/ "process" \notin host /\ ~WarpInstalled
                 \/ \E r \in Runners : At(r, "restore") /\ "files" \in run[r].backup
  BY <1>1, FilesTaken
<1> QED
  BY <1>1, UninstallInvariant, PTL DEF Spec, WarpKeepsItsAgent

(* The files are in place or in a recovery directory until a script has     *)
(* verified that they are gone.                                             *)
THEOREM NothingEverLost == Spec => []NothingLost
<1>1. UninstallInv => NothingLost
  BY DEF UninstallInv, Kept, NothingLost
<1> QED
  BY <1>1, UninstallInvariant, PTL

-----------------------------------------------------------------------------
Moments == {"none", "save", "write", "apply", "persist", "license",
            "drop", "giveUp", "delete", "unlink"}

(* The account and its file, for one request at a time: what each step of a *)
(* request knows of them.                                                   *)
AccountKnown(w) ==
    /\ request \in [WarpRequests -> Moments]
    /\ state => warpFile /= "none"
    /\ request[w] = "persist" => warpFile /= "none"
    /\ request[w] \in {"delete", "unlink"} => ~outbounds
    /\ request[w] = "unlink" => ~device
    /\ warpFile = "none" => ~outbounds /\ ~device

LEMMA WarpMoves ==
    ASSUME [Next]_vars
    PROVE  \/ UNCHANGED warpVars
           \/ Ends /\ UNCHANGED <<warpFile, outbounds, device>>
           \/ \E q \in WarpRequests : WarpStep(q)
<1>1. CASE UNCHANGED vars
  BY <1>1 DEF vars
<1>2. CASE Reboot
  BY <1>2 DEF Reboot
<1>3. CASE Serve
  BY <1>3 DEF Serve
<1>4. ASSUME NEW r \in Runners, Act(r)
      PROVE  \/ UNCHANGED warpVars
             \/ Ends /\ UNCHANGED <<warpFile, outbounds, device>>
  <2>1. CASE Looks(r)
    BY <2>1 DEF Looks, Dispatch, Launch, Load, Preflight, TakeLock, Stage, BackupBridge, CheckWarp, Precommit, Verify, Succeed, Finish
  <2>2. CASE Removes(r)
    BY <2>2 DEF Removes, Unload, Reload, CleanBoot, Stop, CleanFirewall, RemoveFiles, Purge
  <2>3. CASE Restores(r)
    BY <2>3 DEF Restores, RestoreFiles, CopyFiles, RestoreBridge, Restart
  <2>4. CASE Reports(r)
    BY <2>4 DEF Reports, Commit, Post
  <2>5. CASE Goes(r)
    BY <2>5 DEF Goes, Clean, KillRunner, Interrupt, Retry
  <2> QED
    BY <1>4, <2>1, <2>2, <2>3, <2>4, <2>5, ActIs
<1> QED
  BY <1>1, <1>2, <1>3, <1>4 DEF Next, Act

LEMMA AccountStep ==
    ASSUME NEW w, WarpRequests = {w}, AccountKnown(w), WarpStep(w)
    PROVE  AccountKnown(w)'
<1> USE DEF AccountKnown, Step, Answered, Moments
<1>1. CASE Install(w)
  BY <1>1 DEF Install, Register
<1>2. CASE License(w)
  BY <1>2 DEF License
<1>3. CASE Refresh(w)
  BY <1>3 DEF Refresh
<1>4. CASE Save(w)
  BY <1>4 DEF Save, Truncate
<1>5. CASE Write(w)
  BY <1>5 DEF Write
<1>6. CASE Apply(w)
  BY <1>6 DEF Apply
<1>7. CASE Persist(w)
  BY <1>7 DEF Persist
<1>8. CASE Remove(w)
  BY <1>8 DEF Remove
<1>9. CASE Drop(w)
  <2>1. /\ UNCHANGED <<warpFile, state, device>> /\ outbounds' \in {outbounds, FALSE}
        /\ request[w] \in {"drop", "giveUp"}
    BY <1>9 DEF Drop
  <2>2. \/ outbounds' = FALSE /\ request' = [request EXCEPT ![w] = "delete"]
        \/ request' = [request EXCEPT ![w] = "none"]
    BY <1>9 DEF Drop
  <2>3. warpFile = "none" => ~outbounds'
    BY <2>1
  <2> QED
    BY <2>1, <2>2, <2>3
<1>10. CASE Delete(w)
  BY <1>10 DEF Delete
<1>11. CASE Unlink(w)
  BY <1>11 DEF Unlink
<1> QED
  BY <1>1, <1>2, <1>3, <1>4, <1>5, <1>6, <1>7, <1>8, <1>9, <1>10, <1>11 DEF WarpStep

(* Where requests to WARP come one at a time, the file that a removal is    *)
(* retried from outlives the outbounds and the device, whatever fails and   *)
(* whenever the agent is stopped.                                           *)
THEOREM MarkerAlwaysOutlives ==
    ASSUME NEW w, WarpRequests = {w}
    PROVE  Spec => []MarkerOutlivesAccount
<1>1. Init => AccountKnown(w)
  BY DEF Init, WarpInit, AccountKnown, Answered, Moments
<1>2. ASSUME AccountKnown(w), [Next]_vars PROVE AccountKnown(w)'
  <2>1. CASE UNCHANGED warpVars
    BY <1>2, <2>1 DEF AccountKnown, warpVars
  <2>2. CASE Ends /\ UNCHANGED <<warpFile, outbounds, device>>
    BY <1>2, <2>2 DEF AccountKnown, Ends, Answered, Moments
  <2>3. CASE \E q \in WarpRequests : WarpStep(q)
    BY <1>2, <2>3, AccountStep
  <2> QED
    BY <1>2, <2>1, <2>2, <2>3, WarpMoves
<1>3. AccountKnown(w) => MarkerOutlivesAccount
  BY DEF AccountKnown, MarkerOutlivesAccount
<1> QED
  BY <1>1, <1>2, <1>3, PTL DEF Spec

=============================================================================
