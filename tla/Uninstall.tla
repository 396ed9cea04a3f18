------------------------------- MODULE Uninstall -------------------------------
(***************************************************************************)
(* The removal of the agent by itself (agent_uninstall_v2.go): the handler *)
(* stages a script and the one-time credential of the panel's callback in  *)
(* the runtime directory, and starts it outside the service. The script    *)
(* backs up, removes and verifies; before it commits, any failure is       *)
(* undone, and in every case it reports to the panel.                      *)
(*                                                                         *)
(* What an installation consists of is a set of parts. A backup holds the  *)
(* files, the nginx loaders and, where a supervisor starts the agent, the  *)
(* lines of rc.local that do; a service manager is told to start it again. *)
(* A statement of the script that can fail does so by a fault.             *)
(***************************************************************************)
EXTENDS Warp, FiniteSets

CONSTANTS
    Runners,            \* dispatches, each with a credential of its own
    SuccessAttempts,    \* CALLBACK_MAX_ATTEMPTS of a success (12 in the script)
    FailureAttempts,    \* and of a failure (4)
    Hosts,              \* what starts the agent, and what is there of it, at first
    MaxMishaps          \* bound: statements that fail, reboots, scripts run again by hand

(* The agent's process, what starts it at boot, its files, its state       *)
(* directories, its firewall chains, and the loaders of its nginx bridge.   *)
Parts == {"process", "boot", "files", "state", "firewall", "loader"}

ASSUME UninstallAssumption ==
    /\ SuccessAttempts \in Nat \ {0} /\ FailureAttempts \in Nat \ {0}
    /\ MaxMishaps \in Nat
    /\ "supervisor" \notin Runners
    /\ Hosts \subseteq {"systemd", "supervisor"} \X {Parts, Parts \ {"loader"}}

VARIABLES
    manager,    \* what starts the agent: systemd, or a supervisor script
    host,       \* the parts of the agent on the host
    lock,       \* the processes that hold the open uninstall lock
    run,        \* the variables of each script
    staged,     \* its script and state file are in the runtime directory
    saved,      \* what recovery directories hold that it left behind
    token,      \* what the panel recorded for its credential
    committed,  \* this script verified that the agent is gone
    spoiled,    \* interrupted after that, or started again by hand
    mishaps     \* still to come

files == <<staged, saved>>
world == <<manager, token, warpVars>>
history == <<committed, spoiled>>
vars == <<world, host, lock, run, staged, saved, history, mishaps>>

Fresh == [pc |-> "none", mutated |-> FALSE, bridge |-> FALSE, commit |-> FALSE,
          success |-> FALSE, ok |-> TRUE, keepLocal |-> FALSE, keepBridge |-> FALSE,
          keepCallback |-> FALSE, backup |-> {}, attempts |-> 0, term |-> FALSE]

At(r, pc) == run[r].pc = pc
Goto(r, pc) == run' = [run EXCEPT ![r].pc = pc]
Fail(r) == Goto(r, "finish")
Mishap == mishaps > 0 /\ mishaps' = mishaps - 1
Smooth == UNCHANGED mishaps

Outside == UNCHANGED <<world, history>>
AgentEnds == Ends /\ UNCHANGED <<warpFile, outbounds, device>>

-----------------------------------------------------------------------------
(* The handler. Only a running agent without WARP gets this far; requests   *)
(* that are refused change nothing.                                         *)

WarpInstalled == warpFile /= "none"

(* Both files, or none.                                                     *)
StageFiles(r) == staged' = [staged EXCEPT ![r] = TRUE]

Dispatch(r) ==
    /\ At(r, "none") /\ "process" \in host /\ ~WarpInstalled
    /\ Goto(r, "staged") /\ StageFiles(r)
    /\ Smooth /\ Outside /\ UNCHANGED <<host, lock, saved>>

(* Launch returns with the runner started, or with an error that deletes    *)
(* the files; the request to systemd can time out though the unit starts.   *)
Launch(r) ==
    /\ At(r, "staged") /\ "process" \in host
    /\ \/ Goto(r, "load") /\ UNCHANGED staged
       \/ \E pc \in {"load", "done"} : Goto(r, pc) /\ staged' = [staged EXCEPT ![r] = FALSE]
    /\ Smooth /\ Outside /\ UNCHANGED <<host, lock, saved>>

-----------------------------------------------------------------------------
(* The script up to its first change *)

Load(r) ==
    /\ At(r, "load") /\ Smooth /\ Outside /\ UNCHANGED <<host, lock, files>>
    /\ \/ staged[r] /\ Goto(r, "preflight")
       \/ ~staged[r] /\ Goto(r, "done")

(* The panel answers 401 to a credential it does not know, or the removal   *)
(* does not begin.                                                          *)
Preflight(r) ==
    /\ At(r, "preflight") /\ Smooth /\ Outside /\ UNCHANGED <<host, lock, files>>
    /\ Goto(r, "lock") \/ Fail(r)

(* Mutant: the file is opened and not locked. *)
TakeLockAnyway(r) ==
    /\ At(r, "lock") /\ Outside /\ UNCHANGED <<host, files>>
    /\ Goto(r, "stage") /\ lock' = lock \cup {r} /\ Smooth

(* flock -w 30, for one uninstall at a time and then against the nginx      *)
(* bridge of the agent's own start.                                         *)
TakeLock(r) ==
    /\ At(r, "lock") /\ Outside /\ UNCHANGED <<host, files>>
    /\ \/ lock = {} /\ Goto(r, "stage") /\ lock' = {r} /\ Smooth
       \/ lock /= {} /\ Fail(r) /\ UNCHANGED lock /\ Smooth
       \/ lock = {} /\ Fail(r) /\ lock' = {r} /\ Mishap

(* What for_each_local_recovery_path goes through: /etc/rc.local is one of  *)
(* the paths.                                                               *)
LocalPaths == IF manager = "supervisor" THEN {"files", "boot"} ELSE {"files"}

(* stage_local_recovery, then LOCAL_CLEANUP_MUTATED.                        *)
Stage(r) ==
    /\ At(r, "stage") /\ Outside /\ UNCHANGED <<host, lock, files>>
    /\ \/ /\ run' = [run EXCEPT ![r].pc = "bridge", ![r].mutated = TRUE,
                                 ![r].backup = host \cap LocalPaths]
          /\ Smooth
       \/ Fail(r) /\ Mishap

-----------------------------------------------------------------------------
(* The removal *)

(* backup_arcway_loader and the first validation of nginx.                  *)
BackupBridge(r) ==
    /\ At(r, "bridge") /\ Outside /\ UNCHANGED <<host, lock, files>>
    /\ \/ "loader" \notin host /\ Goto(r, "boot") /\ Smooth
       \/ /\ "loader" \in host /\ Smooth
          /\ run' = [run EXCEPT ![r].pc = "unload", ![r].backup = @ \cup {"loader"}]
       \/ "loader" \in host /\ Fail(r) /\ Mishap

Unload(r) ==
    /\ At(r, "unload") /\ Smooth /\ Outside /\ UNCHANGED <<lock, files>>
    /\ host' = host \ {"loader"} /\ Goto(r, "reload")

(* Refused by nginx, the loaders come back at once; that can fail, with or  *)
(* without the loaders copied back.                                         *)
Reload(r) ==
    /\ At(r, "reload") /\ Outside /\ UNCHANGED <<lock, files>>
    /\ \/ run' = [run EXCEPT ![r].pc = "boot", ![r].bridge = TRUE] /\ UNCHANGED host /\ Smooth
       \/ Mishap /\ Fail(r) /\ host' = host \cup {"loader"}
       \/ Mishap /\ run' = [run EXCEPT ![r].pc = "finish", ![r].keepBridge = TRUE]
          /\ host' \in {host, host \cup {"loader"}}

(* cleanup_rc_local: where no service manager starts the agent.             *)
CleanBoot(r) ==
    /\ At(r, "boot") /\ Outside /\ UNCHANGED <<lock, files>>
    /\ \/ Goto(r, "warp") /\ Smooth
          /\ host' = IF manager = "supervisor" THEN host \ {"boot"} ELSE host
       \/ Fail(r) /\ UNCHANGED host /\ Mishap

CheckWarp(r) ==
    /\ At(r, "warp") /\ Smooth /\ Outside /\ UNCHANGED <<host, lock, files>>
    /\ Goto(r, IF WarpInstalled THEN "finish" ELSE "stop")

(* The service manager's answers are ignored; a process that is left is not.*)
Stop(r) ==
    /\ At(r, "stop") /\ UNCHANGED <<manager, token, history, lock, files>>
    /\ \/ host' = host \ {"boot", "process"} /\ Goto(r, "firewall") /\ Smooth
       \/ /\ Mishap /\ host' \in {host, host \ {"boot"}, host \ {"process"}}
          /\ Goto(r, IF "process" \in host' THEN "finish" ELSE "firewall")
    /\ IF "process" \in host' THEN UNCHANGED warpVars ELSE AgentEnds

(* Rules that cannot be removed are left to the verification. *)
CleanFirewall(r) ==
    /\ At(r, "firewall") /\ Outside /\ UNCHANGED <<lock, files>> /\ Goto(r, "precommit")
    /\ \/ host' = host \ {"firewall"} /\ Smooth
       \/ UNCHANGED host /\ Mishap

(* Mutant: WARP is looked for before the agent is stopped, and not after. *)
PrecommitWithoutWarp(r) ==
    /\ At(r, "precommit") /\ Smooth /\ Outside /\ UNCHANGED <<host, lock, files>>
    /\ Goto(r, IF host \cap {"process", "boot", "firewall", "loader"} = {} THEN "remove" ELSE "finish")

(* verify_precommit_cleanup: what would go on running, and WARP, which      *)
(* a request in flight may have registered until the agent stopped.         *)
Precommit(r) ==
    /\ At(r, "precommit") /\ Smooth /\ Outside /\ UNCHANGED <<host, lock, files>>
    /\ Goto(r, IF host \cap {"process", "boot", "firewall", "loader"} = {} /\ ~WarpInstalled THEN "remove" ELSE "finish")

RemoveFiles(r) ==
    /\ At(r, "remove") /\ Outside /\ UNCHANGED <<lock, files>>
    /\ \/ host' = host \ {"files", "boot"} /\ Goto(r, "purge") /\ Smooth
       \/ host' \in {host, host \ {"files"}} /\ Fail(r) /\ Mishap

(* The state directories, which no backup holds.                            *)
Purge(r) ==
    /\ At(r, "purge") /\ Outside /\ UNCHANGED <<lock, files>>
    /\ \/ host' = host \ {"state"} /\ Goto(r, "verify") /\ Smooth
       \/ host' \in {host, host \ {"state"}} /\ Fail(r) /\ Mishap

(* verify_cleanup; its own leftovers in the runtime directory can refuse.   *)
Verify(r) ==
    /\ At(r, "verify") /\ Outside /\ UNCHANGED <<host, lock, files>>
    /\ \/ Goto(r, IF host = {} /\ ~WarpInstalled THEN "commit" ELSE "finish") /\ Smooth
       \/ Fail(r) /\ Mishap

(* LOCAL_CLEANUP_COMMITTED and FINAL_SUCCESS are two assignments.           *)
Commit(r) ==
    /\ At(r, "commit") /\ run' = [run EXCEPT ![r].pc = "success", ![r].commit = TRUE]
    /\ committed' = [committed EXCEPT ![r] = TRUE]
    /\ Smooth /\ UNCHANGED <<host, lock, files, world, spoiled>>

Succeed(r) ==
    /\ At(r, "success") /\ run' = [run EXCEPT ![r].pc = "finish", ![r].success = TRUE]
    /\ Smooth /\ Outside /\ UNCHANGED <<host, lock, files>>

-----------------------------------------------------------------------------
(* finish_runner: what is not committed is undone, then reported *)

Finish(r) ==
    /\ At(r, "finish") /\ Smooth /\ Outside /\ UNCHANGED <<host, lock, files>>
    /\ Goto(r, IF run[r].mutated /\ ~run[r].commit THEN "restore" ELSE "callback")

Backed(r) == run[r].backup \cap {"files", "boot"}

(* restore_local_recovery_path, one path after the other, rc.local last:    *)
(* what is in place is removed before the copy is put there, also when the  *)
(* script has not got as far as removing it. The first failure ends it.     *)
RestoreFiles(r) ==
    /\ At(r, "restore") /\ Outside /\ UNCHANGED <<lock, files>>
    /\ LET before == host \cup (Backed(r) \cap {"files"})     \* once rc.local's turn has come
       IN  \/ Backed(r) = {} /\ Goto(r, "restoreBridge") /\ UNCHANGED host /\ Smooth
           \/ "files" \in Backed(r) /\ host' = host \ {"files"} /\ Goto(r, "copy") /\ Smooth
           \/ "boot" \in Backed(r) /\ host' = before \ {"boot"} /\ Goto(r, "copy") /\ Smooth
           \/ /\ run' = [run EXCEPT ![r].pc = "restoreBridge", ![r].ok = FALSE]
              /\ host' \in {host, before} /\ Mishap

(* cp -a, and the paths after it.                                           *)
CopyFiles(r) ==
    /\ At(r, "copy") /\ Outside /\ UNCHANGED <<lock, files>>
    /\ \/ host' = host \cup Backed(r) /\ Goto(r, "restoreBridge") /\ Smooth
       \/ run' = [run EXCEPT ![r].pc = "restoreBridge", ![r].ok = FALSE] /\ UNCHANGED host /\ Mishap

RestoreBridge(r) ==
    /\ At(r, "restoreBridge") /\ Outside /\ UNCHANGED <<lock, files>>
    /\ \/ ~run[r].bridge /\ Goto(r, "restart") /\ UNCHANGED host /\ Smooth
       \/ run[r].bridge /\ host' = host \cup {"loader"} /\ Goto(r, "restart") /\ Smooth
       \/ /\ run[r].bridge /\ run' = [run EXCEPT ![r].pc = "restart", ![r].ok = FALSE]
          /\ host' \in {host, host \cup {"loader"}} /\ Mishap

Restored(r) == run' = [run EXCEPT ![r].pc = "callback", ![r].mutated = FALSE, ![r].bridge = FALSE]
NotRestored(r) == run' = [run EXCEPT ![r].pc = "callback", ![r].ok = FALSE,
                                     ![r].keepLocal = TRUE, ![r].keepBridge = TRUE]

(* What starting the agent adds: under systemd it is enabled as well.       *)
Started == IF manager = "supervisor" THEN {"process"} ELSE {"boot", "process"}

(* Mutant: nobody waits for the agent to be there. *)
RestartUnchecked(r) ==
    /\ At(r, "restart") /\ Outside /\ UNCHANGED files
    /\ \/ run[r].ok /\ Restored(r) /\ Smooth /\ UNCHANGED lock
          /\ host' = IF "files" \in run[r].backup THEN host \cup Started ELSE host
       \/ run[r].ok /\ Restored(r) /\ UNCHANGED <<host, lock>> /\ Mishap
       \/ ~run[r].ok /\ NotRestored(r) /\ UNCHANGED <<host, lock>> /\ Smooth

(* restart_recovered_agent, when all is back: what the backup has a unit or *)
(* a supervisor for is started, and a process has to be seen. A supervisor  *)
(* is a child of the script and inherits its open lock. systemd may fail to *)
(* enable the agent, and then to restart it.                                *)
Restart(r) ==
    /\ At(r, "restart") /\ UNCHANGED <<manager, token, history, files>>
    /\ \/ /\ run[r].ok /\ Smooth
          /\ host' = IF "files" \in run[r].backup THEN host \cup Started ELSE host
          /\ lock' = IF "files" \in run[r].backup /\ manager = "supervisor" THEN lock \cup {"supervisor"} ELSE lock
          /\ IF "process" \in host' THEN Restored(r) ELSE NotRestored(r)
          /\ IF manager = "systemd" /\ "process" \in host' THEN AgentEnds ELSE UNCHANGED warpVars
       \/ /\ run[r].ok /\ Mishap /\ NotRestored(r) /\ UNCHANGED lock
          /\ \/ UNCHANGED <<host, warpVars>>
             \/ /\ manager = "systemd" /\ "files" \in run[r].backup
                /\ \/ host' = host \cup {"boot"} /\ UNCHANGED warpVars
                   \/ host' = (host \cup {"boot"}) \ {"process"} /\ AgentEnds
       \/ ~run[r].ok /\ NotRestored(r) /\ UNCHANGED <<host, lock, warpVars>> /\ Smooth

(* One attempt of send_completion_callback: it gets lost; or the panel      *)
(* takes the first body that comes with the credential, and answers 409 to  *)
(* another, and its answer gets lost or not.                                *)
Post(r) ==
    /\ At(r, "callback") /\ UNCHANGED <<manager, host, warpVars, lock, files, history>> /\ Smooth
    /\ LET max  == IF run[r].success THEN SuccessAttempts ELSE FailureAttempts
           last == run[r].attempts + 1 = max
           unanswered == run' = [run EXCEPT ![r].attempts = @ + 1,
                                            ![r].pc = IF last THEN "clean" ELSE @,
                                            ![r].keepCallback = last /\ run[r].commit /\ run[r].success]
           delivered == token' = [token EXCEPT ![r] = IF @ = "open" THEN
                                    (IF run[r].success THEN "success" ELSE "failure") ELSE @]
       IN  \/ unanswered /\ (UNCHANGED token \/ delivered)
           \/ delivered /\ Goto(r, "clean")

(* The process ends and leaves these recovery directories behind.           *)
Exit(r, left) ==
    /\ saved' = [saved EXCEPT ![r] = @ \cup left]
    /\ run' = [run EXCEPT ![r] = [Fresh EXCEPT !.pc = "done", !.keepCallback = run[r].keepCallback]]
    /\ lock' = lock \ {r}

(* Mutant: the recovery directories go with the rest. *)
CleanAll(r) ==
    /\ At(r, "clean") /\ Smooth /\ Outside /\ UNCHANGED host
    /\ Exit(r, {})
    /\ staged' = [staged EXCEPT ![r] = run[r].keepCallback]

(* cleanup_runtime: each recovery directory unless it is still needed, and  *)
(* script and state unless the success has yet to be reported.              *)
Clean(r) ==
    /\ At(r, "clean") /\ Smooth /\ Outside /\ UNCHANGED host
    /\ Exit(r, {p \in run[r].backup : IF p = "loader" THEN run[r].keepBridge ELSE run[r].keepLocal})
    /\ staged' = [staged EXCEPT ![r] = run[r].keepCallback]

-----------------------------------------------------------------------------
(* Interruptions *)

Ended == {"none", "staged", "done"}
Trapped == {"restore", "copy", "restoreBridge", "restart", "callback", "clean"}

(* timeout sends TERM after 300 seconds: the trap takes the success back    *)
(* and ends the script with "cleanup interrupted", until finish_runner has  *)
(* begun to ignore it.                                                      *)
Interrupt(r) ==
    /\ run[r].pc \notin Ended \cup {"load"} /\ ~run[r].term
    /\ LET ignored == run[r].pc \in Trapped
       IN  /\ run' = [run EXCEPT ![r].term = TRUE, ![r].success = @ /\ ignored,
                                 ![r].pc = IF ignored THEN @ ELSE "finish"]
           /\ spoiled' = [spoiled EXCEPT ![r] = @ \/ (run[r].commit /\ ~ignored)]
    /\ Smooth /\ UNCHANGED <<host, lock, files, world, committed>>

(* And KILL 60 seconds later.                                               *)
KillRunner(r) ==
    /\ run[r].term /\ run[r].pc \notin Ended
    /\ Exit(r, run[r].backup)
    /\ Smooth /\ Outside /\ UNCHANGED <<host, staged>>

(* The runtime directory, and the backup of the loaders in it, is emptied;  *)
(* what is still installed and enabled starts.                              *)
Reboot ==
    /\ Mishap
    /\ run' = [r \in Runners |-> IF At(r, "none") THEN run[r] ELSE [Fresh EXCEPT !.pc = "done"]]
    /\ lock' = {} /\ staged' = [r \in Runners |-> FALSE]
    /\ saved' = [r \in Runners |-> (saved[r] \cup run[r].backup) \ {"loader"}]
    /\ host' = IF {"boot", "files"} \subseteq host THEN host \cup {"process"} ELSE host \ {"process"}
    /\ AgentEnds /\ UNCHANGED <<manager, token, history>>

(* "retry with: /bin/sh $0 $STATE_FILE", without the timeout.               *)
Retry(r) ==
    /\ Mishap
    /\ At(r, "done") /\ staged[r] /\ run[r].keepCallback
    /\ run' = [run EXCEPT ![r] = [Fresh EXCEPT !.pc = "load", !.term = TRUE]]
    /\ spoiled' = [spoiled EXCEPT ![r] = TRUE]
    /\ UNCHANGED <<host, lock, files, world, committed>>

(* The agent serves its WARP requests while it runs. *)
Serve ==
    /\ "process" \in host /\ \E q \in WarpRequests : WarpStep(q)
    /\ Smooth /\ UNCHANGED <<manager, host, lock, run, files, token, history>>

-----------------------------------------------------------------------------
Init ==
    /\ \E h \in Hosts : manager = h[1] /\ host = h[2]
    /\ WarpInit /\ lock = {}
    /\ run = [r \in Runners |-> Fresh]
    /\ staged = [r \in Runners |-> FALSE] /\ saved = [r \in Runners |-> {}]
    /\ token = [r \in Runners |-> "open"]
    /\ committed = [r \in Runners |-> FALSE] /\ spoiled = [r \in Runners |-> FALSE]
    /\ mishaps = MaxMishaps

Script(r) ==
    \/ Load(r) \/ Preflight(r) \/ TakeLock(r) \/ Stage(r)
    \/ BackupBridge(r) \/ Unload(r) \/ Reload(r) \/ CleanBoot(r) \/ CheckWarp(r) \/ Stop(r)
    \/ CleanFirewall(r) \/ Precommit(r) \/ RemoveFiles(r) \/ Purge(r) \/ Verify(r)
    \/ Commit(r) \/ Succeed(r)
    \/ Finish(r) \/ RestoreFiles(r) \/ CopyFiles(r) \/ RestoreBridge(r)
    \/ Restart(r) \/ Post(r) \/ Clean(r)

Next ==
    \/ \E r \in Runners : \/ Dispatch(r) \/ Launch(r) \/ Script(r)
                          \/ Interrupt(r) \/ KillRunner(r) \/ Retry(r)
    \/ Reboot \/ Serve

Spec == Init /\ [][Next]_vars

-----------------------------------------------------------------------------
Recoverable(r) == "files" \in saved[r] \cup run[r].backup

(* "cleanup completed and verified": once a script commits, nothing of the  *)
(* agent is on the host and no WARP registration lost its agent, and        *)
(* nothing another script does, restoring included, brings any of it back;  *)
(* only then is success recorded.                                           *)
CommitIsTotal ==
    /\ \A r \in Runners : token[r] = "success" => committed[r]
    /\ (\E r \in Runners : committed[r]) => host = {} /\ ~WarpInstalled

(* A failure that the panel recorded is not that of a removal this script   *)
(* completed, and means that the agent runs and will start again ("Agent    *)
(* runtime restored for retry"), that a recovery directory has its files    *)
(* ("retained recovery files"), or that another script removed it.          *)
FailureIsUndone ==
    \A r \in Runners :
        token[r] = "failure" /\ ~spoiled[r] =>
            /\ ~committed[r]
            /\ \/ {"boot", "files", "process"} \subseteq host
               \/ \E q \in Runners : committed[q] \/ Recoverable(q)

(* The removal takes the agent's files away only where the agent is stopped *)
(* and left no credentials of WARP, whenever a registration wins the race:  *)
(* "completion must fail closed". The undo takes away what it is about to   *)
(* copy back, though the agent runs and has credentials; cut off there, it  *)
(* leaves the files in its recovery directory only.                         *)
WarpKeepsItsAgent ==
    [][ "files" \in host \ host' =>
            \/ "process" \notin host /\ ~WarpInstalled
            \/ \E r \in Runners : At(r, "restore") /\ "files" \in run[r].backup ]_vars

(* Until it is known to be removed, the agent's installation exists: in     *)
(* place or in a recovery directory, through failures, kills and reboots.   *)
NothingLost ==
    "files" \in host \/ \E r \in Runners : committed[r] \/ Recoverable(r)

================================================================================
