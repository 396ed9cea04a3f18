---------------------------------- MODULE Warp ----------------------------------
(***************************************************************************)
(* The agent's WARP account (warp/service.go, warp_handler.go): a device   *)
(* registered with Cloudflare, its credentials in warp.json and in memory, *)
(* and the outbounds that use it. The service has a mutex, the handlers    *)
(* have none: requests meet. What the core runs is left out: a core that   *)
(* restarts takes it from the file.                                        *)
(***************************************************************************)
EXTENDS Naturals

CONSTANT WarpRequests   \* requests under way at a time

VARIABLES
    warpFile,       \* warp.json: missing, whole, or cut off in the middle of a write
    state,          \* the service's state: registered or not
    outbounds,      \* the configuration file has outbounds of the account
    request,        \* what each request is about to do
    device          \* the device whose credentials were saved is registered

warpVars == <<warpFile, state, outbounds, request, device>>

Answered == "none"

(* The steps under the service's mutex, which also read the state.          *)
Locked == {"save", "write", "unlink"}
Free(q) == \A p \in WarpRequests \ {q} : request[p] \notin Locked

Step(q, from, to) == request[q] = from /\ request' = [request EXCEPT ![q] = to]

(* warp.json is written in place: truncated, then filled.                   *)
Truncate == warpFile' = "torn"

-----------------------------------------------------------------------------
(* HandleInstall, EnsureRegistered: registered once, whatever fails         *)
(* afterwards. A registration that fails changes nothing.                   *)
Register(q) == Step(q, Answered, "save")

Install(q) ==
    /\ Free(q) /\ UNCHANGED <<warpFile, state, outbounds, device>>
    /\ \/ state /\ Step(q, Answered, "apply")
       \/ ~state /\ Register(q)

(* HandleLicense: UpdateLicense without the mutex, then RefreshConfig.      *)
License(q) ==
    /\ Free(q) /\ state /\ Step(q, Answered, "license")
    /\ UNCHANGED <<warpFile, state, outbounds, device>>

Refresh(q) ==
    /\ Free(q) /\ UNCHANGED <<warpFile, state, outbounds, device>>
    /\ \/ state /\ Step(q, "license", "save")
       \/ Step(q, "license", Answered)

(* saveLocked; the state in memory follows the file.                        *)
Save(q) ==
    /\ UNCHANGED <<outbounds, device, state>>
    /\ \/ Step(q, "save", "write") /\ Truncate
       \/ Step(q, "save", Answered) /\ warpFile' \in {warpFile, "torn"}

Write(q) ==
    /\ Step(q, "write", "apply") /\ warpFile' = "whole" /\ state' = TRUE
    /\ device' = TRUE /\ UNCHANGED outbounds

(* applyOutbounds: built from the state, into the core, then into the file. *)
Apply(q) ==
    /\ Free(q) /\ UNCHANGED <<warpFile, state, outbounds, device>>
    /\ \/ state /\ Step(q, "apply", "persist")
       \/ Step(q, "apply", Answered)

Persist(q) ==
    /\ UNCHANGED <<warpFile, state, device>>
    /\ Step(q, "persist", Answered) /\ outbounds' \in {outbounds, TRUE}

-----------------------------------------------------------------------------
(* HandleRemove: core and file are tried whatever becomes of the other, and *)
(* only when both succeeded the account is given up.                        *)
Remove(q) ==
    /\ Step(q, Answered, "drop") \/ Step(q, Answered, "giveUp")
    /\ UNCHANGED <<warpFile, state, outbounds, device>>

(* Mutant: what could not be taken out of the file is left there. *)
DropAnyway(q) ==
    /\ UNCHANGED <<warpFile, state, device>>
    /\ Step(q, "drop", "delete") \/ Step(q, "giveUp", Answered)
    /\ outbounds' \in {outbounds, FALSE}

Drop(q) ==
    /\ UNCHANGED <<warpFile, state, device>>
    /\ \/ Step(q, "drop", "delete") /\ outbounds' = FALSE
       \/ Step(q, "drop", Answered) /\ UNCHANGED outbounds
       \/ Step(q, "giveUp", Answered) /\ outbounds' \in {outbounds, FALSE}

(* service.Uninstall: nothing to do without a state; a device that Cloud-   *)
(* flare no longer knows counts as deleted.                                 *)
Delete(q) ==
    /\ Free(q) /\ UNCHANGED <<warpFile, state, outbounds>>
    /\ \/ ~state /\ Step(q, "delete", Answered) /\ UNCHANGED device
       \/ state /\ Step(q, "delete", "unlink") /\ device' = FALSE
       \/ state /\ Step(q, "delete", Answered) /\ UNCHANGED device

Unlink(q) ==
    /\ UNCHANGED <<outbounds, device>>
    /\ \/ Step(q, "unlink", Answered) /\ warpFile' = "none" /\ state' = FALSE
       \/ Step(q, "unlink", Answered) /\ UNCHANGED <<warpFile, state>>

-----------------------------------------------------------------------------
(* The agent ends, and NewService loads what it finds at the next start.    *)
Ends == request' = [q \in WarpRequests |-> Answered] /\ state' = (warpFile = "whole")

WarpInit ==
    /\ warpFile = "none" /\ state = FALSE /\ device = FALSE
    /\ outbounds = FALSE /\ request = [q \in WarpRequests |-> Answered]

WarpStep(q) ==
    \/ Install(q) \/ License(q) \/ Refresh(q) \/ Save(q) \/ Write(q)
    \/ Apply(q) \/ Persist(q)
    \/ Remove(q) \/ Drop(q) \/ Delete(q) \/ Unlink(q)

-----------------------------------------------------------------------------
(* "Keep warp.json as the retry marker until both runtime/persisted         *)
(* outbounds and the Cloudflare device have been removed": while the        *)
(* configuration has outbounds of the account, or its device exists, the    *)
(* file is there, whichever step failed or was cut off. It holds one        *)
(* request at a time; an installation that meets a removal breaks it.       *)
MarkerOutlivesAccount ==
    warpFile = "none" => ~outbounds /\ ~device

===================================================================================
