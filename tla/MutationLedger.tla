--------------------------- MODULE MutationLedger ---------------------------
(***************************************************************************)
(* What the inbound mutation fence promises to the control plane, with no  *)
(* files, no runtime and no failures in sight: a ledger that says, for     *)
(* every inbound tag, which mutation owns it and which mutations have been *)
(* cancelled.  A cancelled mutation can never become an owner, ownership   *)
(* is given up only by the owner's own cancellation, and a power loss may  *)
(* forget only what was never reported as durable.                         *)
(*                                                                         *)
(* InboundFence implements this specification: see the refinement there.   *)
(***************************************************************************)
CONSTANTS
    Tags,   \* inbound tags
    Ids,    \* mutation ids the control plane issues
    NoId    \* the empty id: no owner

VARIABLES
    ledger,  \* [Tags -> Entry]: what a reader of the ledger sees
    durable  \* [Tags -> Entry]: what survives a power loss for certain

ledgerVars == <<ledger, durable>>

Entry == [owner: Ids \cup {NoId}, canceled: SUBSET Ids]

LedgerTypeOK == ledger \in [Tags -> Entry] /\ durable \in [Tags -> Entry]

Init ==
    /\ ledger \in [Tags -> Entry]
    /\ durable = ledger

(***************************************************************************)
(* A write publishes a new ledger.  It is durable at once, or, when the    *)
(* directory cannot be synchronised, at some later write.                  *)
(***************************************************************************)
Publish(new) ==
    /\ ledger' = new
    /\ durable' \in {new, durable}

Claim(t, m) ==
    /\ m \notin ledger[t].canceled
    /\ Publish([ledger EXCEPT ![t].owner = m])

Cancel(t, m) ==
    Publish([ledger EXCEPT ![t].canceled = @ \cup {m}])

Release(t) ==
    /\ ledger[t].owner \in ledger[t].canceled
    /\ Publish([ledger EXCEPT ![t].owner = NoId])

Republish == Publish(ledger)

PowerLoss ==
    /\ ledger' \in {ledger, durable}
    /\ durable' = ledger'

Next ==
    \/ \E t \in Tags, m \in Ids : Claim(t, m) \/ Cancel(t, m)
    \/ \E t \in Tags : Release(t)
    \/ Republish
    \/ PowerLoss

Spec == Init /\ [][Next]_ledgerVars

=============================================================================
