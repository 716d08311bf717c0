---------------------------- MODULE BulkApproval ----------------------------
(***************************************************************************)
(* bulkApproveInspections (src/inspections/inspections.service.ts:293):    *)
(* one request that approves a list of inspections one after the other,    *)
(* goes on after a failure and answers with a summary.  Composed with      *)
(* InspectionLifecycle: each item of the list is an approval of that       *)
(* module, and all other requests interleave with it.                      *)
(*                                                                         *)
(* The list may name an inspection twice (the DTO does not forbid it) or   *)
(* one that is gone.  The pause between two items is interleaving.  A      *)
(* restart loses the request with its answer; what it leaves in the table  *)
(* is the subject of InspectionLifecycle.                                  *)
(***************************************************************************)
EXTENDS InspectionLifecycle, Sequences

CONSTANT Items      \* the approvals of the bulk request, in the order of its list

VARIABLES
    item,         \* the item under way
    successful,   \* items reported as approved
    failed        \* items reported as failed

bulkVars == <<vars, item, successful, failed>>

ItemSet == {Items[k] : k \in DOMAIN Items}

ASSUME BulkAssumption ==
    /\ Items \in Seq(Request)
    /\ Items # <<>>
    /\ \A j, k \in DOMAIN Items : Items[j] = Items[k] => j = k

BulkInit ==
    /\ Init
    /\ item = 1
    /\ successful = {}
    /\ failed = {}

\* The loop is at this item.
AtItem(a) == item \in DOMAIN Items /\ a = Items[item]

Answered == item = Len(Items) + 1

-----------------------------------------------------------------------------
(* Faulty variants for mutation runs; not part of the model.               *)

\* approveInspection is started and not awaited.
ItemSucceedsUnawaited(a) ==
    /\ AtItem(a)
    /\ pc[a] # "idle"
    /\ successful' = successful \cup {a}
    /\ item' = item + 1
    /\ UNCHANGED <<vars, failed>>

\* The loop gives up at the first failure, without an answer.
ItemFailsForGood(a) ==
    /\ AtItem(a)
    /\ pc[a] \in {"approvalFailed", "stranded"}
    /\ failed' = failed \cup {a}
    /\ UNCHANGED <<vars, item, successful>>

-----------------------------------------------------------------------------
(* The loop                                                                *)

\* The item's approval passes its transaction.
ItemStarts(a) ==
    /\ AtItem(a)
    /\ ApproveTransaction(a)
    /\ UNCHANGED <<item, successful, failed>>

\* The approval rejects the item at once: the row is gone or its status is
\* not approvable.
ItemRejected(a) ==
    /\ AtItem(a)
    /\ pc[a] = "idle"
    /\ \/ on[a] \notin live
       \/ on[a] \in live /\ Current(a).status \notin Approvable
    /\ failed' = failed \cup {a}
    /\ item' = item + 1
    /\ UNCHANGED <<vars, successful>>

ItemSucceeds(a) ==
    /\ AtItem(a)
    /\ pc[a] = "done"
    /\ successful' = successful \cup {a}
    /\ item' = item + 1
    /\ UNCHANGED <<vars, failed>>

\* An error is caught, recorded, and the loop goes on.
ItemFails(a) ==
    /\ AtItem(a)
    /\ pc[a] \in {"approvalFailed", "stranded"}
    /\ failed' = failed \cup {a}
    /\ item' = item + 1
    /\ UNCHANGED <<vars, successful>>

BulkContinue ==
    \E a \in ItemSet : ItemStarts(a) \/ ItemRejected(a) \/ ItemSucceeds(a) \/ ItemFails(a)

\* Every other request, and the handlers of the items under way.
LifecycleStep ==
    /\ \/ \E r \in Request \ ItemSet : Arrive(r) \/ ClientStep(r)
       \/ \E r \in Request : Continue(r)
    /\ UNCHANGED <<item, successful, failed>>

BulkNext == BulkContinue \/ LifecycleStep

\* Handlers and the loop run to their end, as in InspectionLifecycle; the
\* list is finite and every approval settles.
BulkSpec ==
    /\ BulkInit /\ [][BulkNext]_bulkVars
    /\ WF_bulkVars(BulkContinue)
    /\ \A r \in Request : WF_bulkVars(Continue(r) /\ UNCHANGED <<item, successful, failed>>)

-----------------------------------------------------------------------------
(* Properties                                                              *)

\* The summary of bulkApproveInspections tells the truth, whatever other
\* requests do meanwhile: each item passed is counted once; one reported as
\* approved has stored its report, and its inspection still shows it unless
\* it was rolled back (so an inspection listed twice is approved once); one
\* reported as failed has not stored a report.
SummaryIsTrue ==
    /\ successful \cap failed = {}
    /\ successful \cup failed = {Items[k] : k \in {k \in DOMAIN Items : k < item}}
    /\ \A a \in successful :
          on[a] \in live /\ on[a] \notin LegacyRows /\ Undisturbed(on[a]) =>
              db[on[a]].pdfFileHash = a
    /\ \A a \in failed : \A i \in live : db[i].pdfFileHash # a

\* The bulk request answers, whatever becomes of its items.
BulkAnswers == <>Answered
=============================================================================
