----------------------------- MODULE PdfRendering ----------------------------
(***************************************************************************)
(* The tasks of the PDF queue: _generateAndSavePdf, retryWithBackoff and   *)
(* generatePdfFromUrl of InspectionsService                                *)
(* (src/inspections/inspections.service.ts:1515, 427, 1947).               *)
(*                                                                         *)
(* A task of TaskQueue is here the rendering of one report: a browser is   *)
(* launched, the page is loaded, with a second and weaker way to wait for  *)
(* it, printed, and the browser is closed whatever happened.  A failed     *)
(* attempt is repeated after a pause; pinning and writing the report are   *)
(* tried once.  Every wait has a timeout, which is one of its failures.    *)
(* Puppeteer kills a browser that it cannot close.                         *)
(***************************************************************************)
EXTENDS TaskQueue

CONSTANT MaxAttempts    \* 3

ASSUME RenderingAssumption == MaxAttempts \in Nat \ {0}

VARIABLES
    stage,      \* how far the rendering of each task has come
    attempt,    \* the attempt it is at
    browsers    \* <<task, attempt>> of the browsers that run

renderVars == <<stage, attempt, browsers>>
allVars == <<vars, renderVars>>

\* "pausing": before the launch; "rendered": the browser is closed, the PDF
\* is in memory.
Stage == {"pausing", "open", "reloading", "loaded", "printed", "broken",
          "rendered", "pinned", "over"}

RenderInit ==
    /\ Init
    /\ stage = [t \in Task |-> "pausing"]
    /\ attempt = [t \in Task |-> 1]
    /\ browsers = {}

At(t, S) == phase[t] = "running" /\ stage[t] \in S
Becomes(t, s) == stage' = [stage EXCEPT ![t] = s]

-----------------------------------------------------------------------------
(* Faulty variants for mutation runs; not part of the model.               *)

\* There is no finally block: only a printed page closes its browser.
AttemptFailsUnclosed(t) ==
    /\ At(t, {"open", "reloading", "loaded"})
    /\ IF attempt[t] = MaxAttempts
       THEN TaskRejects(t) /\ Becomes(t, "over") /\ UNCHANGED attempt
       ELSE /\ attempt' = [attempt EXCEPT ![t] = @ + 1]
            /\ Becomes(t, "pausing")
            /\ UNCHANGED vars
    /\ UNCHANGED browsers

\* The last attempt is repeated like the others.
AttemptOverWithoutLimit(t) ==
    /\ Becomes(t, "pausing")
    /\ UNCHANGED <<vars, attempt>>

-----------------------------------------------------------------------------
\* retryWithBackoff, after a failed attempt.
AttemptOver(t) ==
    \/ /\ attempt[t] = MaxAttempts
       /\ TaskRejects(t)
       /\ Becomes(t, "over")
       /\ UNCHANGED attempt
    \/ /\ attempt[t] # MaxAttempts
       /\ attempt' = [attempt EXCEPT ![t] = @ + 1]
       /\ Becomes(t, "pausing")
       /\ UNCHANGED vars

Launches(t) ==
    /\ At(t, {"pausing"})
    /\ browsers' = browsers \cup {<<t, attempt[t]>>}
    /\ Becomes(t, "open")
    /\ UNCHANGED <<vars, attempt>>

LaunchFails(t) ==
    /\ At(t, {"pausing"})
    /\ AttemptOver(t)
    /\ UNCHANGED browsers

\* goto, waiting for an idle network, or for an almost idle one.
Loads(t) ==
    /\ At(t, {"open", "reloading"})
    /\ Becomes(t, "loaded")
    /\ UNCHANGED <<vars, attempt, browsers>>

LoadsOnceMore(t) ==
    /\ At(t, {"open"})
    /\ Becomes(t, "reloading")
    /\ UNCHANGED <<vars, attempt, browsers>>

\* The glossary is there, the images are, and the page is printed.
Prints(t) ==
    /\ At(t, {"loaded"})
    /\ Becomes(t, "printed")
    /\ UNCHANGED <<vars, attempt, browsers>>

\* Any step with the open page may fail; the finally block comes next.
AttemptFails(t) ==
    /\ At(t, {"open", "reloading", "loaded"})
    /\ Becomes(t, "broken")
    /\ UNCHANGED <<vars, attempt, browsers>>

\* The finally block.
Closes(t) ==
    /\ At(t, {"printed", "broken"})
    /\ browsers' = browsers \ {<<t, attempt[t]>>}
    /\ \/ stage[t] = "printed" /\ Becomes(t, "rendered") /\ UNCHANGED <<vars, attempt>>
       \/ stage[t] = "broken" /\ AttemptOver(t)

\* The IPFS node takes the report, then the disk.
Pins(t) ==
    /\ At(t, {"rendered"})
    /\ Becomes(t, "pinned")
    /\ UNCHANGED <<vars, attempt, browsers>>

Writes(t) ==
    /\ At(t, {"pinned"})
    /\ TaskResolves(t)
    /\ Becomes(t, "over")
    /\ UNCHANGED <<attempt, browsers>>

SavingFails(t) ==
    /\ At(t, {"rendered", "pinned"})
    /\ TaskRejects(t)
    /\ Becomes(t, "over")
    /\ UNCHANGED <<attempt, browsers>>

RenderStep(t) ==
    \/ Launches(t) \/ LaunchFails(t) \/ Loads(t) \/ LoadsOnceMore(t) \/ Prints(t)
    \/ AttemptFails(t) \/ Closes(t) \/ Pins(t) \/ Writes(t) \/ SavingFails(t)

\* What the queue does besides running its tasks.
QueueOnly ==
    \/ \E t \in Task : Add(t) \/ AddRefused(t) \/ Release(t)
    \/ CooldownEnds

RenderNext ==
    \/ \E t \in Task : RenderStep(t)
    \/ QueueOnly /\ UNCHANGED renderVars

RenderSpec == RenderInit /\ [][RenderNext]_allVars

\* Every wait of a rendering ends, at the latest with its timeout, and the
\* finally block of the queue runs.
RenderFairSpec ==
    /\ RenderSpec
    /\ \A t \in Task : WF_allVars(RenderStep(t))
    /\ \A t \in Task : WF_allVars(Release(t) /\ UNCHANGED renderVars)

-----------------------------------------------------------------------------
(* Properties                                                              *)

\* A browser takes memory that the limit of the queue is there to bound:
\* whatever fails and is repeated, there is at most one for each slot, it
\* belongs to the attempt under way, and none outlives its task.
BrowsersWithinSlots ==
    /\ \A b \in browsers : phase[b[1]] = "running" /\ b[2] = attempt[b[1]]
    /\ Cardinality(browsers) <= MaxConcurrent
=============================================================================
