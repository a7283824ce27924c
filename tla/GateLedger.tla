-------------------------------- MODULE GateLedger --------------------------------
(***************************************************************************)
(* What a runnable review gate promises to those who read it, with no      *)
(* processes, steps or files: attempts are recorded one at a time and      *)
(* never taken back, a review claims "complete" only over a pass, and      *)
(* `done` accepts only what was passed.  ReviewGate implements it.         *)
(***************************************************************************)
EXTENDS Naturals

CONSTANTS
    Fingerprints,  \* what a review can be about
    Statuses,      \* what the gate's item can be set to
    Unset,         \* the item before it is set
    Processes      \* how many processes can review at once

VARIABLES
    dedupe,    \* rerun_requires_new_fingerprint
    max,       \* max_attempts, 0 when there is no budget
    count,     \* how many attempts are recorded
    passes,    \* the fingerprints that have a passing attempt
    item,      \* the status of the gate's item
    byhand,    \* the item was last set by hand, not by a review
    accepted   \* the fingerprints of the accepted runs

vars == <<dedupe, max, count, passes, item, byhand, accepted>>

Init ==
    /\ dedupe \in BOOLEAN /\ max \in Nat
    /\ count = 0 /\ passes = {}
    /\ item = Unset /\ byhand = FALSE
    /\ accepted = {}

(* One attempt more, passing or not.  Without dedupe the budget holds up to the
   reviews that were under way when it ran out. *)
Record(f) ==
    /\ ~dedupe /\ max > 0 => count + 1 < max + Processes
    /\ count' = count + 1
    /\ passes' \in {passes, passes \cup {f}}
    /\ UNCHANGED <<dedupe, max, item, byhand, accepted>>

(* A review stores its verdict: complete only over a pass. *)
Report(s) ==
    /\ s = "complete" => passes # {}
    /\ item' = s /\ byhand' = FALSE
    /\ UNCHANGED <<dedupe, max, count, passes, accepted>>

(* By hand the item is set to anything: `work` has no say in what a status means. *)
SetByHand(s) ==
    /\ item' = s /\ byhand' = TRUE
    /\ UNCHANGED <<dedupe, max, count, passes, accepted>>

(* `done` accepts a run, over a pass of its fingerprint when the gate dedupes. *)
Accept(f) ==
    /\ passes # {}
    /\ dedupe => f \in passes
    /\ accepted' = accepted \cup {f}
    /\ UNCHANGED <<dedupe, max, count, passes, item, byhand>>

Next ==
    \/ \E f \in Fingerprints : Record(f) \/ Accept(f)
    \/ \E s \in Statuses : Report(s) \/ SetByHand(s)

Spec == Init /\ [][Next]_vars

===============================================================================
