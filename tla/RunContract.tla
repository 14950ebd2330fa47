---------------------------- MODULE RunContract ----------------------------
(***************************************************************************)
(* What one press of Run promises the user who does not press Stop, with   *)
(* no threads, callbacks or C globals in it: the button says Stop exactly  *)
(* while there is work, the work happens once and alone, and the outcome   *)
(* shown at the end is the one the native run ended with.                  *)
(***************************************************************************)
VARIABLES
    button,   \* what the button offers: "Run" or "Stop"
    work,     \* "idle" -> "queued" -> "native" -> "ended" -> "idle"
    verdict,  \* how the native run ended, until it is reported
    outcome   \* what the screen reports

cvars == <<button, work, verdict, outcome>>

Verdict == {"ok", "error"}

CInit ==
    /\ button = "Run" /\ work = "idle"
    /\ verdict = "none" /\ outcome = "none"

Press ==
    /\ button = "Run" /\ work = "idle"
    /\ button' = "Stop" /\ work' = "queued"
    /\ outcome' = "none"
    /\ UNCHANGED verdict

(* The values on screen cannot be run at all: reported at once *)
PressRefused ==
    /\ button = "Run" /\ work = "idle"
    /\ outcome' = "error"
    /\ UNCHANGED <<button, work, verdict>>

Begin ==
    /\ work = "queued"
    /\ work' = "native"
    /\ UNCHANGED <<button, verdict, outcome>>

End ==
    /\ work = "native"
    /\ work' = "ended"
    /\ verdict' \in Verdict
    /\ UNCHANGED <<button, outcome>>

Report ==
    /\ work = "ended"
    /\ work' = "idle" /\ button' = "Run"
    /\ outcome' = verdict /\ verdict' = "none"

CNext == Press \/ PressRefused \/ Begin \/ End \/ Report

CSpec ==
    /\ CInit /\ [][CNext]_cvars
    /\ WF_cvars(Begin) /\ WF_cvars(End) /\ WF_cvars(Report)
=============================================================================
