----------------------------- MODULE CopyButton -----------------------------
(***************************************************************************)
(* A copy button of a preview page (the script in share/render.go).  A     *)
(* click starts a request that takes any time; its outcome is shown for    *)
(* two seconds by a timer, which another click may overtake.               *)
(***************************************************************************)
EXTENDS Integers

CONSTANTS
    Delay,      \* how long an outcome is shown
    MaxClicks   \* bound: clicks that start a copy

VARIABLES
    label,       \* idle, loading, success or error
    disabled,
    clicks,      \* clicks so far: the last one is the number of the last copy
    timers,      \* the timer of each copy: what is left of it, None if there is none
    registered,  \* ferryCopyResetTimers: the copy whose timer the button knows, or 0
    stood        \* history: how long the label has been there, up to Delay

vars == <<label, disabled, clicks, timers, registered, stood>>

None == -1
Outcomes == {"success", "error"}

Init ==
    /\ label = "idle" /\ disabled = FALSE
    /\ clicks = 0
    /\ timers = [c \in 1..MaxClicks |-> None]
    /\ registered = 0
    /\ stood = Delay

\* Slip: the timer of an earlier outcome is not stopped.
SetStateKeepsTimer(state) ==
    /\ label' = state /\ stood' = 0
    /\ timers' = [c \in DOMAIN timers |->
                    IF c = clicks' /\ state \in Outcomes THEN Delay ELSE timers[c]]
    /\ registered' = IF state \in Outcomes THEN clicks' ELSE 0

\* ferrySetCopyButtonState: the known timer is stopped, an outcome starts another.
SetState(state) ==
    /\ label' = state /\ stood' = 0
    /\ timers' = [c \in DOMAIN timers |->
                    IF c = clicks' /\ state \in Outcomes THEN Delay
                    ELSE IF c = registered THEN None ELSE timers[c]]
    /\ registered' = IF state \in Outcomes THEN clicks' ELSE 0

\* A click on a disabled button is ignored.
Click ==
    /\ ~disabled /\ clicks < MaxClicks
    /\ clicks' = clicks + 1
    /\ disabled' = TRUE
    /\ SetState("loading")

\* The request or the clipboard answers, or fails: an expired share, no permission.
Settle(outcome) ==
    /\ disabled
    /\ disabled' = FALSE
    /\ UNCHANGED clicks
    /\ SetState(outcome)

Tick ==
    /\ stood < Delay \/ \E c \in DOMAIN timers : timers[c] > 0
    /\ timers' = [c \in DOMAIN timers |-> IF timers[c] > 0 THEN timers[c] - 1 ELSE timers[c]]
    /\ stood' = IF stood < Delay THEN stood + 1 ELSE stood
    /\ UNCHANGED <<label, disabled, clicks, registered>>

\* A timer that is due resets the label, at once or later.
Reset(c) ==
    /\ timers[c] = 0
    /\ label' = "idle" /\ stood' = 0
    /\ timers' = [timers EXCEPT ![c] = None]
    /\ registered' = 0
    /\ UNCHANGED <<disabled, clicks>>

Next ==
    \/ Click
    \/ \E outcome \in Outcomes : Settle(outcome)
    \/ Tick
    \/ \E c \in 1..MaxClicks : Reset(c)

Spec == Init /\ [][Next]_vars

\* The timer of an earlier copy never takes away what the button says: an outcome is
\* there for two seconds, or until the next click, and the sign that a copy is under
\* way until that copy has come to its end.
OutcomeStands ==
    [][label # "idle" /\ label' = "idle" => label \in Outcomes /\ stood >= Delay]_vars

=============================================================================
