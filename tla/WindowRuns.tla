------------------------------ MODULE WindowRuns ------------------------------
(* What the hub promises about a window of suggestions, whatever requests do: *)
(* what it offers is sent to the devices at most once, by who holds it; a     *)
(* holder may give it back only if nothing was sent; and once a run is over   *)
(* nobody takes the window again before the next one opens.                   *)
(*                                                                            *)
(* Suggestion implements this with receipts in storage, and requests that     *)
(* claim, check again, dispatch and settle, and may be cut short anywhere.    *)
EXTENDS Naturals

CONSTANT Slots

VARIABLES
    stage,   \* slot -> "free", "held", "closed", or "past": its window is long over
    runs     \* slot -> how often its window's offer was sent

vars == <<stage, runs>>

Stages == {"free", "held", "closed", "past"}

-----------------------------------------------------------------------------
(* The ways one step may change one window, from a stage to a stage and from  *)
(* a number of runs to a number of runs.                                      *)

Held(s, t, n, k) == s = "free" /\ t = "held" /\ k = n

Sent(s, t, n, k) == s = "held" /\ t = "held" /\ n = 0 /\ k = 1

LetGo(s, t, n, k) == s = "held" /\ t = "free" /\ n = 0 /\ k = 0

Closed(s, t, n, k) == s = "held" /\ t = "closed" /\ k = n

Expired(s, t, n, k) == t = "past" /\ k = n

Reopened(s, t, n, k) == s = "past" /\ t = "free" /\ k = 0

Legal(s, t, n, k) ==
    \/ t = s /\ k = n
    \/ Held(s, t, n, k) \/ Sent(s, t, n, k) \/ LetGo(s, t, n, k)
    \/ Closed(s, t, n, k) \/ Expired(s, t, n, k) \/ Reopened(s, t, n, k)

-----------------------------------------------------------------------------
Init == stage = [s \in Slots |-> "free"] /\ runs = [s \in Slots |-> 0]

(* A restart closes every window that is held, in one step. *)
Next ==
    /\ stage' \in [Slots -> Stages] /\ runs' \in [Slots -> {0, 1}]
    /\ \A s \in Slots : Legal(stage[s], stage'[s], runs[s], runs'[s])

Spec == Init /\ [][Next]_vars
=============================================================================
