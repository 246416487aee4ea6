----------------------------- MODULE GrafanaGate -----------------------------
(***************************************************************************)
(* What GrafanaMonitor promises the rest of Savras: a gate that requests   *)
(* consult (ShouldBlock), that closes at once, that only a fresh goroutine *)
(* opens again, and whose opener runs the recovery callback, once, if one  *)
(* is set.  Callbacks of earlier openings may still be running when the    *)
(* gate closes and opens again.                                            *)
(***************************************************************************)
CONSTANT Loops      \* goroutines that may run a recovery callback at once

VARIABLES
    state,          \* "Up": requests pass; "Down": they get a 503
    onRecovery,     \* there is a recovery callback; never changes
    recovering      \* goroutines inside the recovery callback

gateVars == <<state, onRecovery, recovering>>

GateTypeOK ==
    /\ state \in {"Up", "Down"}
    /\ onRecovery \in BOOLEAN
    /\ recovering \in SUBSET Loops

GateInit ==
    /\ state = "Up"
    /\ onRecovery \in BOOLEAN
    /\ recovering = {}

GateCloses ==
    /\ state = "Up"
    /\ state' = "Down"
    /\ onRecovery' = onRecovery
    /\ UNCHANGED recovering

\* The gate opens, and its opener enters the callback if there is one.
GateOpens(l) ==
    /\ state = "Down"
    /\ l \notin recovering
    /\ state' = "Up"
    /\ recovering' = IF onRecovery THEN recovering \cup {l} ELSE recovering
    /\ onRecovery' = onRecovery

RecoveryEnds(l) ==
    /\ l \in recovering
    /\ recovering' = recovering \ {l}
    /\ onRecovery' = onRecovery
    /\ UNCHANGED state

GateNext ==
    \/ GateCloses
    \/ \E l \in Loops : GateOpens(l) \/ RecoveryEnds(l)

GateSpec == GateInit /\ [][GateNext]_gateVars

=============================================================================
