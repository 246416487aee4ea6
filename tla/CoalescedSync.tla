---------------------------- MODULE CoalescedSync ----------------------------
(***************************************************************************)
(* What SyncQueue promises whoever calls Trigger: a caller is served by a  *)
(* sync that begins after the call; one sync may serve many callers, but   *)
(* none begins without one; syncs do not overlap.  A caller may ask again  *)
(* at any time, and then the next sync may leave it waiting for another.   *)
(***************************************************************************)
CONSTANT Callers        \* of Trigger

VARIABLES
    outstanding,        \* callers with a call that is not served yet
    running             \* a queued sync is in progress

syncVars == <<outstanding, running>>

CoalescedInit ==
    /\ outstanding = {}
    /\ running = FALSE

Ask(c) ==
    /\ outstanding' = outstanding \cup {c}
    /\ UNCHANGED running

\* Callers with a call that came too late for this sync stay outstanding.
Begin ==
    /\ ~running
    /\ outstanding # {}
    /\ outstanding' \in SUBSET outstanding
    /\ running' = TRUE

End ==
    /\ running
    /\ running' = FALSE
    /\ UNCHANGED outstanding

CoalescedNext ==
    \/ \E c \in Callers : Ask(c)
    \/ Begin
    \/ End

CoalescedSpec == CoalescedInit /\ [][CoalescedNext]_syncVars

=============================================================================
