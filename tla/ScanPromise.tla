---------------------------- MODULE ScanPromise ----------------------------
(***************************************************************************)
(* What scan.start and scan.cancel promise their callers, whatever threads,*)
(* locks, queues and watchdogs stand behind them (see ScanSlot):           *)
(*                                                                         *)
(*   - a scan is accepted only when every scan under way was told to stop, *)
(*     and refused only when there is, or was, such a scan;                *)
(*   - a scan that began leaves one record when it ends; one that never    *)
(*     began may leave none, when it was told to stop or could not be      *)
(*     queued;                                                             *)
(*   - only a scan that was told to stop is recorded as cancelled.         *)
(***************************************************************************)
EXTENDS Sequences

CONSTANTS Jobs, MaySubmitFail

VARIABLES
    phase,    \* "new", "refused", "accepted", "begun" or "over"
    told,     \* the scans that were told to stop
    records   \* what the history says of each scan

vars == <<phase, told, records>>

UnderWay(j) == phase[j] \in {"accepted", "begun"}
Move(j, p) == phase' = [phase EXCEPT ![j] = p]

Init ==
    /\ phase = [j \in Jobs |-> "new"]
    /\ told = {}
    /\ records = [j \in Jobs |-> <<>>]

Accept(j) ==
    /\ phase[j] = "new"
    /\ \A k \in Jobs : UnderWay(k) => k \in told
    /\ Move(j, "accepted")
    /\ UNCHANGED <<told, records>>

\* A scan that was told to stop may hold the slot beyond its end.
Refuse(j) ==
    /\ phase[j] = "new"
    /\ \E k \in Jobs : UnderWay(k) \/ k \in told
    /\ Move(j, "refused")
    /\ UNCHANGED <<told, records>>

Tell(j) ==
    /\ phase[j] \notin {"new", "refused"}
    /\ told' = told \cup {j}
    /\ UNCHANGED <<phase, records>>

Begin(j) ==
    /\ phase[j] = "accepted"
    /\ Move(j, "begun")
    /\ UNCHANGED <<told, records>>

Drop(j) ==
    /\ phase[j] = "accepted"
    /\ j \in told \/ MaySubmitFail
    /\ Move(j, "over")
    /\ \/ UNCHANGED records
       \/ MaySubmitFail /\ records' = [records EXCEPT ![j] = Append(@, "failed")]
    /\ UNCHANGED told

Finish(j, outcome) ==
    /\ phase[j] = "begun"
    /\ outcome = "cancelled" => j \in told
    /\ Move(j, "over")
    /\ records' = [records EXCEPT ![j] = Append(@, outcome)]
    /\ UNCHANGED told

Next ==
    \E j \in Jobs :
        \/ Accept(j) \/ Refuse(j) \/ Tell(j) \/ Begin(j) \/ Drop(j)
        \/ \E outcome \in {"completed", "cancelled", "failed"} : Finish(j, outcome)

Spec == Init /\ [][Next]_vars

=============================================================================
