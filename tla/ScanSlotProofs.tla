--------------------------- MODULE ScanSlotProofs ---------------------------
(***************************************************************************)
(* Proofs about the scan slot, for any number of scans and cancel calls,   *)
(* any size of the worker pool and any failure of submit: its invariants,  *)
(* and that it implements ScanPromise.                                     *)
(***************************************************************************)
EXTENDS ScanSlot, TLAPS

\* What serialises the scans: a scan that is under way and has not been told
\* to stop holds the slot, in a status that refuses every other reservation.
HoldsSlot ==
    \A j \in Jobs :
        InProgress(j) /\ j \notin flagged =>
            slot.job = j /\ slot.status \notin Terminal

\* A cancel call is past its flag store only with the flag set, and it has a
\* target from the moment it decided.
CancelOK ==
    \A c \in Cancels :
        /\ cpc[c] \in {"flag", "live", "slot"} => target[c] \in Jobs
        /\ cpc[c] \in {"live", "slot"} => target[c] \in flagged

\* The points that only a cancelled scan reaches.
PointOK ==
    \A j \in Jobs :
        /\ pc[j] \in {"cancelled", "settled", "settled_cancelled"} => j \in flagged
        /\ pc[j] = "erred" => Mode[j] = "file"

\* A slot in use names a job.
SlotOK == slot.status \notin Terminal => slot.job \in Jobs

SlotInv == TypeOK /\ HoldsSlot /\ CancelOK /\ PointOK /\ SlotOK

LEMMA InitSlotInv == Init => SlotInv
BY ScanSlotAssumption
   DEF Init, SlotInv, TypeOK, HoldsSlot, CancelOK, PointOK, SlotOK, InProgress,
       NoScan, Terminal, Statuses, JobPoints, WorkerPoints, CancelPoints

LEMMA StepTypeOK == SlotInv /\ [Next]_vars => TypeOK'
<1> SUFFICES ASSUME SlotInv, [Next]_vars PROVE TypeOK'
    OBVIOUS
<1> USE ScanSlotAssumption
    DEF SlotInv, CancelOK, TypeOK, Statuses, JobPoints, WorkerPoints, CancelPoints,
        cancelVars, Goto, Record, SlotWith, Terminal, Cancellable
<1>0. ASSUME NEW j \in Jobs, NEW s \in Statuses, Record(j, s)
      PROVE  history' \in [Jobs -> Seq(Statuses)]
  <2>1. Append(history[j], s) \in Seq(Statuses)
      OBVIOUS
  <2> QED BY <1>0, <2>1
<1>1. ASSUME NEW j \in Jobs, Reserve(j) \/ WatchdogCancel(j) PROVE TypeOK'
  <2>1. CASE Reserve(j)
    <3>1. CASE slot.status \in Terminal
      <4>1. UNCHANGED <<live, flagged, scanLive, history, cancelVars>>
          BY <2>1 DEF Reserve
      <4>2. CASE Mode[j] = "legacy"
        <5>1. /\ slot' = [job |-> j, status |-> "running"]
              /\ pc' = [pc EXCEPT ![j] = "spawned"]
            BY <2>1, <3>1, <4>2 DEF Reserve
        <5>2. slot' \in [job : Jobs \cup {None}, status : Statuses]
            BY <5>1
        <5> QED BY <4>1, <5>1, <5>2
      <4>3. CASE Mode[j] # "legacy"
        <5>1. /\ slot' = [job |-> j, status |-> "pending"]
              /\ pc' = [pc EXCEPT ![j] = "reserved"]
            BY <2>1, <3>1, <4>3 DEF Reserve
        <5>2. slot' \in [job : Jobs \cup {None}, status : Statuses]
            BY <5>1
        <5> QED BY <4>1, <5>1, <5>2
      <4> QED BY <4>2, <4>3
    <3>2. CASE slot.status \notin Terminal BY <2>1, <3>2 DEF Reserve
    <3> QED BY <3>1, <3>2
  <2>2. CASE WatchdogCancel(j) BY <2>2 DEF WatchdogCancel
  <2> QED BY <1>1, <2>1, <2>2
<1>2. ASSUME NEW j \in Jobs, Starter(j) PROVE TypeOK'
  <2>1. CASE InstallLive(j) BY <2>1 DEF InstallLive
  <2>2. CASE SubmitOk(j) BY <2>2 DEF SubmitOk
  <2>3. CASE FileSubmitFails(j) BY <1>0, <2>3 DEF FileSubmitFails
  <2>4. CASE TreeSubmitFails(j) BY <2>4 DEF TreeSubmitFails
  <2>5. CASE FailSubmit(j) BY <2>5 DEF FailSubmit
  <2> QED BY <1>2, <2>1, <2>2, <2>3, <2>4, <2>5 DEF Starter
<1>3. ASSUME NEW j \in Jobs, Runner(j) PROVE TypeOK'
  <2>1. CASE Take(j) BY <2>1 DEF Take
  <2>2. CASE Enter(j) BY <2>2 DEF Enter
  <2>3. CASE Start(j) BY <2>3 DEF Start
  <2>4. CASE StartSlot(j) BY <2>4 DEF StartSlot
  <2>5. CASE FileErrs(j) BY <1>0, <2>5 DEF FileErrs
  <2>6. CASE FileErrorLive(j) BY <2>6 DEF FileErrorLive
  <2>7. CASE FileScanned(j) BY <2>7 DEF FileScanned
  <2>8. CASE FileSuccess(j)
    <3>1. history' \in [Jobs -> Seq(Statuses)]
      <4>1. PICK s \in {"completed", "failed"} : Record(j, s)
          BY <2>8 DEF FileSuccess
      <4> QED BY <1>0, <4>1
    <3> QED BY <2>8, <3>1 DEF FileSuccess
  <2>9. CASE FileCancelledLive(j) BY <2>9 DEF FileCancelledLive
  <2>10. CASE FileCancelled(j) BY <1>0, <2>10 DEF FileCancelled
  <2>11. CASE LegacyStart(j) BY <2>11 DEF LegacyStart
  <2>12. CASE TreeScanned(j) BY <2>12 DEF TreeScanned
  <2>13. CASE TreeReadFlag(j) BY <2>13 DEF TreeReadFlag
  <2>14. CASE TreeSettles(j) BY <1>0, <2>14 DEF TreeSettles
  <2>15. CASE FileSuccessLive(j) BY <2>15 DEF FileSuccessLive
  <2>16. CASE TreeScannedLive(j) BY <2>16 DEF TreeScannedLive
  <2> QED BY <1>3, <2>1, <2>2, <2>3, <2>4, <2>5, <2>6, <2>7, <2>8, <2>9,
             <2>10, <2>11, <2>12, <2>13, <2>14, <2>15, <2>16 DEF Runner
<1>4. ASSUME NEW c \in Cancels, CheckStatus(c) \/ CancelCall(c) PROVE TypeOK'
  <2>1. CASE CheckStatus(c) BY <2>1 DEF CheckStatus
  <2>2. CASE Decide(c)
    <3>1. scanLive \in Jobs BY <2>2 DEF Decide
    <3>2. CancelTransition(live[scanLive]) \in Statuses BY DEF CancelTransition
    <3>3. CASE live[scanLive] \in Cancellable
      <4>1. /\ liveLock' = c
            /\ target' = [target EXCEPT ![c] = scanLive]
            /\ next' = [next EXCEPT ![c] = CancelTransition(live[scanLive])]
            /\ cpc' = [cpc EXCEPT ![c] = "flag"]
          BY <2>2, <3>3 DEF Decide
      <4> QED BY <2>2, <3>1, <3>2, <4>1 DEF Decide
    <3>4. CASE live[scanLive] \notin Cancellable BY <2>2, <3>4 DEF Decide
    <3> QED BY <3>3, <3>4
  <2>3. CASE SetFlag(c) BY <2>3 DEF SetFlag
  <2>4. CASE SetLive(c) BY <2>4 DEF SetLive
  <2>5. CASE SetSlot(c) BY <2>5 DEF SetSlot
  <2>6. CASE Fallback(c)
    <3>1. CASE slot.status \in Cancellable
      <4>1. slot.job \in Jobs BY <3>1 DEF SlotOK
      <4>2. slot' = [slot EXCEPT !.status = CancelTransition(@)]
          BY <2>6, <3>1 DEF Fallback
      <4>3. slot' \in [job : Jobs \cup {None}, status : Statuses]
          BY <4>2 DEF CancelTransition
      <4>4. flagged' \subseteq Jobs BY <2>6, <3>1, <4>1 DEF Fallback
      <4>5. target' \in [Cancels -> Jobs \cup {None}]
        <5>1. target' = [target EXCEPT ![c] = slot.job]
            BY <2>6, <3>1 DEF Fallback
        <5> QED BY <4>1, <5>1
      <4>6. cpc' \in [Cancels -> CancelPoints]
          BY <2>6, <3>1 DEF Fallback
      <4> QED BY <2>6, <4>3, <4>4, <4>5, <4>6 DEF Fallback
    <3>2. CASE slot.status \notin Cancellable BY <2>6, <3>2 DEF Fallback
    <3> QED BY <3>1, <3>2
  <2> QED BY <1>4, <2>1, <2>2, <2>3, <2>4, <2>5, <2>6 DEF CancelCall
<1>5. CASE UNCHANGED vars
    BY <1>5 DEF vars
<1> QED BY <1>1, <1>2, <1>3, <1>4, <1>5 DEF Next

LEMMA StepSlotInv == SlotInv /\ [Next]_vars => SlotInv'
<1> SUFFICES ASSUME SlotInv, [Next]_vars PROVE SlotInv'
    OBVIOUS
<1>0. TypeOK'
    BY StepTypeOK
<1> USE <1>0, ScanSlotAssumption
    DEF SlotInv, HoldsSlot, CancelOK, PointOK, SlotOK, TypeOK, InProgress,
        cancelVars, Goto, SlotWith
<1>1. ASSUME NEW j \in Jobs, Reserve(j) \/ WatchdogCancel(j) PROVE SlotInv'
  <2>1. CASE Reserve(j)
    <3>1. CASE slot.status \in Terminal
      <4>1. \A k \in Jobs : k # j /\ k \notin flagged => ~InProgress(k)
          BY <3>1
      <4>2. slot'.job = j /\ slot'.status \in {"running", "pending"}
          BY <2>1, <3>1 DEF Reserve
      <4>3. \A k \in Jobs \ {j} : pc'[k] = pc[k]
          BY <2>1 DEF Reserve
      <4>4. pc'[j] \in {"spawned", "reserved"}
          BY <2>1, <3>1 DEF Reserve
      <4>5. UNCHANGED <<flagged, cpc, target>>
          BY <2>1 DEF Reserve
      <4> QED BY <4>1, <4>2, <4>3, <4>4, <4>5 DEF Terminal
    <3>2. CASE slot.status \notin Terminal
      <4>1. pc' = [pc EXCEPT ![j] = "rejected"] /\ UNCHANGED <<slot, flagged, cpc, target>>
          BY <2>1, <3>2 DEF Reserve
      <4>2. \A k \in Jobs : InProgress(k)' => InProgress(k)
          BY <4>1
      <4> QED BY <4>1, <4>2
    <3> QED BY <3>1, <3>2
  <2>2. CASE WatchdogCancel(j) BY <2>2 DEF WatchdogCancel
  <2> QED BY <1>1, <2>1, <2>2
<1>2. ASSUME NEW j \in Jobs, Starter(j) PROVE SlotInv'
  <2>1. CASE InstallLive(j) BY <2>1 DEF InstallLive
  <2>2. CASE SubmitOk(j) BY <2>2 DEF SubmitOk
  <2>3. CASE FileSubmitFails(j) BY <2>3 DEF FileSubmitFails
  <2>4. CASE TreeSubmitFails(j) BY <2>4 DEF TreeSubmitFails
  <2>5. CASE FailSubmit(j) BY <2>5 DEF FailSubmit
  <2> QED BY <1>2, <2>1, <2>2, <2>3, <2>4, <2>5 DEF Starter
<1>3. ASSUME NEW j \in Jobs, Runner(j) PROVE SlotInv'
  <2>1. CASE Take(j) BY <2>1 DEF Take
  <2>2. CASE Enter(j)
    <3>1. CASE j \in flagged BY <2>2, <3>1 DEF Enter
    <3>2. CASE j \notin flagged BY <2>2, <3>2 DEF Enter
    <3> QED BY <3>1, <3>2
  <2>3. CASE Start(j) BY <2>3 DEF Start
  <2>4. CASE StartSlot(j) BY <2>4 DEF StartSlot, Terminal
  <2>5. CASE FileErrs(j) BY <2>5 DEF FileErrs
  <2>6. CASE FileErrorLive(j) BY <2>6 DEF FileErrorLive
  <2>7. CASE FileScanned(j)
    <3>1. CASE j \in flagged
      <4>1. pc' = [pc EXCEPT ![j] = "cancelled"] BY <2>7, <3>1 DEF FileScanned
      <4> QED BY <2>7, <3>1, <4>1 DEF FileScanned
    <3>2. CASE j \notin flagged
      <4>1. pc' = [pc EXCEPT ![j] = "scanned"] BY <2>7, <3>2 DEF FileScanned
      <4> QED BY <2>7, <3>2, <4>1 DEF FileScanned
    <3> QED BY <3>1, <3>2
  <2>8. CASE FileSuccess(j) BY <2>8 DEF FileSuccess
  <2>9. CASE FileCancelledLive(j) BY <2>9 DEF FileCancelledLive
  <2>10. CASE FileCancelled(j) BY <2>10 DEF FileCancelled
  <2>11. CASE LegacyStart(j) BY <2>11 DEF LegacyStart
  <2>12. CASE TreeScanned(j)
    <3>1. UNCHANGED <<slot, flagged, cpc, target>>
        BY <2>12 DEF TreeScanned
    <3>2. /\ pc[j] = "scan" /\ Mode[j] # "file"
          /\ pc' = [pc EXCEPT ![j] =
                      IF j \in flagged THEN "walked_cancelled" ELSE "walked"]
        BY <2>12 DEF TreeScanned
    <3>3. \A k \in Jobs : InProgress(k)' => InProgress(k)
        BY <3>2
    <3>4. PointOK'
        BY <3>1, <3>2
    <3> QED BY <3>1, <3>3, <3>4
  <2>13. CASE TreeReadFlag(j)
    <3>1. UNCHANGED <<slot, flagged, cpc, target>>
        BY <2>13 DEF TreeReadFlag
    <3>2. /\ pc[j] = "finished" /\ Mode[j] # "file"
          /\ pc' = [pc EXCEPT ![j] =
                      IF j \in flagged THEN "settled_cancelled" ELSE "settled_completed"]
        BY <2>13 DEF TreeReadFlag
    <3>3. \A k \in Jobs : InProgress(k)' => InProgress(k)
        BY <3>2
    <3>4. PointOK'
        BY <3>1, <3>2
    <3> QED BY <3>1, <3>3, <3>4
  <2>14. CASE TreeSettles(j) BY <2>14 DEF TreeSettles
  <2>15. CASE FileSuccessLive(j) BY <2>15 DEF FileSuccessLive
  <2>16. CASE TreeScannedLive(j) BY <2>16 DEF TreeScannedLive
  <2> QED BY <1>3, <2>1, <2>2, <2>3, <2>4, <2>5, <2>6, <2>7, <2>8, <2>9,
             <2>10, <2>11, <2>12, <2>13, <2>14, <2>15, <2>16 DEF Runner
<1>4. ASSUME NEW c \in Cancels, CheckStatus(c) \/ CancelCall(c) PROVE SlotInv'
  <2>1. CASE CheckStatus(c) BY <2>1 DEF CheckStatus
  <2>2. CASE Decide(c)
    <3>1. scanLive \in Jobs BY <2>2 DEF Decide
    <3>2. CASE live[scanLive] \in Cancellable
      <4>1. /\ UNCHANGED <<slot, flagged, pc>>
            /\ target' = [target EXCEPT ![c] = scanLive]
            /\ cpc' = [cpc EXCEPT ![c] = "flag"]
          BY <2>2, <3>2 DEF Decide
      <4> QED BY <3>1, <4>1
    <3>3. CASE live[scanLive] \notin Cancellable BY <2>2, <3>3 DEF Decide
    <3> QED BY <3>2, <3>3
  <2>3. CASE SetFlag(c) BY <2>3 DEF SetFlag
  <2>4. CASE SetLive(c) BY <2>4 DEF SetLive
  <2>5. CASE SetSlot(c) BY <2>5 DEF SetSlot
  <2>6. CASE Fallback(c)
    <3>1. CASE slot.status \in Cancellable
      <4>1. slot'.job = slot.job /\ slot.job \in flagged' /\ flagged \subseteq flagged'
          BY <2>6, <3>1 DEF Fallback
      <4>2. \A j \in Jobs : j \notin flagged' => ~InProgress(j)
          BY <4>1
      <4>3. UNCHANGED pc BY <2>6 DEF Fallback
      <4>4. CancelOK'
        <5>1. /\ cpc' = [cpc EXCEPT ![c] = "accepted"]
              /\ target' = [target EXCEPT ![c] = slot.job]
            BY <2>6, <3>1 DEF Fallback
        <5> QED BY <4>1, <5>1
      <4> QED BY <4>1, <4>2, <4>3, <4>4
    <3>2. CASE slot.status \notin Cancellable BY <2>6, <3>2 DEF Fallback
    <3> QED BY <3>1, <3>2
  <2> QED BY <1>4, <2>1, <2>2, <2>3, <2>4, <2>5, <2>6 DEF CancelCall
<1>5. CASE UNCHANGED vars
    BY <1>5 DEF vars
<1> QED BY <1>1, <1>2, <1>3, <1>4, <1>5 DEF Next

LEMMA SlotInvariant == Spec => []SlotInv
BY InitSlotInv, StepSlotInv, PTL DEF Spec

\* Every variable of the slot keeps its type.
THEOREM TypeCorrect == Spec => []TypeOK
<1>1. SlotInv => TypeOK BY DEF SlotInv
<1> QED BY <1>1, SlotInvariant, PTL

\* Two scans that nobody cancelled are never under way at the same time,
\* however starts, cancels, workers and the watchdog interleave.
THEOREM OneUncancelledScanHolds == Spec => []OneUncancelledScan
<1>1. SlotInv => OneUncancelledScan
    BY DEF SlotInv, HoldsSlot, OneUncancelledScan
<1> QED BY <1>1, SlotInvariant, PTL

-----------------------------------------------------------------------------
(* The scan slot keeps the promise of ScanPromise: each of its steps is a  *)
(* step of the abstract specification, or leaves the phases as they are.   *)


\* Whoever cancels, cancels a scan that was accepted.
KnownOK ==
    /\ slot.job # None => pc[slot.job] \notin {"new", "rejected"}
    /\ scanLive # None => pc[scanLive] \notin {"new", "rejected"}
    /\ \A c \in Cancels :
          target[c] # None => pc[target[c]] \notin {"new", "rejected"}

\* The slot refuses for the sake of a scan under way, or of a cancelled one.
HeldOK ==
    slot.status \notin Terminal => InProgress(slot.job) \/ slot.job \in flagged

SubmitOK ==
    \A j \in Jobs : pc[j] = "submit_failed" => MaySubmitFail

RefInv == SlotInv /\ KnownOK /\ HeldOK /\ SubmitOK

LEMMA InitRefInv == Init => RefInv
BY InitSlotInv, ScanSlotAssumption
   DEF Init, RefInv, KnownOK, HeldOK, SubmitOK, NoScan, Terminal

LEMMA StepRefInv == RefInv /\ [Next]_vars => RefInv'
<1> SUFFICES ASSUME RefInv, [Next]_vars PROVE RefInv'
    OBVIOUS
<1>0. SlotInv'
    BY StepSlotInv DEF RefInv
<1> USE <1>0, ScanSlotAssumption
    DEF RefInv, SlotInv, KnownOK, HeldOK, SubmitOK, SlotOK, CancelOK, TypeOK, InProgress,
        cancelVars, Goto, SlotWith
<1>1. ASSUME NEW j \in Jobs, Reserve(j) \/ WatchdogCancel(j) PROVE RefInv'
  <2>1. CASE Reserve(j)
    <3>1. CASE slot.status \in Terminal
      <4>1. /\ slot' = [job |-> j,
                        status |-> IF Mode[j] = "legacy" THEN "running" ELSE "pending"]
            /\ pc' = [pc EXCEPT ![j] =
                        IF Mode[j] = "legacy" THEN "spawned" ELSE "reserved"]
            /\ UNCHANGED <<flagged, scanLive, target>>
          BY <2>1, <3>1 DEF Reserve
      <4> QED BY <4>1
    <3>2. CASE slot.status \notin Terminal
      <4>1. /\ pc[j] = "new" /\ pc' = [pc EXCEPT ![j] = "rejected"]
            /\ UNCHANGED <<slot, flagged, scanLive, target>>
          BY <2>1, <3>2 DEF Reserve
      <4> QED BY <4>1
    <3> QED BY <3>1, <3>2
  <2>2. CASE WatchdogCancel(j) BY <2>2 DEF WatchdogCancel
  <2> QED BY <1>1, <2>1, <2>2
<1>2. ASSUME NEW j \in Jobs, Starter(j) PROVE RefInv'
  <2>1. CASE InstallLive(j) BY <2>1 DEF InstallLive
  <2>2. CASE SubmitOk(j) BY <2>2 DEF SubmitOk
  <2>3. CASE FileSubmitFails(j) BY <2>3 DEF FileSubmitFails, Terminal
  <2>4. CASE TreeSubmitFails(j) BY <2>4 DEF TreeSubmitFails
  <2>5. CASE FailSubmit(j) BY <2>5 DEF FailSubmit, Terminal
  <2> QED BY <1>2, <2>1, <2>2, <2>3, <2>4, <2>5 DEF Starter
<1>3. ASSUME NEW j \in Jobs, Runner(j) PROVE RefInv'
  <2>1. CASE Take(j) BY <2>1 DEF Take
  <2>2. CASE Enter(j)
    <3>1. CASE j \in flagged BY <2>2, <3>1 DEF Enter
    <3>2. CASE j \notin flagged BY <2>2, <3>2 DEF Enter
    <3> QED BY <3>1, <3>2
  <2>3. CASE Start(j) BY <2>3 DEF Start
  <2>4. CASE StartSlot(j) BY <2>4 DEF StartSlot
  <2>5. CASE FileErrs(j) BY <2>5 DEF FileErrs, Terminal
  <2>6. CASE FileErrorLive(j) BY <2>6 DEF FileErrorLive
  <2>7. CASE FileScanned(j) BY <2>7 DEF FileScanned
  <2>8. CASE FileSuccess(j) BY <2>8 DEF FileSuccess, Terminal
  <2>9. CASE FileCancelledLive(j) BY <2>9 DEF FileCancelledLive
  <2>10. CASE FileCancelled(j) BY <2>10 DEF FileCancelled, Terminal
  <2>11. CASE LegacyStart(j) BY <2>11 DEF LegacyStart
  <2>12. CASE TreeScanned(j) BY <2>12 DEF TreeScanned
  <2>13. CASE TreeReadFlag(j) BY <2>13 DEF TreeReadFlag
  <2>14. CASE TreeSettles(j) BY <2>14 DEF TreeSettles, Terminal
  <2>15. CASE FileSuccessLive(j) BY <2>15 DEF FileSuccessLive
  <2>16. CASE TreeScannedLive(j) BY <2>16 DEF TreeScannedLive
  <2> QED BY <1>3, <2>1, <2>2, <2>3, <2>4, <2>5, <2>6, <2>7, <2>8, <2>9,
             <2>10, <2>11, <2>12, <2>13, <2>14, <2>15, <2>16 DEF Runner
<1>4. ASSUME NEW c \in Cancels, CheckStatus(c) \/ CancelCall(c) PROVE RefInv'
  <2>1. CASE CheckStatus(c) BY <2>1 DEF CheckStatus
  <2>2. CASE Decide(c)
    <3>1. CASE live[scanLive] \in Cancellable BY <2>2, <3>1 DEF Decide
    <3>2. CASE live[scanLive] \notin Cancellable BY <2>2, <3>2 DEF Decide
    <3> QED BY <3>1, <3>2
  <2>3. CASE SetFlag(c) BY <2>3 DEF SetFlag
  <2>4. CASE SetLive(c) BY <2>4 DEF SetLive
  <2>5. CASE SetSlot(c) BY <2>5 DEF SetSlot
  <2>6. CASE Fallback(c)
    <3>1. CASE slot.status \in Cancellable
      <4>1. slot'.job = slot.job /\ slot.job \in flagged' /\ flagged \subseteq flagged'
          BY <2>6, <3>1 DEF Fallback
      <4>2. target' = [target EXCEPT ![c] = slot.job] /\ UNCHANGED <<pc, scanLive>>
          BY <2>6, <3>1 DEF Fallback
      <4> QED BY <4>1, <4>2
    <3>2. CASE slot.status \notin Cancellable BY <2>6, <3>2 DEF Fallback
    <3> QED BY <3>1, <3>2
  <2> QED BY <1>4, <2>1, <2>2, <2>3, <2>4, <2>5, <2>6 DEF CancelCall
<1>5. CASE UNCHANGED vars
    BY <1>5 DEF vars
<1> QED BY <1>1, <1>2, <1>3, <1>4, <1>5 DEF Next

LEMMA RefInvariant == Spec => []RefInv
BY InitRefInv, StepRefInv, PTL DEF Spec

-----------------------------------------------------------------------------
(* The steps of the scan slot, as steps of the promise.                    *)

\* A step of one job moves that job only.
LEMMA PhaseMoves ==
    ASSUME TypeOK, NEW j \in Jobs, NEW point \in JobPoints, Goto(j, point)
    PROVE  Phase' = [Phase EXCEPT ![j] = PhaseAt(point)]
BY DEF TypeOK, Goto, Phase

LEMMA PhaseStays == UNCHANGED pc => UNCHANGED Phase
BY DEF Phase

LEMMA UnderWayIsInProgress ==
    ASSUME TypeOK, NEW j \in Jobs
    PROVE  Promise!UnderWay(j) <=> InProgress(j)
BY DEF TypeOK, Promise!UnderWay, InProgress, Phase, PhaseAt, JobPoints, WorkerPoints

LEMMA StepKeepsPromise ==
    RefInv /\ [Next]_vars => [Promise!Next]_(Promise!vars)
<1> SUFFICES ASSUME RefInv, [Next]_vars PROVE Promise!Next \/ UNCHANGED Promise!vars
    OBVIOUS
<1> USE ScanSlotAssumption DEF RefInv, SlotInv
<1>0. /\ TypeOK
      /\ \A j \in Jobs, p \in JobPoints :
            Goto(j, p) => Phase' = [Phase EXCEPT ![j] = PhaseAt(p)]
      /\ \A j \in Jobs : Phase[j] = PhaseAt(pc[j])
    BY PhaseMoves DEF Phase
<1>s. ASSUME NEW j \in Jobs, NEW p \in JobPoints, Goto(j, p), PhaseAt(p) = Phase[j],
             UNCHANGED <<flagged, history>>
      PROVE  UNCHANGED Promise!vars
  <2>1. Phase' = Phase BY <1>0, <1>s DEF Phase
  <2> QED BY <2>1, <1>s DEF Promise!vars
<1>u. ASSUME UNCHANGED <<pc, flagged, history>> PROVE UNCHANGED Promise!vars
    BY <1>u, PhaseStays DEF Promise!vars
<1>1. ASSUME NEW j \in Jobs, Reserve(j) \/ WatchdogCancel(j)
      PROVE  Promise!Next \/ UNCHANGED Promise!vars
  <2>1. CASE Reserve(j)
    <3>1. UNCHANGED <<flagged, history>> /\ pc[j] = "new" /\ Phase[j] = "new"
        BY <2>1, <1>0 DEF Reserve, PhaseAt
    <3>2. CASE slot.status \in Terminal
      <4>1. \A k \in Jobs : Promise!UnderWay(k) => k \in flagged
          BY <3>2, UnderWayIsInProgress DEF HoldsSlot
      <4>2. PICK p \in {"spawned", "reserved"} : Goto(j, p)
          BY <2>1, <3>2 DEF Reserve
      <4>3. Phase' = [Phase EXCEPT ![j] = "accepted"]
          BY <1>0, <4>2 DEF PhaseAt, JobPoints
      <4>4. Promise!Accept(j)
          BY <3>1, <4>1, <4>3 DEF Promise!Accept, Promise!Move
      <4> QED BY <4>4 DEF Promise!Next
    <3>3. CASE slot.status \notin Terminal
      <4>1. slot.job \in Jobs /\ (Promise!UnderWay(slot.job) \/ slot.job \in flagged)
          BY <3>3, UnderWayIsInProgress DEF SlotOK, HeldOK
      <4>2. Phase' = [Phase EXCEPT ![j] = "refused"]
          BY <1>0, <2>1, <3>3 DEF Reserve, PhaseAt, JobPoints
      <4>3. Promise!Refuse(j)
          BY <3>1, <4>1, <4>2 DEF Promise!Refuse, Promise!Move
      <4> QED BY <4>3 DEF Promise!Next
    <3> QED BY <3>2, <3>3
  <2>2. CASE WatchdogCancel(j)
    <3>1. Phase[j] \notin {"new", "refused"}
        BY <2>2, <1>0 DEF WatchdogCancel, PhaseAt, WorkerPoints
    <3>2. Promise!Tell(j)
        BY <2>2, <3>1, PhaseStays DEF WatchdogCancel, Promise!Tell
    <3> QED BY <3>2 DEF Promise!Next
  <2> QED BY <1>1, <2>1, <2>2
<1>2. ASSUME NEW j \in Jobs, Starter(j) PROVE Promise!Next \/ UNCHANGED Promise!vars
  <2> USE DEF PhaseAt, JobPoints
  <2>1. CASE InstallLive(j) BY <2>1, <1>0, <1>s DEF InstallLive
  <2>2. CASE SubmitOk(j) BY <2>2, <1>0, <1>s DEF SubmitOk
  <2>3. CASE FileSubmitFails(j)
    <3>1. Phase[j] = "accepted" /\ Phase' = [Phase EXCEPT ![j] = "over"]
        BY <2>3, <1>0 DEF FileSubmitFails
    <3>2. Promise!Drop(j)
        BY <2>3, <3>1 DEF FileSubmitFails, Record, Promise!Drop, Promise!Move
    <3> QED BY <3>2 DEF Promise!Next
  <2>4. CASE TreeSubmitFails(j) BY <2>4, <1>0, <1>s DEF TreeSubmitFails
  <2>5. CASE FailSubmit(j)
    <3>1. Phase[j] = "accepted" /\ Phase' = [Phase EXCEPT ![j] = "over"]
        BY <2>5, <1>0 DEF FailSubmit
    <3>2. Promise!Drop(j)
        BY <2>5, <3>1 DEF FailSubmit, SubmitOK, Promise!Drop, Promise!Move
    <3> QED BY <3>2 DEF Promise!Next
  <2> QED BY <1>2, <2>1, <2>2, <2>3, <2>4, <2>5 DEF Starter
<1>e. ASSUME NEW j \in Jobs, NEW s \in {"completed", "cancelled", "failed"},
             Phase[j] = "begun", Phase' = [Phase EXCEPT ![j] = "over"],
             Record(j, s), UNCHANGED flagged, s = "cancelled" => j \in flagged
      PROVE  Promise!Next
  <2>1. Promise!Finish(j, s) BY <1>e DEF Record, Promise!Finish, Promise!Move
  <2> QED BY <2>1 DEF Promise!Next
<1>3. ASSUME NEW j \in Jobs, Runner(j) PROVE Promise!Next \/ UNCHANGED Promise!vars
  <2> USE DEF PhaseAt, JobPoints, WorkerPoints
  <2>1. CASE Take(j) BY <2>1, <1>0, <1>s DEF Take
  <2>2. CASE Enter(j)
    <3>1. UNCHANGED <<flagged, history>> /\ Phase[j] = "accepted"
        BY <2>2, <1>0 DEF Enter
    <3>2. CASE Goto(j, "done") /\ j \in flagged
      <4>1. Phase' = [Phase EXCEPT ![j] = "over"] BY <1>0, <3>2
      <4>2. Promise!Drop(j) BY <3>1, <3>2, <4>1 DEF Promise!Drop, Promise!Move
      <4> QED BY <4>2 DEF Promise!Next
    <3>3. CASE Goto(j, "start") \/ Goto(j, "cancelled")
      <4>1. Phase' = [Phase EXCEPT ![j] = "begun"] BY <1>0, <3>3
      <4>2. Promise!Begin(j) BY <3>1, <4>1 DEF Promise!Begin, Promise!Move
      <4> QED BY <4>2 DEF Promise!Next
    <3>4. \/ Goto(j, "done") /\ j \in flagged
          \/ Goto(j, "start") \/ Goto(j, "cancelled")
        BY <2>2 DEF Enter
    <3> QED BY <3>2, <3>3, <3>4
  <2>3. CASE Start(j)
    <3>1. CASE Mode[j] = "file" BY <2>3, <3>1, <1>0, <1>s DEF Start
    <3>2. CASE Mode[j] # "file" BY <2>3, <3>2, <1>0, <1>s DEF Start
    <3> QED BY <3>1, <3>2
  <2>4. CASE StartSlot(j) BY <2>4, <1>0, <1>s DEF StartSlot
  <2>5. CASE FileErrs(j) BY <2>5, <1>0, <1>e DEF FileErrs
  <2>6. CASE FileErrorLive(j) BY <2>6, <1>0, <1>s DEF FileErrorLive
  <2>7. CASE FileScanned(j)
    <3>1. CASE j \in flagged BY <2>7, <3>1, <1>0, <1>s DEF FileScanned
    <3>2. CASE j \notin flagged BY <2>7, <3>2, <1>0, <1>s DEF FileScanned
    <3> QED BY <3>1, <3>2
  <2>8. CASE FileSuccess(j)
    <3>1. PICK s \in {"completed", "failed"} : Record(j, s)
        BY <2>8 DEF FileSuccess
    <3>2. Phase[j] = "begun" /\ Phase' = [Phase EXCEPT ![j] = "over"]
        BY <2>8, <1>0 DEF FileSuccess
    <3> QED BY <2>8, <3>1, <3>2, <1>e DEF FileSuccess
  <2>9. CASE FileCancelledLive(j) BY <2>9, <1>0, <1>s DEF FileCancelledLive
  <2>10. CASE FileCancelled(j)
      BY <2>10, <1>0, <1>e DEF FileCancelled, PointOK
  <2>11. CASE LegacyStart(j)
    <3>1. Phase[j] = "accepted" /\ Phase' = [Phase EXCEPT ![j] = "begun"]
        BY <2>11, <1>0 DEF LegacyStart
    <3>2. Promise!Begin(j)
        BY <2>11, <3>1 DEF LegacyStart, Promise!Begin, Promise!Move
    <3> QED BY <3>2 DEF Promise!Next
  <2>12. CASE TreeScanned(j)
    <3>1. CASE j \in flagged BY <2>12, <3>1, <1>0, <1>s DEF TreeScanned
    <3>2. CASE j \notin flagged BY <2>12, <3>2, <1>0, <1>s DEF TreeScanned
    <3> QED BY <3>1, <3>2
  <2>13. CASE TreeReadFlag(j)
    <3>1. CASE j \in flagged BY <2>13, <3>1, <1>0, <1>s DEF TreeReadFlag
    <3>2. CASE j \notin flagged BY <2>13, <3>2, <1>0, <1>s DEF TreeReadFlag
    <3> QED BY <3>1, <3>2
  <2>14. CASE TreeSettles(j)
    <3>1. Phase[j] = "begun" /\ Phase' = [Phase EXCEPT ![j] = "over"]
        BY <2>14, <1>0 DEF TreeSettles
    <3>2. CASE pc[j] = "settled_cancelled"
        BY <2>14, <3>1, <3>2, <1>e DEF TreeSettles, PointOK
    <3>3. CASE pc[j] # "settled_cancelled"
        BY <2>14, <3>1, <3>3, <1>e DEF TreeSettles
    <3> QED BY <3>2, <3>3
  <2>15. CASE FileSuccessLive(j) BY <2>15, <1>0, <1>s DEF FileSuccessLive
  <2>16. CASE TreeScannedLive(j) BY <2>16, <1>0, <1>s DEF TreeScannedLive
  <2> QED BY <1>3, <2>1, <2>2, <2>3, <2>4, <2>5, <2>6, <2>7, <2>8, <2>9,
             <2>10, <2>11, <2>12, <2>13, <2>14, <2>15, <2>16 DEF Runner
<1>t. ASSUME NEW j \in Jobs, pc[j] \notin {"new", "rejected"}, UNCHANGED <<pc, history>>,
             flagged' = flagged \cup {j}
      PROVE  Promise!Next
  <2>1. Phase[j] \notin {"new", "refused"}
      BY <1>t, <1>0 DEF PhaseAt, TypeOK, JobPoints, WorkerPoints
  <2>2. Promise!Tell(j) BY <1>t, <2>1, PhaseStays DEF Promise!Tell
  <2> QED BY <2>2 DEF Promise!Next
<1>4. ASSUME NEW c \in Cancels, CheckStatus(c) \/ CancelCall(c)
      PROVE  Promise!Next \/ UNCHANGED Promise!vars
  <2>1. CASE CheckStatus(c) BY <2>1, <1>u DEF CheckStatus
  <2>2. CASE Decide(c) BY <2>2, <1>u DEF Decide
  <2>3. CASE SetFlag(c)
    <3>1. target[c] \in Jobs /\ pc[target[c]] \notin {"new", "rejected"}
        BY <2>3 DEF SetFlag, CancelOK, KnownOK
    <3> QED BY <2>3, <3>1, <1>t DEF SetFlag
  <2>4. CASE SetLive(c) BY <2>4, <1>u DEF SetLive
  <2>5. CASE SetSlot(c) BY <2>5, <1>u DEF SetSlot
  <2>6. CASE Fallback(c)
    <3>1. CASE slot.status \in Cancellable
      <4>1. slot.job \in Jobs /\ pc[slot.job] \notin {"new", "rejected"}
          BY <3>1 DEF SlotOK, KnownOK, Cancellable, Terminal
      <4> QED BY <2>6, <3>1, <4>1, <1>t DEF Fallback
    <3>2. CASE slot.status \notin Cancellable BY <2>6, <3>2, <1>u DEF Fallback
    <3> QED BY <3>1, <3>2
  <2> QED BY <1>4, <2>1, <2>2, <2>3, <2>4, <2>5, <2>6 DEF CancelCall
<1>5. CASE UNCHANGED vars
    BY <1>5, <1>u DEF vars
<1> QED BY <1>1, <1>2, <1>3, <1>4, <1>5 DEF Next

LEMMA InitKeepsPromise == Init => Promise!Init
BY DEF Init, Promise!Init, Phase, PhaseAt

\* The slot, the live states, the flags and the locks implement the promise of
\* ScanPromise: one scan that is not being stopped at a time, one record for
\* every scan that began, and no scan recorded as cancelled that nobody
\* cancelled.
THEOREM KeepsPromiseHolds == Spec => KeepsPromise
<1>1. RefInv /\ [Next]_vars => [Promise!Next]_(Promise!vars)
    BY StepKeepsPromise
<1> QED BY <1>1, InitKeepsPromise, RefInvariant, PTL DEF Spec, KeepsPromise, Promise!Spec

=============================================================================
