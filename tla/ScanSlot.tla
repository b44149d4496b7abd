------------------------------ MODULE ScanSlot ------------------------------
(***************************************************************************)
(* The scan slot of sentinelld (src/crates/sentinelld/src/ipc/state.rs):   *)
(* scan.start reserves the one active-scan slot and hands the job to the   *)
(* orchestrator (or, for legacy scans, to a thread of its own), scan.cancel*)
(* flips the job's flag and status, and the worker moves the job to a      *)
(* terminal status, which releases the slot.                               *)
(*                                                                         *)
(* A job's status exists twice: in the slot (Inner.active_scan, under the  *)
(* inner lock) and in its live state (ScanLiveState.status, an atomic the  *)
(* UI reads through scan_live).  The two are written by different steps,   *)
(* with no lock held across them, so each write is an action here.         *)
(***************************************************************************)
EXTENDS Integers, Sequences, FiniteSets

CONSTANTS
    Jobs,           \* scan.start calls that get as far as a reservation
    Mode,           \* how each is run: see Modes
    Cancels,        \* scan.cancel calls
    ManualWorkers,  \* MANUAL_WORKERS, the orchestrator's manual pool
    MaySubmitFail,  \* whether orchestrator.submit may fail
    MayTimeOut,     \* whether a job may outlive the watchdog's timeout
    None

\* "file": orchestrated file scan; "tree": orchestrated folder, quick or full
\* scan; "legacy": the same walk on a thread of its own.
Modes == {"file", "tree", "legacy"}

ASSUME ScanSlotAssumption ==
    /\ Mode \in [Jobs -> Modes]
    /\ ManualWorkers \in Nat
    /\ {MaySubmitFail, MayTimeOut} \subseteq BOOLEAN
    /\ None \notin Jobs \cup Cancels
    /\ IsFiniteSet(Jobs)

VARIABLES
    slot,      \* Inner.active_scan: its job and status, or NoScan
    live,      \* ScanLiveState.status of each job
    flagged,   \* jobs whose cancel_flag is set (slot, live state and token
               \* share the one flag)
    scanLive,  \* AppState.scan_live: the job whose live state the UI reads
    liveLock,  \* the cancel call that holds the scan_live lock
    history,   \* Inner.scan_history: the records pushed for each job
    pc,        \* how far each job is
    cpc,       \* how far each cancel call is
    target,    \* the job a cancel call found
    next       \* the status it decided on

vars == <<slot, live, flagged, scanLive, liveLock, history, pc, cpc, target,
          next>>
cancelVars == <<liveLock, cpc, target, next>>

Statuses == {"pending", "running", "draining", "completed", "cancelled",
             "failed"}
Terminal == {"completed", "cancelled", "failed"}

NoScan == [job |-> None, status |-> "completed"]

\* Where the slot's job is j, its status becomes s (the job-id guard).
SlotWith(j, s) == IF slot.job = j THEN [slot EXCEPT !.status = s] ELSE slot

Init ==
    /\ slot = NoScan
    /\ live = [j \in Jobs |-> "pending"]
    /\ flagged = {}
    /\ scanLive = None
    /\ liveLock = None
    /\ history = [j \in Jobs |-> <<>>]
    /\ pc = [j \in Jobs |-> "new"]
    /\ cpc = [c \in Cancels |-> "idle"]
    /\ target = [c \in Cancels |-> None]
    /\ next = [c \in Cancels |-> "pending"]

Goto(j, l) == pc' = [pc EXCEPT ![j] = l]
Record(j, s) == history' = [history EXCEPT ![j] = Append(@, s)]

-----------------------------------------------------------------------------
(* scan.start.                                                             *)

\* reserve_active_scan: check and reserve under the inner lock.  A legacy job
\* starts as running, an orchestrated one as pending.
Reserve(j) ==
    /\ pc[j] = "new"
    /\ IF slot.status \in Terminal
       THEN /\ slot' = [job |-> j,
                        status |-> IF Mode[j] = "legacy" THEN "running" ELSE "pending"]
            /\ Goto(j, IF Mode[j] = "legacy" THEN "spawned" ELSE "reserved")
       ELSE /\ Goto(j, "rejected")
            /\ UNCHANGED slot
    /\ UNCHANGED <<live, flagged, scanLive, history, cancelVars>>

\* Only then publish the live state, under a lock of its own.
InstallLive(j) ==
    /\ pc[j] = "reserved"
    /\ liveLock = None
    /\ scanLive' = j
    /\ Goto(j, "installed")
    /\ UNCHANGED <<slot, live, flagged, history, cancelVars>>

SubmitOk(j) ==
    /\ pc[j] = "installed"
    /\ Goto(j, "queued")
    /\ UNCHANGED <<slot, live, flagged, scanLive, history, cancelVars>>

\* The queue is saturated: a file scan goes through its failure completer,
\* which leaves the live state alone ...
FileSubmitFails(j) ==
    /\ pc[j] = "installed"
    /\ Mode[j] = "file"
    /\ MaySubmitFail
    /\ slot' = SlotWith(j, "failed")
    /\ Record(j, "failed")
    /\ Goto(j, "done")
    /\ UNCHANGED <<live, flagged, scanLive, cancelVars>>

\* ... the other scans mark the live state first, then the slot.
TreeSubmitFails(j) ==
    /\ pc[j] = "installed"
    /\ Mode[j] = "tree"
    /\ MaySubmitFail
    /\ live' = [live EXCEPT ![j] = "failed"]
    /\ Goto(j, "submit_failed")
    /\ UNCHANGED <<slot, flagged, scanLive, history, cancelVars>>

\* Mutant: the slot of a failed submission is not released.
FailSubmitLiveOnly(j) ==
    /\ pc[j] = "submit_failed"
    /\ Goto(j, "done")
    /\ UNCHANGED <<slot, live, flagged, scanLive, history, cancelVars>>

FailSubmit(j) ==
    /\ pc[j] = "submit_failed"
    /\ slot' = SlotWith(j, "failed")
    /\ Goto(j, "done")
    /\ UNCHANGED <<live, flagged, scanLive, history, cancelVars>>

-----------------------------------------------------------------------------
(* The worker, common to all orchestrated jobs.                            *)

WorkerPoints ==
    {"taken", "start", "started", "scan", "erred", "cancelled", "scanned",
     "walked", "walked_cancelled", "finished", "settled", "settled_cancelled",
     "settled_completed"}

\* A worker of the pool takes the job and publishes its token.
Take(j) ==
    /\ pc[j] = "queued"
    /\ Cardinality({k \in Jobs : Mode[k] # "legacy" /\ pc[k] \in WorkerPoints})
          < ManualWorkers
    /\ Goto(j, "taken")
    /\ UNCHANGED <<slot, live, flagged, scanLive, history, cancelVars>>

\* The entry test of the token.  A cancelled file scan is completed as
\* cancelled, any other returns without a trace.
Enter(j) ==
    /\ pc[j] = "taken"
    /\ Goto(j, CASE j \notin flagged -> "start"
                 [] j \in flagged /\ Mode[j] = "file" -> "cancelled"
                 [] OTHER -> "done")
    /\ UNCHANGED <<slot, live, flagged, scanLive, history, cancelVars>>

\* Mark the live state running, whatever it says now.
Start(j) ==
    /\ pc[j] = "start"
    /\ live' = [live EXCEPT ![j] = "running"]
    /\ Goto(j, IF Mode[j] = "file" THEN "started" ELSE "scan")
    /\ UNCHANGED <<slot, flagged, scanLive, history, cancelVars>>

\* Only a file scan marks the slot running as well.
StartSlot(j) ==
    /\ pc[j] = "started"
    /\ slot' = SlotWith(j, "running")
    /\ Goto(j, "scan")
    /\ UNCHANGED <<live, flagged, scanLive, history, cancelVars>>

\* One job of the orchestrator is a whole scan: past the timeout the watchdog
\* sets the flag of the job whose token is published (Orchestrator, CancelJob).
WatchdogCancel(j) ==
    /\ MayTimeOut
    /\ Mode[j] # "legacy"
    /\ pc[j] \in WorkerPoints
    /\ j \notin flagged
    /\ flagged' = flagged \cup {j}
    /\ UNCHANGED <<slot, live, scanLive, history, pc, cancelVars>>

-----------------------------------------------------------------------------
(* run_orchestrated_file_scan after its start.                             *)

\* The file is missing or excluded: slot and history first, live state after.
FileErrs(j) ==
    /\ pc[j] = "scan"
    /\ Mode[j] = "file"
    /\ slot' = SlotWith(j, "failed")
    /\ Record(j, "failed")
    /\ Goto(j, "erred")
    /\ UNCHANGED <<live, flagged, scanLive, cancelVars>>

FileErrorLive(j) ==
    /\ pc[j] = "erred"
    /\ live' = [live EXCEPT ![j] = "failed"]
    /\ Goto(j, "done")
    /\ UNCHANGED <<slot, flagged, scanLive, history, cancelVars>>

\* ClamAV and ARGUS each run, then the token is tested.
FileScanned(j) ==
    /\ pc[j] = "scan"
    /\ Mode[j] = "file"
    /\ Goto(j, IF j \in flagged THEN "cancelled" ELSE "scanned")
    /\ UNCHANGED <<slot, live, flagged, scanLive, history, cancelVars>>

FileSuccessLive(j) ==
    /\ pc[j] = "scanned"
    /\ live' = [live EXCEPT ![j] = "completed"]
    /\ Goto(j, "finished")
    /\ UNCHANGED <<slot, flagged, scanLive, history, cancelVars>>

\* complete_orchestrated_file_success: the record is "failed" when the engine
\* returned an error, the slot is completed either way.
FileSuccess(j) ==
    /\ pc[j] = "finished"
    /\ Mode[j] = "file"
    /\ slot' = SlotWith(j, "completed")
    /\ \E s \in {"completed", "failed"} : Record(j, s)
    /\ Goto(j, "done")
    /\ UNCHANGED <<live, flagged, scanLive, cancelVars>>

\* complete_orchestrated_file_cancelled, live state then slot.
FileCancelledLive(j) ==
    /\ pc[j] = "cancelled"
    /\ live' = [live EXCEPT ![j] = "cancelled"]
    /\ Goto(j, "settled")
    /\ UNCHANGED <<slot, flagged, scanLive, history, cancelVars>>

FileCancelled(j) ==
    /\ pc[j] = "settled"
    /\ slot' = SlotWith(j, "cancelled")
    /\ Record(j, "cancelled")
    /\ Goto(j, "done")
    /\ UNCHANGED <<live, flagged, scanLive, cancelVars>>

-----------------------------------------------------------------------------
(* folder_scan_worker_inner.                                               *)

\* A legacy scan publishes its live state from its own thread.
LegacyStart(j) ==
    /\ pc[j] = "spawned"
    /\ liveLock = None
    /\ live' = [live EXCEPT ![j] = "running"]
    /\ scanLive' = j
    /\ Goto(j, "scan")
    /\ UNCHANGED <<slot, flagged, history, cancelVars>>

\* Mutant: a cancelled walk returns without a trace.
TreeScannedReturns(j) ==
    /\ pc[j] = "scan"
    /\ Mode[j] # "file"
    /\ Goto(j, IF j \in flagged THEN "done" ELSE "walked")
    /\ UNCHANGED <<slot, live, flagged, scanLive, history, cancelVars>>

\* The walk is over: the live status follows the flag ...
TreeScanned(j) ==
    /\ pc[j] = "scan"
    /\ Mode[j] # "file"
    /\ Goto(j, IF j \in flagged THEN "walked_cancelled" ELSE "walked")
    /\ UNCHANGED <<slot, live, flagged, scanLive, history, cancelVars>>

TreeScannedLive(j) ==
    /\ pc[j] \in {"walked", "walked_cancelled"}
    /\ live' = [live EXCEPT ![j] =
                  IF pc[j] = "walked" THEN "completed" ELSE "cancelled"]
    /\ Goto(j, "finished")
    /\ UNCHANGED <<slot, flagged, scanLive, history, cancelVars>>

\* ... which is read a second time for the slot and the history.
TreeReadFlag(j) ==
    /\ pc[j] = "finished"
    /\ Mode[j] # "file"
    /\ Goto(j, IF j \in flagged THEN "settled_cancelled" ELSE "settled_completed")
    /\ UNCHANGED <<slot, live, flagged, scanLive, history, cancelVars>>

TreeSettles(j) ==
    /\ pc[j] \in {"settled_cancelled", "settled_completed"}
    /\ LET s == IF pc[j] = "settled_cancelled" THEN "cancelled" ELSE "completed"
       IN  slot' = SlotWith(j, s) /\ Record(j, s)
    /\ Goto(j, "done")
    /\ UNCHANGED <<live, flagged, scanLive, cancelVars>>

-----------------------------------------------------------------------------
(* scan.cancel.                                                            *)

\* The handler calls cancel_scan only if scan_status shows a scan.  It reads
\* the live state, or the slot when there is none or its try_lock fails: a
\* cancel call or another reader has the lock.
CheckStatus(c) ==
    /\ cpc[c] = "idle"
    /\ \E readLive \in {FALSE, scanLive # None /\ liveLock = None} :
          LET shown == IF readLive
                       THEN live[scanLive] \in {"pending", "running", "draining"}
                       ELSE slot.status \in {"pending", "running"}
          IN  cpc' = [cpc EXCEPT ![c] = IF shown THEN "cancel" ELSE "nothing"]
    /\ UNCHANGED <<slot, live, flagged, scanLive, liveLock, history, pc,
                   target, next>>

\* cancel_transition: only pending and running jobs can be cancelled.
Cancellable == {"pending", "running"}
CancelTransition(s) == IF s = "pending" THEN "cancelled" ELSE "draining"

\* cancel_scan locks scan_live for the whole call and decides on the live
\* status.
Decide(c) ==
    /\ cpc[c] = "cancel"
    /\ liveLock = None
    /\ scanLive # None
    /\ IF live[scanLive] \in Cancellable
       THEN /\ liveLock' = c
            /\ target' = [target EXCEPT ![c] = scanLive]
            /\ next' = [next EXCEPT ![c] = CancelTransition(live[scanLive])]
            /\ cpc' = [cpc EXCEPT ![c] = "flag"]
       ELSE /\ cpc' = [cpc EXCEPT ![c] = "refused"]
            /\ UNCHANGED <<liveLock, target, next>>
    /\ UNCHANGED <<slot, live, flagged, scanLive, history, pc>>

SetFlag(c) ==
    /\ cpc[c] = "flag"
    /\ flagged' = flagged \cup {target[c]}
    /\ cpc' = [cpc EXCEPT ![c] = "live"]
    /\ UNCHANGED <<slot, live, scanLive, liveLock, history, pc, target, next>>

SetLive(c) ==
    /\ cpc[c] = "live"
    /\ live' = [live EXCEPT ![target[c]] = next[c]]
    /\ cpc' = [cpc EXCEPT ![c] = "slot"]
    /\ UNCHANGED <<slot, flagged, scanLive, liveLock, history, pc, target, next>>

SetSlot(c) ==
    /\ cpc[c] = "slot"
    /\ slot' = SlotWith(target[c], next[c])
    /\ liveLock' = None
    /\ cpc' = [cpc EXCEPT ![c] = "accepted"]
    /\ UNCHANGED <<live, flagged, scanLive, history, pc, target, next>>

\* Without a live state the slot decides, under the inner lock.
Fallback(c) ==
    /\ cpc[c] = "cancel"
    /\ liveLock = None
    /\ scanLive = None
    /\ IF slot.status \in Cancellable
       THEN /\ flagged' = flagged \cup {slot.job}
            /\ slot' = [slot EXCEPT !.status = CancelTransition(@)]
            /\ target' = [target EXCEPT ![c] = slot.job]
            /\ cpc' = [cpc EXCEPT ![c] = "accepted"]
       ELSE /\ cpc' = [cpc EXCEPT ![c] = "refused"]
            /\ UNCHANGED <<flagged, slot, target>>
    /\ UNCHANGED <<live, scanLive, liveLock, history, pc, next>>

-----------------------------------------------------------------------------
Starter(j) ==
    \/ InstallLive(j) \/ SubmitOk(j) \/ FileSubmitFails(j)
    \/ TreeSubmitFails(j) \/ FailSubmit(j)

Runner(j) ==
    \/ Take(j) \/ Enter(j) \/ Start(j) \/ StartSlot(j) \/ FileErrs(j)
    \/ FileErrorLive(j) \/ FileScanned(j) \/ FileSuccessLive(j)
    \/ FileSuccess(j) \/ FileCancelledLive(j) \/ FileCancelled(j)
    \/ LegacyStart(j) \/ TreeScanned(j) \/ TreeScannedLive(j)
    \/ TreeReadFlag(j) \/ TreeSettles(j)

CancelCall(c) ==
    \/ Decide(c) \/ SetFlag(c) \/ SetLive(c) \/ SetSlot(c) \/ Fallback(c)

Next ==
    \/ \E j \in Jobs : Reserve(j) \/ Starter(j) \/ Runner(j) \/ WatchdogCancel(j)
    \/ \E c \in Cancels : CheckStatus(c) \/ CancelCall(c)

Spec == Init /\ [][Next]_vars

\* Every thread that is inside a call or a job is scheduled.
Fairness ==
    /\ \A j \in Jobs : WF_vars(Starter(j)) /\ WF_vars(Runner(j))
    /\ \A c \in Cancels : WF_vars(CancelCall(c))

FairSpec == Spec /\ Fairness

-----------------------------------------------------------------------------
(* Properties.                                                             *)

JobPoints ==
    {"new", "rejected", "spawned", "reserved", "installed", "submit_failed",
     "queued", "done"} \cup WorkerPoints

CancelPoints ==
    {"idle", "nothing", "cancel", "flag", "live", "slot", "accepted", "refused"}

TypeOK ==
    /\ slot \in [job : Jobs \cup {None}, status : Statuses]
    /\ live \in [Jobs -> Statuses]
    /\ flagged \subseteq Jobs
    /\ scanLive \in Jobs \cup {None}
    /\ liveLock \in Cancels \cup {None}
    /\ history \in [Jobs -> Seq(Statuses)]
    /\ pc \in [Jobs -> JobPoints]
    /\ cpc \in [Cancels -> CancelPoints]
    /\ target \in [Cancels -> Jobs \cup {None}]
    /\ next \in [Cancels -> Statuses]

\* The job has reserved the slot and has still to release it.
InProgress(j) == pc[j] \notin {"new", "rejected", "erred", "done"}

\* The slot serialises scans: of two scans under way at the same time, at
\* least one has been told to stop.  (A cancelled pending job gives the slot
\* up at once, so two may overlap; two uncancelled ones never do.)
OneUncancelledScan ==
    \A j, k \in Jobs :
        InProgress(j) /\ InProgress(k) /\ {j, k} \cap flagged = {} => j = k

\* What the callers see of a scan: it is accepted when the slot is reserved,
\* begins when a worker takes it, and is over when the slot is released.
PhaseAt(point) ==
    CASE point = "new" -> "new"
      [] point = "rejected" -> "refused"
      [] point \in {"spawned", "reserved", "installed", "submit_failed", "queued",
                   "taken"} -> "accepted"
      [] point \in {"erred", "done"} -> "over"
      [] OTHER -> "begun"

Phase == [j \in Jobs |-> PhaseAt(pc[j])]

Promise ==
    INSTANCE ScanPromise WITH phase <- Phase, told <- flagged, records <- history

\* The slot, the live states, the flags and the locks together keep what
\* ScanPromise promises of scans, cancels and the history.
KeepsPromise == Promise!Spec

\* No reservation is for ever: a failed submission, an error or a result all
\* release the slot, so that the next scan.start can have it.  (Where somebody
\* cancels, SlotNotStranded tells what can happen.)
SlotReleased ==
    slot.status \notin Terminal ~> slot.status \in Terminal \/ flagged # {}

\* "nothing would ever move the job out of Draining ... the decision has to
\* happen here, under the same critical section as the transition": a slot
\* that is not in a terminal status has a worker, or a call, that will move it.
SlotNotStranded ==
    slot.status \notin Terminal =>
        \/ InProgress(slot.job)
        \/ \E c \in Cancels : cpc[c] \in {"flag", "live", "slot"}

=============================================================================
