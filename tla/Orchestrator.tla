---------------------------- MODULE Orchestrator ----------------------------
(***************************************************************************)
(* The scan orchestrator of sentinelld (src/crates/sentinelld/src/         *)
(* orchestrator/mod.rs): bounded FIFO queues of scan jobs, one or more     *)
(* logical workers per queue, and a watchdog thread that cancels the job   *)
(* of a worker stuck past its timeout, leaks the stuck thread and spawns   *)
(* a replacement for it.                                                   *)
(*                                                                         *)
(* Everything the threads share is a set of independent atomics, so every  *)
(* atomic access that another thread can observe is an action of its own.  *)
(*                                                                         *)
(* The state of a logical worker (generation, job_started_ms,              *)
(* current_token, state, active_jobs) is shared by all the threads that    *)
(* were ever spawned for it.  The arm timestamp job_started_ms is only     *)
(* ever compared for equality and with the timeout, so it is abstracted to *)
(* the job that armed it (None is the code's 0) and "older than the        *)
(* timeout" to membership in the set overdue.                              *)
(***************************************************************************)
EXTENDS Integers, Sequences, FiniteSets, Functions

CONSTANTS
    Kinds,        \* QueueKind: the queues
    Workers,      \* logical workers (WorkerCtx.id)
    KindOf,       \* the queue a logical worker serves
    Jobs,         \* submitted closures, with their cancellation tokens
    JobKind,      \* the queue a job is submitted to
    Hanging,      \* jobs whose native call never returns
    Slow,         \* jobs that may outlive stuck_worker_timeout_sec
    Cancellable,  \* jobs whose owner may cancel them
    Threads,      \* operating-system threads
    FirstThread,  \* the thread make_queue spawns for each worker
    MaxLeaked,    \* MAX_LEAKED_WORKERS
    MaxDepth,     \* MAX_QUEUE_DEPTH
    None

ASSUME OrchestratorAssumption ==
    /\ KindOf \in [Workers -> Kinds]
    /\ JobKind \in [Jobs -> Kinds]
    /\ Slow \subseteq Jobs
    /\ Hanging \subseteq Slow
    /\ Cancellable \subseteq Jobs
    /\ FirstThread \in [Workers -> Threads]
    /\ \A v, w \in Workers : FirstThread[v] = FirstThread[w] => v = w
    /\ IsFiniteSet(Threads)
    /\ IsFiniteSet(Workers)
    /\ MaxLeaked \in Nat
    /\ MaxDepth \in Nat
    /\ None \notin Jobs \cup Workers

VARIABLES
    \* one queue per kind
    queue,         \* the mpsc channel
    depth,         \* QueueRuntime.depth
    \* one entry per job
    phase,         \* where the job's submit call or the job itself stands
    cancelled,     \* jobs whose token is cancelled
    overdue,       \* jobs armed for at least stuck_worker_timeout_sec
    \* one entry per logical worker, shared by its threads (WorkerCtx)
    generation,
    jobStarted,
    currentToken,
    activeJobs,
    state,
    \* one entry per thread
    pc,
    worker,        \* the logical worker the thread was spawned for
    myGen,         \* my_generation
    job,           \* the message the thread holds
    panicked,      \* threads whose job's catch_unwind returned an error
    \* process wide
    leaked,        \* LEAKED_WORKERS
    \* the watchdog thread
    wpc,
    todo,          \* workers the current pass has still to look at
    visiting,      \* the worker it looks at
    started,       \* its local copy of job_started_ms
    acted          \* the last arm stamp it acted on, per worker

queueVars    == <<queue, depth, phase>>
workerVars   == <<generation, jobStarted, currentToken, activeJobs, state>>
threadVars   == <<pc, worker, myGen, job, panicked>>
watchdogVars == <<wpc, todo, visiting, started, acted>>
vars == <<queueVars, cancelled, overdue, workerVars, threadVars, leaked,
          watchdogVars>>

Phases == {"new", "reserved", "refused", "queued", "held", "ended", "rejected"}

WorkerStates ==
    {"starting", "ready", "busy", "cancelling", "recovering", "crashed"}

ThreadPoints ==
    {"dead", "spawned", "top", "recv", "account", "publish", "arm", "run",
     "check", "disarm", "untoken", "finish", "recheck"}

WatchdogPoints ==
    {"sleep", "scan", "reread", "budget", "cancel", "leak", "bump", "spawn",
     "prune"}

\* A thread is spawned and has not left its loop.
Live(t) == pc[t] # "dead"

\* The watchdog has spawned a replacement for this thread since it read
\* its generation.
Stale(t) == pc[t] \notin {"dead", "spawned"} /\ myGen[t] # generation[worker[t]]

\* The thread serves its logical worker: it is not leaked.
Current(t, w) ==
    /\ Live(t)
    /\ worker[t] = w
    /\ pc[t] # "spawned" => myGen[t] = generation[w]

-----------------------------------------------------------------------------
Init ==
    /\ queue = [k \in Kinds |-> <<>>]
    /\ depth = [k \in Kinds |-> 0]
    /\ phase = [j \in Jobs |-> "new"]
    /\ cancelled = {}
    /\ overdue = {}
    /\ generation = [w \in Workers |-> 0]
    /\ jobStarted = [w \in Workers |-> None]
    /\ currentToken = [w \in Workers |-> None]
    /\ activeJobs = [w \in Workers |-> 0]
    /\ state = [w \in Workers |-> "starting"]
    /\ pc = [t \in Threads |->
               IF \E w \in Workers : FirstThread[w] = t THEN "spawned" ELSE "dead"]
    /\ worker = [t \in Threads |->
                   IF \E w \in Workers : FirstThread[w] = t
                   THEN CHOOSE w \in Workers : FirstThread[w] = t
                   ELSE None]
    /\ myGen = [t \in Threads |-> 0]
    /\ job = [t \in Threads |-> None]
    /\ panicked = {}
    /\ leaked = 0
    /\ wpc = "sleep"
    /\ todo = {}
    /\ visiting = None
    /\ started = None
    /\ acted = [w \in Workers |-> None]

-----------------------------------------------------------------------------
(* ScanQueue::submit, run by the thread that submits job j.                *)

\* Mutant: the cap is off by one.
ReserveOverCap(j) ==
    LET k == JobKind[j] IN
    /\ phase[j] = "new"
    /\ depth' = [depth EXCEPT ![k] = @ + 1]
    /\ phase' = [phase EXCEPT ![j] =
                   IF depth[k] > MaxDepth THEN "refused" ELSE "reserved"]
    /\ UNCHANGED <<queue, cancelled, overdue, workerVars, threadVars, leaked,
                   watchdogVars>>

\* depth.fetch_add(1): reserve a slot first, look at the old value after.
Reserve(j) ==
    LET k == JobKind[j] IN
    /\ phase[j] = "new"
    /\ depth' = [depth EXCEPT ![k] = @ + 1]
    /\ phase' = [phase EXCEPT ![j] =
                   IF depth[k] >= MaxDepth THEN "refused" ELSE "reserved"]
    /\ UNCHANGED <<queue, cancelled, overdue, workerVars, threadVars, leaked,
                   watchdogVars>>

\* Over the cap: give the slot back and fail the call.
GiveBack(j) ==
    /\ phase[j] = "refused"
    /\ depth' = [depth EXCEPT ![JobKind[j]] = @ - 1]
    /\ phase' = [phase EXCEPT ![j] = "rejected"]
    /\ UNCHANGED <<queue, cancelled, overdue, workerVars, threadVars, leaked,
                   watchdogVars>>

Send(j) ==
    /\ phase[j] = "reserved"
    /\ queue' = [queue EXCEPT ![JobKind[j]] = Append(@, j)]
    /\ phase' = [phase EXCEPT ![j] = "queued"]
    /\ UNCHANGED <<depth, cancelled, overdue, workerVars, threadVars, leaked,
                   watchdogVars>>

\* The owner of the token cancels the job (cancel_scan shares the flag).
UserCancel(j) ==
    /\ j \in Cancellable \ cancelled
    /\ cancelled' = cancelled \cup {j}
    /\ UNCHANGED <<queueVars, overdue, workerVars, threadVars, leaked,
                   watchdogVars>>

-----------------------------------------------------------------------------
(* The body of spawn_worker, step by step, for thread t.                   *)

\* Capture the generation.
Begin(t) ==
    LET w == worker[t] IN
    /\ pc[t] = "spawned"
    /\ myGen' = [myGen EXCEPT ![t] = generation[w]]
    /\ state' = [state EXCEPT ![w] = "ready"]
    /\ pc' = [pc EXCEPT ![t] = "top"]
    /\ UNCHANGED <<queueVars, cancelled, overdue, generation, jobStarted,
                   currentToken, activeJobs, worker, job, panicked, leaked,
                   watchdogVars>>

\* Mutant: a leaked thread ends without giving its slot back.
RetireUncounted(t) ==
    /\ pc' = [pc EXCEPT ![t] = "dead"]
    /\ worker' = [worker EXCEPT ![t] = None]
    /\ myGen' = [myGen EXCEPT ![t] = 0]
    /\ UNCHANGED <<queueVars, cancelled, overdue, workerVars, job, panicked,
                   leaked, watchdogVars>>

\* A leaked thread releases its slot of the leak budget and ends.
Retire(t) ==
    /\ leaked' = leaked - 1
    /\ pc' = [pc EXCEPT ![t] = "dead"]
    /\ worker' = [worker EXCEPT ![t] = None]
    /\ myGen' = [myGen EXCEPT ![t] = 0]
    /\ UNCHANGED <<queueVars, cancelled, overdue, workerVars, job, panicked,
                   watchdogVars>>

RetireAtTop(t) ==
    /\ pc[t] = "top"
    /\ generation[worker[t]] # myGen[t]
    /\ Retire(t)

PassTop(t) ==
    /\ pc[t] = "top"
    /\ generation[worker[t]] = myGen[t]
    /\ pc' = [pc EXCEPT ![t] = "recv"]
    /\ UNCHANGED <<queueVars, cancelled, overdue, workerVars, worker, myGen,
                   job, panicked, leaked, watchdogVars>>

\* Mutant: the message stays in the queue until the job is done.
ReceiveKeeping(t) ==
    LET k == KindOf[worker[t]] IN
    /\ pc[t] = "recv"
    /\ queue[k] # <<>>
    /\ job' = [job EXCEPT ![t] = Head(queue[k])]
    /\ phase' = [phase EXCEPT ![Head(queue[k])] = "held"]
    /\ pc' = [pc EXCEPT ![t] = "account"]
    /\ UNCHANGED <<queue, depth, cancelled, overdue, workerVars, worker, myGen,
                   panicked, leaked, watchdogVars>>

\* Lock the shared receiver and recv().  The lock is held while recv blocks,
\* so which of the waiting threads gets the next message is arbitrary.
Receive(t) ==
    LET k == KindOf[worker[t]] IN
    /\ pc[t] = "recv"
    /\ queue[k] # <<>>
    /\ job' = [job EXCEPT ![t] = Head(queue[k])]
    /\ queue' = [queue EXCEPT ![k] = Tail(@)]
    /\ phase' = [phase EXCEPT ![Head(queue[k])] = "held"]
    /\ pc' = [pc EXCEPT ![t] = "account"]
    /\ UNCHANGED <<depth, cancelled, overdue, workerVars, worker, myGen,
                   panicked, leaked, watchdogVars>>

Account(t) ==
    LET w == worker[t] IN
    /\ pc[t] = "account"
    /\ depth' = [depth EXCEPT ![KindOf[w]] = @ - 1]
    /\ activeJobs' = [activeJobs EXCEPT ![w] = @ + 1]
    /\ state' = [state EXCEPT ![w] =
                   IF job[t] \in cancelled THEN "cancelling" ELSE "busy"]
    /\ pc' = [pc EXCEPT ![t] = "publish"]
    /\ UNCHANGED <<queue, phase, cancelled, overdue, generation, jobStarted,
                   currentToken, worker, myGen, job, panicked, leaked,
                   watchdogVars>>

PublishToken(t) ==
    /\ pc[t] = "publish"
    /\ currentToken' = [currentToken EXCEPT ![worker[t]] = job[t]]
    /\ pc' = [pc EXCEPT ![t] = "arm"]
    /\ UNCHANGED <<queueVars, cancelled, overdue, generation, jobStarted,
                   activeJobs, state, worker, myGen, job, panicked, leaked,
                   watchdogVars>>

\* job_started_ms must be the LAST thing set: it arms the watchdog.
Arm(t) ==
    /\ pc[t] = "arm"
    /\ jobStarted' = [jobStarted EXCEPT ![worker[t]] = job[t]]
    /\ pc' = [pc EXCEPT ![t] = "run"]
    /\ UNCHANGED <<queueVars, cancelled, overdue, generation, currentToken,
                   activeJobs, state, worker, myGen, job, panicked, leaked,
                   watchdogVars>>

\* The job returns or panics (catch_unwind); a hanging one does neither.
JobEnds(t) ==
    /\ pc[t] = "run"
    /\ job[t] \notin Hanging
    /\ phase' = [phase EXCEPT ![job[t]] = "ended"]
    /\ panicked' \in {panicked \ {t}, panicked \cup {t}}
    /\ pc' = [pc EXCEPT ![t] = "check"]
    /\ UNCHANGED <<queue, depth, cancelled, overdue, workerVars, worker, myGen,
                   job, leaked, watchdogVars>>

\* Only the current generation may disarm: the test of the generation ...
CheckGeneration(t) ==
    /\ pc[t] = "check"
    /\ pc' = [pc EXCEPT ![t] =
                IF generation[worker[t]] = myGen[t] THEN "disarm" ELSE "finish"]
    /\ UNCHANGED <<queueVars, cancelled, overdue, workerVars, worker, myGen,
                   job, panicked, leaked, watchdogVars>>

\* ... and the two stores it guards, which are not atomic with it.
Disarm(t) ==
    /\ pc[t] = "disarm"
    /\ jobStarted' = [jobStarted EXCEPT ![worker[t]] = None]
    /\ pc' = [pc EXCEPT ![t] = "untoken"]
    /\ UNCHANGED <<queueVars, cancelled, overdue, generation, currentToken,
                   activeJobs, state, worker, myGen, job, panicked, leaked,
                   watchdogVars>>

ClearToken(t) ==
    /\ pc[t] = "untoken"
    /\ currentToken' = [currentToken EXCEPT ![worker[t]] = None]
    /\ pc' = [pc EXCEPT ![t] = "finish"]
    /\ UNCHANGED <<queueVars, cancelled, overdue, generation, jobStarted,
                   activeJobs, state, worker, myGen, job, panicked, leaked,
                   watchdogVars>>

\* Counters, and the Recovering state after a panic.
Finish(t) ==
    LET w == worker[t] IN
    /\ pc[t] = "finish"
    /\ activeJobs' = [activeJobs EXCEPT ![w] = @ - 1]
    /\ state' = [state EXCEPT ![w] = IF t \in panicked THEN "recovering" ELSE @]
    /\ job' = [job EXCEPT ![t] = None]
    /\ panicked' = panicked \ {t}
    /\ pc' = [pc EXCEPT ![t] = "recheck"]
    /\ UNCHANGED <<queueVars, cancelled, overdue, generation, jobStarted,
                   currentToken, worker, myGen, leaked, watchdogVars>>

RetireAfterJob(t) ==
    /\ pc[t] = "recheck"
    /\ generation[worker[t]] # myGen[t]
    /\ Retire(t)

LoopBack(t) ==
    /\ pc[t] = "recheck"
    /\ generation[worker[t]] = myGen[t]
    /\ state' = [state EXCEPT ![worker[t]] = "ready"]
    /\ pc' = [pc EXCEPT ![t] = "top"]
    /\ UNCHANGED <<queueVars, cancelled, overdue, generation, jobStarted,
                   currentToken, activeJobs, worker, myGen, job, panicked,
                   leaked, watchdogVars>>

-----------------------------------------------------------------------------
(* Time: the stamp of an armed worker grows older than the timeout.        *)

PassTimeout(w) ==
    /\ jobStarted[w] \in Slow \ overdue
    /\ overdue' = overdue \cup {jobStarted[w]}
    /\ UNCHANGED <<queueVars, cancelled, workerVars, threadVars, leaked,
                   watchdogVars>>

-----------------------------------------------------------------------------
(* The watchdog thread of spawn_watchdog.                                  *)

Wake ==
    /\ wpc = "sleep"
    /\ wpc' = "scan"
    /\ todo' = Workers
    /\ UNCHANGED <<queueVars, cancelled, overdue, workerVars, threadVars,
                   leaked, visiting, started, acted>>

\* The next worker of the pass: load job_started_ms, compare with the clock
\* and with the stamp already acted on.  Timing: a thread spawned in one pass
\* has captured its generation before the next pass, a poll interval later,
\* looks at its worker.
Look(w) ==
    /\ wpc = "scan"
    /\ w \in todo
    /\ \A t \in Threads : worker[t] = w => pc[t] # "spawned"
    /\ todo' = todo \ {w}
    /\ IF jobStarted[w] \in overdue /\ acted[w] # jobStarted[w]
       THEN /\ wpc' = "reread"
            /\ visiting' = w
            /\ started' = jobStarted[w]
       ELSE UNCHANGED <<wpc, visiting, started>>
    /\ UNCHANGED <<queueVars, cancelled, overdue, workerVars, threadVars,
                   leaked, acted>>

\* The re-read that is to close the window: a changed stamp means the worker
\* is not stuck.
Reread ==
    /\ wpc = "reread"
    /\ wpc' = IF jobStarted[visiting] = started THEN "budget" ELSE "scan"
    /\ UNCHANGED <<queueVars, cancelled, overdue, workerVars, threadVars,
                   leaked, todo, visiting, started, acted>>

\* Mutant: the leak budget is off by one.
CheckBudgetLate ==
    /\ wpc = "budget"
    /\ wpc' = IF leaked > MaxLeaked THEN "scan" ELSE "cancel"
    /\ acted' = [acted EXCEPT ![visiting] = started]
    /\ UNCHANGED <<queueVars, cancelled, overdue, workerVars, threadVars,
                   leaked, todo, visiting, started>>

\* Past the leak budget the stamp is recorded and nothing else happens.
CheckBudget ==
    /\ wpc = "budget"
    /\ wpc' = IF leaked >= MaxLeaked THEN "scan" ELSE "cancel"
    /\ acted' = [acted EXCEPT ![visiting] = started]
    /\ UNCHANGED <<queueVars, cancelled, overdue, workerVars, threadVars,
                   leaked, todo, visiting, started>>

\* Mutant: the job is cancelled, its worker is not replaced.
CancelJobOnly ==
    /\ wpc = "cancel"
    /\ cancelled' = cancelled \cup ({currentToken[visiting]} \ {None})
    /\ wpc' = "scan"
    /\ UNCHANGED <<queueVars, overdue, workerVars, threadVars, leaked, todo,
                   visiting, started, acted>>

\* Cancel whatever token is published now.
CancelJob ==
    /\ wpc = "cancel"
    /\ cancelled' = cancelled \cup ({currentToken[visiting]} \ {None})
    /\ wpc' = "leak"
    /\ UNCHANGED <<queueVars, overdue, workerVars, threadVars, leaked, todo,
                   visiting, started, acted>>

CountLeak ==
    /\ wpc = "leak"
    /\ state' = [state EXCEPT ![visiting] = "crashed"]
    /\ leaked' = leaked + 1
    /\ wpc' = "bump"
    /\ UNCHANGED <<queueVars, cancelled, overdue, generation, jobStarted,
                   currentToken, activeJobs, threadVars, todo, visiting,
                   started, acted>>

\* Mutant: the replacement shares the generation of the stuck thread.
BumpForgotten ==
    /\ wpc = "bump"
    /\ wpc' = "spawn"
    /\ UNCHANGED <<queueVars, cancelled, overdue, workerVars, threadVars,
                   leaked, todo, visiting, started, acted>>

BumpGeneration ==
    /\ wpc = "bump"
    /\ generation' = [generation EXCEPT ![visiting] = @ + 1]
    /\ wpc' = "spawn"
    /\ UNCHANGED <<queueVars, cancelled, overdue, jobStarted, currentToken,
                   activeJobs, state, threadVars, leaked, todo, visiting,
                   started, acted>>

Respawn(t) ==
    /\ wpc = "spawn"
    /\ pc[t] = "dead"
    /\ pc' = [pc EXCEPT ![t] = "spawned"]
    /\ worker' = [worker EXCEPT ![t] = visiting]
    /\ wpc' = "scan"
    /\ UNCHANGED <<queueVars, cancelled, overdue, workerVars, myGen, job,
                   panicked, leaked, todo, visiting, started, acted>>

\* The pass is over: prune `acted`, one worker at a time, then sleep.
EndScan ==
    /\ wpc = "scan"
    /\ todo = {}
    /\ wpc' = "prune"
    /\ todo' = Workers
    /\ UNCHANGED <<queueVars, cancelled, overdue, workerVars, threadVars,
                   leaked, visiting, started, acted>>

Prune(w) ==
    /\ wpc = "prune"
    /\ w \in todo
    /\ todo' = todo \ {w}
    /\ acted' = [acted EXCEPT ![w] = IF jobStarted[w] = @ THEN @ ELSE None]
    /\ UNCHANGED <<queueVars, cancelled, overdue, workerVars, threadVars,
                   leaked, wpc, visiting, started>>

Sleep ==
    /\ wpc = "prune"
    /\ todo = {}
    /\ wpc' = "sleep"
    /\ UNCHANGED <<queueVars, cancelled, overdue, workerVars, threadVars,
                   leaked, todo, visiting, started, acted>>

-----------------------------------------------------------------------------
Submit(j) == Reserve(j) \/ GiveBack(j) \/ Send(j)

Worker(t) ==
    \/ Begin(t) \/ RetireAtTop(t) \/ PassTop(t) \/ Receive(t)
    \/ Account(t) \/ PublishToken(t) \/ Arm(t) \/ JobEnds(t)
    \/ CheckGeneration(t) \/ Disarm(t) \/ ClearToken(t) \/ Finish(t)
    \/ RetireAfterJob(t) \/ LoopBack(t)

Watchdog ==
    \/ Wake \/ Reread \/ CheckBudget \/ CancelJob \/ CountLeak
    \/ BumpGeneration \/ EndScan \/ Sleep
    \/ \E w \in Workers : Look(w) \/ Prune(w)
    \/ \E t \in Threads : Respawn(t)

Next ==
    \/ \E j \in Jobs : Submit(j) \/ UserCancel(j)
    \/ \E t \in Threads : Worker(t)
    \/ \E w \in Workers : PassTimeout(w)
    \/ Watchdog

Spec == Init /\ [][Next]_vars

\* Every thread is scheduled, a submit call that began ends, time passes.
Fairness ==
    /\ \A j \in Jobs : WF_vars(GiveBack(j) \/ Send(j))
    /\ \A t \in Threads : WF_vars(Worker(t))
    /\ \A w \in Workers : WF_vars(PassTimeout(w))
    /\ WF_vars(Watchdog)

FairSpec == Spec /\ Fairness

-----------------------------------------------------------------------------
(* Properties.                                                             *)

TypeOK ==
    /\ queue \in [Kinds -> Seq(Jobs)]
    /\ depth \in [Kinds -> Int]
    /\ phase \in [Jobs -> Phases]
    /\ cancelled \subseteq Jobs
    /\ overdue \subseteq Jobs
    /\ generation \in [Workers -> Nat]
    /\ jobStarted \in [Workers -> Jobs \cup {None}]
    /\ currentToken \in [Workers -> Jobs \cup {None}]
    /\ activeJobs \in [Workers -> Int]
    /\ state \in [Workers -> WorkerStates]
    /\ pc \in [Threads -> ThreadPoints]
    /\ worker \in [Threads -> Workers \cup {None}]
    /\ myGen \in [Threads -> Nat]
    /\ job \in [Threads -> Jobs \cup {None}]
    /\ panicked \subseteq Threads
    /\ leaked \in Int
    /\ wpc \in WatchdogPoints
    /\ todo \subseteq Workers
    /\ visiting \in Workers \cup {None}
    /\ started \in Jobs \cup {None}
    /\ acted \in [Workers -> Jobs \cup {None}]

\* LEAKED_WORKERS counts exactly the threads that a replacement has been
\* spawned for and that have not ended yet, plus the one being leaked: every
\* leaked thread gives its slot back once, at whichever of the two generation
\* tests it meets, so the budget neither erodes nor underflows.
LeakAccounting ==
    leaked = Cardinality({t \in Threads : Stale(t)})
               + IF wpc = "bump" THEN 1 ELSE 0

\* The watchdog's thread budget (audit fix D): whatever hangs, the process
\* never runs more than the pool and MAX_LEAKED_WORKERS leaked threads.
ThreadBudget ==
    /\ leaked <= MaxLeaked
    /\ Cardinality({t \in Threads : Live(t)}) <= Cardinality(Workers) + MaxLeaked

\* A logical worker is served by exactly one thread of its generation (none
\* between the bump of the generation and the spawn): a respawn never leaves
\* a worker without a thread or with two that both believe to be it.
OneCurrentThread ==
    \A w \in Workers :
        IF wpc = "spawn" /\ visiting = w
        THEN \A t \in Threads : ~Current(t, w)
        ELSE \E t \in Threads :
                /\ Current(t, w)
                /\ \A u \in Threads : Current(u, w) => u = t

\* The cap of submit holds however many callers race: a queue never holds
\* more than MAX_QUEUE_DEPTH messages, and the counter is exact once the
\* submit calls and dequeues in progress are accounted for.
QueueBounded ==
    \A k \in Kinds :
        /\ Len(queue[k]) <= MaxDepth
        /\ depth[k] = Len(queue[k])
             + Cardinality({j \in Jobs : JobKind[j] = k
                                /\ phase[j] \in {"reserved", "refused"}})
             + Cardinality({t \in Threads : pc[t] = "account"
                                /\ KindOf[worker[t]] = k})

\* An accepted job is in its queue once, or held by one thread that serves
\* that queue, until it ends: no respawn loses a job or runs it twice.
JobsConserved ==
    \A j \in Jobs :
        /\ Cardinality({i \in DOMAIN queue[JobKind[j]] : queue[JobKind[j]][i] = j})
             = IF phase[j] = "queued" THEN 1 ELSE 0
        /\ phase[j] = "held" <=>
             \E t \in Threads :
                /\ job[t] = j
                /\ KindOf[worker[t]] = JobKind[j]
                /\ pc[t] \in {"account", "publish", "arm", "run"}
                /\ \A u \in Threads : job[u] = j => u = t

\* Jobs that hang for ever do not starve their queue ("spawn a replacement
\* worker so the queue keeps draining"): every accepted job that does not hang
\* ends, provided the hanging jobs are within the leak budget and the other
\* jobs return in time.
QueueDrains ==
    \A j \in Jobs \ Hanging : phase[j] = "queued" ~> phase[j] = "ended"

=============================================================================
