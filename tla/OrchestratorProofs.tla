-------------------------- MODULE OrchestratorProofs -------------------------
(***************************************************************************)
(* Proofs about the worker pool, for any number of workers, threads and    *)
(* jobs and any leak budget: the types are right, LEAKED_WORKERS counts    *)
(* the leaked threads, every logical worker has exactly one current        *)
(* thread, and the process never runs more threads than the pool and the   *)
(* budget; the queues stay within their cap and agree with their counter,  *)
(* and no accepted job is lost or held by two threads.                     *)
(*                                                                         *)
(* Only nine of the actions touch what these invariants read (a thread's   *)
(* birth, death and generation, the counter, the watchdog's visit).  Every *)
(* other step is quiet, and lemma QuietStep deals with all of them.  The   *)
(* queues have an invariant of their own in the second half.               *)
(***************************************************************************)
EXTENDS Orchestrator, FiniteSetTheorems, TLAPS

LiveThreads  == {t \in Threads : Live(t)}
StaleThreads == {t \in Threads : Stale(t)}

\* A live thread has a logical worker, and no generation from the future.
ThreadsOK ==
    \A t \in Threads :
        /\ worker[t] \in Workers <=> Live(t)
        /\ Live(t) /\ pc[t] # "spawned" => myGen[t] <= generation[worker[t]]

\* While the watchdog handles a stuck worker, that worker has no thread that
\* has still to capture its generation.
VisitOK ==
    wpc \in {"reread", "budget", "cancel", "leak", "bump", "spawn"} =>
        /\ visiting \in Workers
        /\ started \in Jobs
        /\ \A t \in Threads : worker[t] = visiting => pc[t] # "spawned"

\* Between the test of the budget and the increment only leaked threads that
\* end can change the counter, and they lower it.
BudgetOK ==
    /\ leaked <= MaxLeaked
    /\ wpc \in {"cancel", "leak"} => leaked < MaxLeaked

\* The live threads are the pool and the leaked threads.
ThreadCount ==
    Cardinality(LiveThreads) =
        Cardinality(Workers) + leaked
          - (IF wpc \in {"bump", "spawn"} THEN 1 ELSE 0)

PoolInv ==
    /\ TypeOK
    /\ ThreadsOK
    /\ VisitOK
    /\ OneCurrentThread
    /\ LeakAccounting
    /\ BudgetOK
    /\ ThreadCount

-----------------------------------------------------------------------------
(* Type correctness.                                                       *)

LEMMA InitTypeOK == Init => TypeOK
<1> SUFFICES ASSUME Init PROVE TypeOK
    OBVIOUS
<1> USE OrchestratorAssumption DEF Init
<1>1. worker \in [Threads -> Workers \cup {None}]
  <2>1. \A t \in Threads : (\E w \in Workers : FirstThread[w] = t) =>
           (CHOOSE w \in Workers : FirstThread[w] = t) \in Workers
      OBVIOUS
  <2> QED BY <2>1
<1>2. pc \in [Threads -> ThreadPoints]
    BY DEF ThreadPoints
<1> QED BY <1>1, <1>2 DEF TypeOK, Phases, WorkerStates, WatchdogPoints

LEMMA StepTypeOK == TypeOK /\ ThreadsOK /\ VisitOK /\ [Next]_vars => TypeOK'
<1> SUFFICES ASSUME TypeOK, ThreadsOK, VisitOK, [Next]_vars PROVE TypeOK'
    OBVIOUS
<1> USE OrchestratorAssumption
    DEF TypeOK, ThreadsOK, Live, Phases, WorkerStates, ThreadPoints,
        WatchdogPoints, queueVars, workerVars, threadVars, watchdogVars
<1>1. ASSUME NEW j \in Jobs, Submit(j) \/ UserCancel(j) PROVE TypeOK'
  <2>1. CASE Reserve(j) BY <2>1 DEF Reserve
  <2>2. CASE GiveBack(j) BY <2>2 DEF GiveBack
  <2>3. CASE Send(j) BY SMTT(40), <2>3 DEF Send
  <2>4. CASE UserCancel(j) BY <2>4 DEF UserCancel
  <2> QED BY <1>1, <2>1, <2>2, <2>3, <2>4 DEF Submit
<1>2. ASSUME NEW t \in Threads, Worker(t) PROVE TypeOK'
  <2>1. CASE Begin(t) BY <2>1 DEF Begin
  <2>2. CASE RetireAtTop(t) BY SMTT(40), <2>2 DEF RetireAtTop, Retire
  <2>3. CASE PassTop(t) BY <2>3 DEF PassTop
  <2>4. CASE Receive(t)
    <3>1. worker[t] \in Workers BY <2>4 DEF Receive
    <3>2. PICK k \in Kinds : k = KindOf[worker[t]] BY <3>1
    <3>3. queue[k] \in Seq(Jobs) /\ queue[k] # <<>> BY <2>4, <3>2 DEF Receive
    <3>4. Head(queue[k]) \in Jobs /\ Tail(queue[k]) \in Seq(Jobs) BY <3>3
    <3> QED BY <2>4, <3>2, <3>4 DEF Receive
  <2>5. CASE Account(t)
    <3>1. worker[t] \in Workers BY <2>5 DEF Account
    <3>2. depth' \in [Kinds -> Int] BY <2>5, <3>1 DEF Account
    <3>3. activeJobs' \in [Workers -> Int] BY SMTT(40), <2>5, <3>1 DEF Account
    <3>4. state' \in [Workers -> WorkerStates] BY <2>5, <3>1 DEF Account
    <3>5. pc' \in [Threads -> ThreadPoints] BY <2>5 DEF Account
    <3> QED BY <2>5, <3>2, <3>3, <3>4, <3>5 DEF Account
  <2>6. CASE PublishToken(t) BY <2>6 DEF PublishToken
  <2>7. CASE Arm(t) BY <2>7 DEF Arm
  <2>8. CASE JobEnds(t) BY <2>8 DEF JobEnds
  <2>9. CASE CheckGeneration(t) BY <2>9 DEF CheckGeneration
  <2>10. CASE Disarm(t) BY <2>10 DEF Disarm
  <2>11. CASE ClearToken(t) BY <2>11 DEF ClearToken
  <2>12. CASE Finish(t)
    <3>1. worker[t] \in Workers BY <2>12 DEF Finish
    <3>2. activeJobs' \in [Workers -> Int] BY <2>12, <3>1 DEF Finish
    <3>3. state' \in [Workers -> WorkerStates] BY <2>12, <3>1 DEF Finish
    <3>4. /\ pc' \in [Threads -> ThreadPoints]
          /\ job' \in [Threads -> Jobs \cup {None}]
        BY <2>12 DEF Finish
    <3> QED BY <2>12, <3>2, <3>3, <3>4 DEF Finish
  <2>13. CASE RetireAfterJob(t) BY SMTT(40), <2>13 DEF RetireAfterJob, Retire
  <2>14. CASE LoopBack(t) BY <2>14 DEF LoopBack
  <2> QED BY <1>2, <2>1, <2>2, <2>3, <2>4, <2>5, <2>6, <2>7, <2>8, <2>9,
             <2>10, <2>11, <2>12, <2>13, <2>14 DEF Worker
<1>3. ASSUME NEW w \in Workers, PassTimeout(w) PROVE TypeOK'
    BY <1>3 DEF PassTimeout
<1>4. CASE Watchdog
  <2> USE DEF VisitOK
  <2>1. CASE Wake BY <2>1 DEF Wake
  <2>2. CASE Reread BY <2>2 DEF Reread
  <2>3. CASE CheckBudget BY <2>3 DEF CheckBudget
  <2>4. CASE CancelJob BY <2>4 DEF CancelJob
  <2>5. CASE CountLeak BY SMTT(40), <2>5 DEF CountLeak
  <2>6. CASE BumpGeneration BY <2>6 DEF BumpGeneration
  <2>7. CASE EndScan BY <2>7 DEF EndScan
  <2>8. CASE Sleep BY <2>8 DEF Sleep
  <2>9. ASSUME NEW w \in Workers, Look(w) PROVE TypeOK' BY <2>9 DEF Look
  <2>10. ASSUME NEW w \in Workers, Prune(w) PROVE TypeOK' BY <2>10 DEF Prune
  <2>11. ASSUME NEW t \in Threads, Respawn(t) PROVE TypeOK' BY <2>11 DEF Respawn
  <2> QED BY <1>4, <2>1, <2>2, <2>3, <2>4, <2>5, <2>6, <2>7, <2>8, <2>9,
             <2>10, <2>11 DEF Watchdog
<1>5. CASE UNCHANGED vars
    BY <1>5 DEF vars
<1> QED BY <1>1, <1>2, <1>3, <1>4, <1>5 DEF Next

-----------------------------------------------------------------------------
(* Initially the pool is exactly the first threads.                        *)

LEMMA InitPoolInv == Init => PoolInv
<1> SUFFICES ASSUME Init PROVE PoolInv
    OBVIOUS
<1> USE OrchestratorAssumption
<1> DEFINE Firsts == {FirstThread[w] : w \in Workers}
<1>1. TypeOK
    BY InitTypeOK
<1>2. ASSUME NEW w \in Workers PROVE worker[FirstThread[w]] = w
    BY DEF Init
<1>3. \A t \in Threads : IF t \in Firsts THEN pc[t] = "spawned" ELSE pc[t] = "dead"
    BY DEF Init
<1>4. \A t \in Threads : worker[t] \in Workers <=> t \in Firsts
    BY <1>2 DEF Init
<1>5. ThreadsOK
    BY <1>3, <1>4 DEF ThreadsOK, Live
<1>6. VisitOK
    BY DEF VisitOK, Init
<1>7. OneCurrentThread
  <2> SUFFICES ASSUME NEW w \in Workers
               PROVE \E t \in Threads :
                        /\ Current(t, w)
                        /\ \A u \in Threads : Current(u, w) => u = t
      BY DEF OneCurrentThread, Init
  <2>1. Current(FirstThread[w], w)
      BY <1>2, <1>3 DEF Current, Live
  <2>2. ASSUME NEW u \in Threads, Current(u, w) PROVE u = FirstThread[w]
    <3>1. u \in Firsts BY <2>2, <1>3 DEF Current, Live
    <3>2. PICK v \in Workers : u = FirstThread[v] BY <3>1
    <3> QED BY <2>2, <3>2, <1>2 DEF Current
  <2> QED BY <2>1, <2>2
<1>8. StaleThreads = {}
    BY <1>3 DEF StaleThreads, Stale
<1>9. LeakAccounting
  <2>1. Cardinality(StaleThreads) = 0 BY <1>8, FS_EmptySet
  <2>2. leaked = 0 /\ wpc = "sleep" BY DEF Init
  <2> QED BY <2>1, <2>2 DEF LeakAccounting, StaleThreads
<1>10. BudgetOK
    BY DEF BudgetOK, Init
<1>11. ThreadCount
  <2>1. LiveThreads = Firsts
      BY <1>3 DEF LiveThreads, Live
  <2> DEFINE f == [w \in Workers |-> FirstThread[w]]
  <2>2. f \in Bijection(Workers, Firsts)
      BY DEF Bijection, Injection, Surjection, IsInjective
  <2>3. Cardinality(Firsts) = Cardinality(Workers)
    <3> HIDE DEF Firsts, f
    <3> QED BY <2>2, FS_Bijection DEF ExistsBijection
  <2>4. Cardinality(Workers) \in Nat
      BY FS_CardinalityType
  <2> QED BY <2>1, <2>3, <2>4 DEF ThreadCount, Init
<1> QED BY <1>1, <1>5, <1>6, <1>7, <1>9, <1>10, <1>11 DEF PoolInv

-----------------------------------------------------------------------------
(* Steps that neither start nor end a thread, nor touch a generation, the  *)
(* leak counter or the two points of the watchdog the counts refer to.     *)

LEMMA QuietStep ==
    ASSUME PoolInv, TypeOK', VisitOK', BudgetOK',
           UNCHANGED <<generation, worker, myGen, leaked>>,
           \A t \in Threads : /\ pc'[t] = "dead" <=> pc[t] = "dead"
                              /\ pc'[t] = "spawned" <=> pc[t] = "spawned",
           wpc' = "bump" <=> wpc = "bump",
           wpc' = "spawn" <=> wpc = "spawn",
           wpc = "spawn" => visiting' = visiting
    PROVE  PoolInv'
<1> USE DEF PoolInv
<1>1. \A t \in Threads : /\ Live(t)' <=> Live(t)
                         /\ Stale(t)' <=> Stale(t)
                         /\ \A w \in Workers : Current(t, w)' <=> Current(t, w)
    BY DEF Live, Stale, Current
<1>2. LiveThreads' = LiveThreads /\ StaleThreads' = StaleThreads
    BY <1>1 DEF LiveThreads, StaleThreads
<1>3. ThreadsOK'
    BY <1>1 DEF ThreadsOK, Live
<1>4. OneCurrentThread'
    BY <1>1 DEF OneCurrentThread
<1>5. LeakAccounting'
    BY <1>2 DEF LeakAccounting, StaleThreads
<1>6. ThreadCount'
    BY <1>2 DEF ThreadCount
<1> QED BY <1>3, <1>4, <1>5, <1>6

\* A thread that captures its generation becomes neither stale nor a second
\* current thread.
LEMMA BeginStep ==
    ASSUME PoolInv, TypeOK', NEW t \in Threads, Begin(t)
    PROVE  PoolInv'
<1> USE DEF PoolInv, Begin, watchdogVars
<1>1. worker[t] \in Workers /\ pc[t] = "spawned"
    BY DEF ThreadsOK, Live
<1>2. /\ pc' = [pc EXCEPT ![t] = "top"]
      /\ myGen' = [myGen EXCEPT ![t] = generation[worker[t]]]
      /\ UNCHANGED <<worker, generation, leaked, wpc, visiting, started>>
    OBVIOUS
<1>3. \A u \in Threads : /\ Live(u)' <=> Live(u)
                         /\ Stale(u)' <=> Stale(u)
                         /\ \A w \in Workers : Current(u, w)' <=> Current(u, w)
    BY <1>1, <1>2 DEF Live, Stale, Current, TypeOK
<1>4. LiveThreads' = LiveThreads /\ StaleThreads' = StaleThreads
    BY <1>3 DEF LiveThreads, StaleThreads
<1>5. ThreadsOK'
    BY <1>1, <1>2, <1>3 DEF ThreadsOK, Live, TypeOK
<1>6. VisitOK'
    BY <1>2 DEF VisitOK, TypeOK
<1>7. OneCurrentThread'
    BY <1>2, <1>3 DEF OneCurrentThread
<1>8. LeakAccounting'
    BY <1>2, <1>4 DEF LeakAccounting, StaleThreads
<1>9. BudgetOK'
    BY <1>2 DEF BudgetOK
<1>10. ThreadCount'
    BY <1>2, <1>4 DEF ThreadCount
<1> QED BY <1>5, <1>6, <1>7, <1>8, <1>9, <1>10

\* A leaked thread that ends takes one from the counter, from the stale
\* threads and from the live ones.
LEMMA RetireStep ==
    ASSUME PoolInv, TypeOK', NEW t \in Threads,
           RetireAtTop(t) \/ RetireAfterJob(t)
    PROVE  PoolInv'
<1> USE OrchestratorAssumption DEF PoolInv
<1>1. /\ pc[t] \in {"top", "recheck"}
      /\ generation[worker[t]] # myGen[t]
      /\ leaked' = leaked - 1
      /\ pc' = [pc EXCEPT ![t] = "dead"]
      /\ worker' = [worker EXCEPT ![t] = None]
      /\ myGen' = [myGen EXCEPT ![t] = 0]
      /\ UNCHANGED <<generation, wpc, visiting, started>>
    BY DEF RetireAtTop, RetireAfterJob, Retire, workerVars, watchdogVars
<1>2. Live(t) /\ Stale(t) /\ ~Live(t)' /\ ~Stale(t)'
    BY <1>1 DEF Live, Stale, TypeOK
<1>3. \A u \in Threads \ {t} : /\ Live(u)' <=> Live(u)
                               /\ Stale(u)' <=> Stale(u)
    BY <1>1 DEF Live, Stale, TypeOK
<1>4. \A u \in Threads, w \in Workers : Current(u, w)' <=> Current(u, w)
    BY <1>1 DEF Current, Live, TypeOK
<1>5. LiveThreads' = LiveThreads \ {t} /\ StaleThreads' = StaleThreads \ {t}
    BY <1>2, <1>3 DEF LiveThreads, StaleThreads
<1>6. t \in LiveThreads /\ t \in StaleThreads
    BY <1>2 DEF LiveThreads, StaleThreads
<1>7. IsFiniteSet(LiveThreads) /\ IsFiniteSet(StaleThreads)
    BY FS_Subset DEF LiveThreads, StaleThreads
<1>8. /\ Cardinality(LiveThreads') = Cardinality(LiveThreads) - 1
      /\ Cardinality(StaleThreads') = Cardinality(StaleThreads) - 1
    BY <1>5, <1>6, <1>7, FS_RemoveElement
<1>9. /\ Cardinality(LiveThreads) \in Nat
      /\ Cardinality(StaleThreads) \in Nat
      /\ Cardinality(Workers) \in Nat
    BY <1>7, FS_CardinalityType
<1>10. ThreadsOK'
    BY <1>1, <1>2, <1>3 DEF ThreadsOK, Live, TypeOK
<1>11. VisitOK'
    BY <1>1 DEF VisitOK, TypeOK
<1>12. OneCurrentThread'
    BY <1>1, <1>4 DEF OneCurrentThread
<1>13. LeakAccounting'
    BY <1>1, <1>8, <1>9 DEF LeakAccounting, StaleThreads, TypeOK
<1>14. BudgetOK'
    BY <1>1 DEF BudgetOK, TypeOK
<1>15. ThreadCount'
    BY <1>1, <1>8, <1>9 DEF ThreadCount, TypeOK
<1> QED BY <1>10, <1>11, <1>12, <1>13, <1>14, <1>15

\* The counter goes up one step before the thread it counts becomes stale.
LEMMA CountLeakStep ==
    ASSUME PoolInv, TypeOK', CountLeak
    PROVE  PoolInv'
<1> USE OrchestratorAssumption DEF PoolInv, CountLeak, threadVars
<1>1. \A t \in Threads : /\ Live(t)' <=> Live(t)
                         /\ Stale(t)' <=> Stale(t)
                         /\ \A w \in Workers : Current(t, w)' <=> Current(t, w)
    BY DEF Live, Stale, Current
<1>2. LiveThreads' = LiveThreads /\ StaleThreads' = StaleThreads
    BY <1>1 DEF LiveThreads, StaleThreads
<1>3. /\ Cardinality(LiveThreads) \in Nat
      /\ Cardinality(StaleThreads) \in Nat
      /\ Cardinality(Workers) \in Nat
    BY FS_Subset, FS_CardinalityType DEF LiveThreads, StaleThreads
<1>4. ThreadsOK'
    BY <1>1 DEF ThreadsOK, Live
<1>5. VisitOK'
    BY DEF VisitOK
<1>6. OneCurrentThread'
    BY <1>1 DEF OneCurrentThread
<1>7. LeakAccounting'
    BY <1>2, <1>3 DEF LeakAccounting, StaleThreads
<1>8. BudgetOK'
    BY DEF BudgetOK, TypeOK
<1>9. ThreadCount'
    BY <1>2, <1>3 DEF ThreadCount, TypeOK
<1> QED BY <1>4, <1>5, <1>6, <1>7, <1>8, <1>9

\* The bump makes the one current thread of the visited worker stale: it has
\* captured its generation (VisitOK), and no other thread can be ahead.
LEMMA BumpStep ==
    ASSUME PoolInv, TypeOK', BumpGeneration
    PROVE  PoolInv'
<1> USE OrchestratorAssumption DEF PoolInv, BumpGeneration, threadVars
<1>1. visiting \in Workers
    BY DEF VisitOK
<1>2. PICK t \in Threads : /\ Current(t, visiting)
                           /\ \A u \in Threads : Current(u, visiting) => u = t
    BY <1>1 DEF OneCurrentThread
<1>3. \A u \in Threads : worker[u] = visiting => pc[u] # "spawned"
    BY DEF VisitOK
<1>4. generation' = [generation EXCEPT ![visiting] = @ + 1]
    OBVIOUS
<1>5. ~Stale(t) /\ Stale(t)'
    BY <1>1, <1>2, <1>3, <1>4 DEF Stale, Current, Live, TypeOK
<1>6. ASSUME NEW u \in Threads \ {t}
      PROVE  /\ Stale(u)' <=> Stale(u)
             /\ ~Current(u, visiting)'
             /\ \A w \in Workers \ {visiting} : Current(u, w)' <=> Current(u, w)
  <2>1. CASE worker[u] = visiting
    <3>1. Live(u) => Stale(u) /\ myGen[u] < generation[visiting]
        BY <1>1, <1>2, <1>3, <2>1 DEF Current, Stale, Live, ThreadsOK, TypeOK
    <3>2. ~Current(u, visiting)'
        BY <1>1, <1>3, <1>4, <2>1, <3>1 DEF Current, Live, TypeOK
    <3>3. Stale(u)' <=> Stale(u)
        BY <1>1, <1>4, <2>1, <3>1 DEF Stale, Live, TypeOK
    <3> QED BY <2>1, <3>2, <3>3 DEF Current
  <2>2. CASE worker[u] # visiting
      BY <2>2, <1>1, <1>4 DEF Current, Stale, Live, TypeOK
  <2> QED BY <2>1, <2>2
<1>7. ~Current(t, visiting)'
    BY <1>1, <1>2, <1>3, <1>4 DEF Current, Live, TypeOK
<1>8. \A w \in Workers \ {visiting} : Current(t, w)' <=> Current(t, w)
    BY <1>1, <1>2 DEF Current, Live, TypeOK
<1>9. LiveThreads' = LiveThreads /\ StaleThreads' = StaleThreads \cup {t}
    BY <1>5, <1>6 DEF LiveThreads, StaleThreads, Live
<1>10. t \notin StaleThreads
    BY <1>5 DEF StaleThreads
<1>11. IsFiniteSet(StaleThreads)
    BY FS_Subset DEF StaleThreads
<1>12. Cardinality(StaleThreads') = Cardinality(StaleThreads) + 1
    BY <1>9, <1>10, <1>11, FS_AddElement
<1>13. ThreadsOK'
    BY <1>1, <1>4 DEF ThreadsOK, Live, TypeOK
<1>14. VisitOK'
    BY DEF VisitOK
<1>15. OneCurrentThread'
    BY <1>6, <1>7, <1>8 DEF OneCurrentThread
<1>16. LeakAccounting'
  <2>1. Cardinality(StaleThreads) \in Nat
      BY <1>11, FS_CardinalityType
  <2> QED BY <1>12, <2>1 DEF LeakAccounting, StaleThreads
<1>17. BudgetOK'
    BY DEF BudgetOK
<1>18. ThreadCount'
    BY <1>9 DEF ThreadCount
<1> QED BY <1>13, <1>14, <1>15, <1>16, <1>17, <1>18

\* The replacement is the one current thread of the visited worker.
LEMMA RespawnStep ==
    ASSUME PoolInv, TypeOK', NEW t \in Threads, Respawn(t)
    PROVE  PoolInv'
<1> USE OrchestratorAssumption DEF PoolInv
<1>1. /\ wpc = "spawn" /\ wpc' = "scan"
      /\ pc[t] = "dead"
      /\ pc' = [pc EXCEPT ![t] = "spawned"]
      /\ worker' = [worker EXCEPT ![t] = visiting]
      /\ UNCHANGED <<generation, myGen, leaked, visiting, started>>
    BY DEF Respawn, workerVars
<1>2. visiting \in Workers
    BY <1>1 DEF VisitOK
<1>3. \A u \in Threads \ {t} :
         /\ Live(u)' <=> Live(u)
         /\ \A w \in Workers : Current(u, w)' <=> Current(u, w)
    BY <1>1 DEF Live, Current, TypeOK
<1>4. \A u \in Threads : Stale(u)' <=> Stale(u)
    BY <1>1 DEF Stale, TypeOK
<1>5. \A w \in Workers : Current(t, w)' <=> w = visiting
    BY <1>1, <1>2 DEF Current, Live, TypeOK
<1>6. \A w \in Workers : ~Current(t, w)
    BY <1>1 DEF Current, Live
<1>7. LiveThreads' = LiveThreads \cup {t} /\ StaleThreads' = StaleThreads
    BY <1>1, <1>3, <1>4 DEF LiveThreads, StaleThreads, Live, TypeOK
<1>8. t \notin LiveThreads
    BY <1>1 DEF LiveThreads, Live
<1>9. IsFiniteSet(LiveThreads)
    BY FS_Subset DEF LiveThreads
<1>10. Cardinality(LiveThreads') = Cardinality(LiveThreads) + 1
    BY <1>7, <1>8, <1>9, FS_AddElement
<1>11. ThreadsOK'
    BY <1>1, <1>2 DEF ThreadsOK, Live, TypeOK
<1>12. VisitOK'
    BY <1>1 DEF VisitOK
<1>13. OneCurrentThread'
  <2> SUFFICES ASSUME NEW w \in Workers
               PROVE (\E u \in Threads :
                        /\ Current(u, w)
                        /\ \A v \in Threads : Current(v, w) => v = u)'
      BY <1>1 DEF OneCurrentThread
  <2>1. CASE w = visiting
    <3>1. \A u \in Threads : ~Current(u, w)
        BY <1>1, <2>1 DEF OneCurrentThread
    <3> QED BY <1>3, <1>5, <2>1, <3>1
  <2>2. CASE w # visiting
    <3>1. PICK u \in Threads : /\ Current(u, w)
                               /\ \A v \in Threads : Current(v, w) => v = u
        BY <2>2 DEF OneCurrentThread
    <3> QED BY <1>3, <1>5, <1>6, <2>2, <3>1
  <2> QED BY <2>1, <2>2
<1>14. LeakAccounting'
    BY <1>1, <1>7 DEF LeakAccounting, StaleThreads
<1>15. BudgetOK'
    BY <1>1 DEF BudgetOK
<1>16. ThreadCount'
  <2>1. Cardinality(LiveThreads) \in Nat /\ Cardinality(Workers) \in Nat
      BY <1>9, FS_CardinalityType
  <2> QED BY <1>1, <1>10, <2>1 DEF ThreadCount, TypeOK
<1> QED BY <1>11, <1>12, <1>13, <1>14, <1>15, <1>16

-----------------------------------------------------------------------------
LEMMA StepPoolInv == PoolInv /\ [Next]_vars => PoolInv'
<1> SUFFICES ASSUME PoolInv, [Next]_vars PROVE PoolInv'
    OBVIOUS
<1>0. TypeOK'
    BY StepTypeOK DEF PoolInv
<1> USE <1>0
<1> USE DEF queueVars, workerVars, threadVars, watchdogVars
<1>1. ASSUME UNCHANGED <<wpc, visiting, started, leaked, generation, worker,
                         myGen>>,
             \A t \in Threads : /\ pc'[t] = "dead" <=> pc[t] = "dead"
                                /\ pc'[t] = "spawned" <=> pc[t] = "spawned"
      PROVE  PoolInv'
  <2>1. VisitOK' BY <1>1 DEF VisitOK, PoolInv
  <2>2. BudgetOK' BY <1>1 DEF BudgetOK, PoolInv
  <2> QED BY <1>1, <2>1, <2>2, QuietStep
<1>2. ASSUME UNCHANGED <<pc, leaked, generation, worker, myGen>>,
             wpc \notin {"bump", "spawn"}, wpc' \notin {"bump", "spawn"},
             VisitOK', BudgetOK'
      PROVE  PoolInv'
    BY <1>2, QuietStep
<1>3. ASSUME NEW j \in Jobs, Submit(j) \/ UserCancel(j) PROVE PoolInv'
    BY <1>1, <1>3 DEF Submit, Reserve, GiveBack, Send, UserCancel
<1>4. ASSUME NEW t \in Threads, Worker(t) PROVE PoolInv'
  <2> USE DEF PoolInv, TypeOK
  <2>1. CASE Begin(t) BY <2>1, BeginStep
  <2>2. CASE RetireAtTop(t) \/ RetireAfterJob(t) BY <2>2, RetireStep
  <2>3. CASE PassTop(t) BY <1>1, <2>3 DEF PassTop
  <2>4. CASE Receive(t) BY <1>1, <2>4 DEF Receive
  <2>5. CASE Account(t) BY <1>1, <2>5 DEF Account
  <2>6. CASE PublishToken(t) BY <1>1, <2>6 DEF PublishToken
  <2>7. CASE Arm(t) BY <1>1, <2>7 DEF Arm
  <2>8. CASE JobEnds(t) BY <1>1, <2>8 DEF JobEnds
  <2>9. CASE CheckGeneration(t) BY <1>1, <2>9 DEF CheckGeneration
  <2>10. CASE Disarm(t) BY <1>1, <2>10 DEF Disarm
  <2>11. CASE ClearToken(t) BY <1>1, <2>11 DEF ClearToken
  <2>12. CASE Finish(t) BY <1>1, <2>12 DEF Finish
  <2>13. CASE LoopBack(t) BY <1>1, <2>13 DEF LoopBack
  <2> QED BY <1>4, <2>1, <2>2, <2>3, <2>4, <2>5, <2>6, <2>7, <2>8, <2>9,
             <2>10, <2>11, <2>12, <2>13 DEF Worker
<1>5. ASSUME NEW w \in Workers, PassTimeout(w) PROVE PoolInv'
    BY <1>1, <1>5 DEF PassTimeout
<1>6. CASE Watchdog
  <2> USE DEF PoolInv, VisitOK, BudgetOK
  <2>1. CASE Wake BY <1>2, <2>1 DEF Wake
  <2>2. CASE Reread BY <1>2, <2>2 DEF Reread
  <2>3. CASE CheckBudget
    <3>1. VisitOK'
        BY <2>3 DEF CheckBudget
    <3>2. BudgetOK'
        BY <2>3, OrchestratorAssumption DEF CheckBudget, TypeOK
    <3>3. wpc = "budget" /\ wpc' \in {"scan", "cancel"}
        BY <2>3 DEF CheckBudget
    <3> QED BY <1>2, <2>3, <3>1, <3>2, <3>3 DEF CheckBudget
  <2>4. CASE CancelJob BY <1>2, <2>4 DEF CancelJob
  <2>5. CASE CountLeak BY <2>5, CountLeakStep
  <2>6. CASE BumpGeneration BY <2>6, BumpStep
  <2>7. CASE EndScan BY <1>2, <2>7 DEF EndScan
  <2>8. CASE Sleep BY <1>2, <2>8 DEF Sleep
  <2>9. ASSUME NEW w \in Workers, Look(w) PROVE PoolInv'
    <3>1. wpc = "scan" /\ wpc' \in {"scan", "reread"}
        BY <2>9 DEF Look
    <3>2. VisitOK'
        BY <2>9, OrchestratorAssumption DEF Look, TypeOK
    <3>3. BudgetOK'
        BY <2>9, <3>1 DEF Look
    <3> QED BY <1>2, <2>9, <3>1, <3>2, <3>3 DEF Look
  <2>10. ASSUME NEW w \in Workers, Prune(w) PROVE PoolInv'
      BY <1>2, <2>10 DEF Prune
  <2>11. ASSUME NEW t \in Threads, Respawn(t) PROVE PoolInv'
      BY <2>11, RespawnStep
  <2> QED BY <1>6, <2>1, <2>2, <2>3, <2>4, <2>5, <2>6, <2>7, <2>8, <2>9,
             <2>10, <2>11 DEF Watchdog
<1>7. CASE UNCHANGED vars
    BY <1>1, <1>7 DEF vars
<1> QED BY <1>3, <1>4, <1>5, <1>6, <1>7 DEF Next

LEMMA PoolInvariant == Spec => []PoolInv
BY InitPoolInv, StepPoolInv, PTL DEF Spec

\* Every variable of the pool keeps its type.
THEOREM TypeCorrect == Spec => []TypeOK
<1>1. PoolInv => TypeOK BY DEF PoolInv
<1> QED BY <1>1, PoolInvariant, PTL

\* LEAKED_WORKERS is exactly the number of leaked threads: a retired thread
\* gives its slot back exactly once, so the counter neither drifts nor wraps.
THEOREM LeakAccountingHolds == Spec => []LeakAccounting
<1>1. PoolInv => LeakAccounting BY DEF PoolInv
<1> QED BY <1>1, PoolInvariant, PTL

\* A respawn leaves each logical worker exactly one thread that is its own.
THEOREM OneCurrentThreadHolds == Spec => []OneCurrentThread
<1>1. PoolInv => OneCurrentThread BY DEF PoolInv
<1> QED BY <1>1, PoolInvariant, PTL

\* However many jobs hang, the threads of the process stay within the pool
\* and the leak budget.
THEOREM ThreadBudgetHolds == Spec => []ThreadBudget
<1>1. PoolInv => ThreadBudget
  <2> SUFFICES ASSUME PoolInv PROVE ThreadBudget
      OBVIOUS
  <2>1. Cardinality(Workers) \in Nat
      BY OrchestratorAssumption, FS_CardinalityType
  <2>2. leaked <= MaxLeaked /\ leaked \in Int /\ MaxLeaked \in Nat
      BY OrchestratorAssumption DEF PoolInv, BudgetOK, TypeOK
  <2>3. Cardinality(LiveThreads) =
          Cardinality(Workers) + leaked
            - (IF wpc \in {"bump", "spawn"} THEN 1 ELSE 0)
      BY DEF PoolInv, ThreadCount
  <2>4. Cardinality(LiveThreads) <= Cardinality(Workers) + MaxLeaked
      BY <2>1, <2>2, <2>3
  <2> QED BY <2>2, <2>4 DEF ThreadBudget, LiveThreads
<1> QED BY <1>1, PoolInvariant, PTL

-----------------------------------------------------------------------------
(* The queues.  Besides the pool's invariant two more are inductive: the   *)
(* counter's (DepthInv) and the one that says where each job is (JobInv).  *)

\* The submit calls that hold a slot of the counter, and of these the ones
\* that will use it.
Submitting(k) ==
    {j \in Jobs : JobKind[j] = k /\ phase[j] \in {"reserved", "refused"}}
Reserved(k)   == {j \in Jobs : JobKind[j] = k /\ phase[j] = "reserved"}

\* The threads that have taken a message and not counted it yet.
Dequeuing(k) == {t \in Threads : pc[t] = "account" /\ KindOf[worker[t]] = k}

\* The books of a queue: l messages, s submit calls of which r will send, d
\* dequeues under way.  A reserved slot is a place in the queue, so messages
\* and reserved slots together stay within the cap.
Ledger(k, l, s, d, r) ==
    /\ Len(queue[k]) = l
    /\ IsFiniteSet(Submitting(k)) /\ Cardinality(Submitting(k)) = s
    /\ IsFiniteSet(Dequeuing(k)) /\ Cardinality(Dequeuing(k)) = d
    /\ IsFiniteSet(Reserved(k)) /\ Cardinality(Reserved(k)) = r
    /\ depth[k] = l + s + d
    /\ l + r <= MaxDepth
    /\ r <= s

DepthInv == \A k \in Kinds : \E l, s, d, r \in Nat : Ledger(k, l, s, d, r)

Holding == {"account", "publish", "arm", "run"}
Leaving == {"check", "disarm", "untoken", "finish"}

\* The queues hold the queued jobs of their kind, each once.
QueuesOK ==
    \A k \in Kinds :
        /\ \A i \in DOMAIN queue[k] : /\ JobKind[queue[k][i]] = k
                                      /\ phase[queue[k][i]] = "queued"
        /\ \A i, n \in DOMAIN queue[k] : queue[k][i] = queue[k][n] => i = n

\* A thread has a job from its dequeue to its Finish, and shares it with no
\* other thread.
HoldersOK ==
    \A t \in Threads :
        /\ pc[t] \in Holding => /\ job[t] \in Jobs
                                /\ phase[job[t]] = "held"
                                /\ JobKind[job[t]] = KindOf[worker[t]]
        /\ pc[t] \in Leaving => job[t] \in Jobs /\ phase[job[t]] = "ended"
        /\ pc[t] \notin Holding \cup Leaving => job[t] = None
        /\ \A u \in Threads : job[t] \in Jobs /\ job[u] = job[t] => u = t

\* No accepted job is lost.
NoneLost ==
    \A j \in Jobs :
        /\ phase[j] = "queued" =>
             \E i \in DOMAIN queue[JobKind[j]] : queue[JobKind[j]][i] = j
        /\ phase[j] = "held" => \E t \in Threads : job[t] = j

JobInv ==
    /\ QueuesOK
    /\ HoldersOK
    /\ NoneLost

LEMMA OneMore ==
    ASSUME NEW S, IsFiniteSet(S), NEW x, x \notin S, NEW T, T = S \cup {x}
    PROVE  IsFiniteSet(T) /\ Cardinality(T) = Cardinality(S) + 1
BY FS_AddElement

LEMMA OneLess ==
    ASSUME NEW S, IsFiniteSet(S), NEW x, x \in S, NEW T, T = S \ {x}
    PROVE  IsFiniteSet(T) /\ Cardinality(T) = Cardinality(S) - 1
BY FS_RemoveElement

LEMMA InitQueueInv == Init => DepthInv /\ JobInv
<1> SUFFICES ASSUME Init PROVE DepthInv /\ JobInv
    OBVIOUS
<1> USE OrchestratorAssumption DEF Init
<1>1. ASSUME NEW k \in Kinds PROVE Ledger(k, 0, 0, 0, 0)
  <2>1. /\ Submitting(k) = {}
        /\ Reserved(k) = {}
        /\ Dequeuing(k) = {}
      BY DEF Submitting, Reserved, Dequeuing
  <2> QED BY <2>1, FS_EmptySet DEF Ledger
<1>2. DepthInv
    BY <1>1 DEF DepthInv
<1>3. QueuesOK
    BY DEF QueuesOK
<1>4. HoldersOK
    BY DEF HoldersOK, Holding, Leaving
<1>5. NoneLost
    BY DEF NoneLost
<1> QED BY <1>2, <1>3, <1>4, <1>5 DEF JobInv

LEMMA QuietDepth ==
    ASSUME DepthInv, UNCHANGED <<queue, depth, phase>>,
           \A t \in Threads :
              /\ pc'[t] = "account" <=> pc[t] = "account"
              /\ pc[t] = "account" => worker'[t] = worker[t]
    PROVE  DepthInv'
<1>1. \A k \in Kinds : /\ Submitting(k)' = Submitting(k)
                       /\ Reserved(k)' = Reserved(k)
                       /\ Dequeuing(k)' = Dequeuing(k)
    BY DEF Submitting, Reserved, Dequeuing
<1>2. ASSUME NEW k \in Kinds PROVE (\E l, s, d, r \in Nat : Ledger(k, l, s, d, r))'
  <2>1. PICK l, s, d, r \in Nat : Ledger(k, l, s, d, r)
      BY DEF DepthInv
  <2>2. Ledger(k, l, s, d, r)'
      BY <1>1, <2>1 DEF Ledger
  <2> QED BY <2>2
<1> QED BY <1>2 DEF DepthInv

LEMMA QuietJobs ==
    ASSUME JobInv, UNCHANGED <<queue, phase, job>>,
           \A t \in Threads :
              /\ pc'[t] \in Holding <=> pc[t] \in Holding
              /\ pc'[t] \in Leaving <=> pc[t] \in Leaving
              /\ pc[t] \in Holding => worker'[t] = worker[t]
    PROVE  JobInv'
<1>1. QueuesOK'
    BY DEF JobInv, QueuesOK
<1>2. HoldersOK'
    BY DEF JobInv, HoldersOK
<1>3. NoneLost'
    BY DEF JobInv, NoneLost
<1> QED BY <1>1, <1>2, <1>3 DEF JobInv

-----------------------------------------------------------------------------
(* The seven steps that move a job or the counter.                         *)

\* The slot is taken before the cap is looked at: past the cap the call keeps
\* it only as refused.
LEMMA ReserveQueues ==
    ASSUME TypeOK, DepthInv, JobInv, NEW j \in Jobs, Reserve(j)
    PROVE  DepthInv' /\ JobInv'
<1> USE OrchestratorAssumption DEF threadVars
<1>1. /\ phase[j] = "new"
      /\ depth' = [depth EXCEPT ![JobKind[j]] = @ + 1]
      /\ phase' = [phase EXCEPT ![j] =
                     IF depth[JobKind[j]] >= MaxDepth THEN "refused" ELSE "reserved"]
      /\ UNCHANGED <<queue, pc, worker, job>>
    BY DEF Reserve
<1>2. ASSUME NEW k \in Kinds PROVE (\E l, s, d, r \in Nat : Ledger(k, l, s, d, r))'
  <2>0. PICK l, s, d, r \in Nat : Ledger(k, l, s, d, r)
      BY DEF DepthInv
  <2>1. Dequeuing(k)' = Dequeuing(k)
      BY <1>1 DEF Dequeuing
  <2>2. CASE JobKind[j] # k
    <3>1. Submitting(k)' = Submitting(k) /\ Reserved(k)' = Reserved(k)
        BY <1>1, <2>2 DEF Submitting, Reserved, TypeOK
    <3>2. depth'[k] = depth[k]
        BY <1>1, <2>2 DEF TypeOK
    <3>3. Ledger(k, l, s, d, r)'
        BY <1>1, <2>0, <2>1, <3>1, <3>2 DEF Ledger
    <3> QED BY <3>3
  <2>3. CASE JobKind[j] = k
    <3>1. Submitting(k)' = Submitting(k) \cup {j} /\ j \notin Submitting(k)
        BY <1>1, <2>3 DEF Submitting, TypeOK
    <3>2. IsFiniteSet(Submitting(k)') /\ Cardinality(Submitting(k)') = s + 1
        BY <3>1, <2>0, OneMore DEF Ledger
    <3>3. depth'[k] = l + (s + 1) + d
        BY <1>1, <2>0, <2>3 DEF TypeOK, Ledger
    <3>4. CASE depth[k] >= MaxDepth
      <4>1. Reserved(k)' = Reserved(k)
          BY <1>1, <2>3, <3>4 DEF Reserved, TypeOK
      <4>2. Ledger(k, l, s + 1, d, r)'
          BY <1>1, <2>0, <2>1, <3>2, <3>3, <4>1 DEF Ledger
      <4> QED BY <4>2
    <3>5. CASE ~(depth[k] >= MaxDepth)
      <4>1. Reserved(k)' = Reserved(k) \cup {j} /\ j \notin Reserved(k)
          BY <1>1, <2>3, <3>5 DEF Reserved, TypeOK
      <4>2. IsFiniteSet(Reserved(k)') /\ Cardinality(Reserved(k)') = r + 1
          BY <4>1, <2>0, OneMore DEF Ledger
      <4>3. l + (r + 1) <= MaxDepth /\ r + 1 <= s + 1
          BY <2>0, <3>5 DEF Ledger
      <4>4. Ledger(k, l, s + 1, d, r + 1)'
          BY <1>1, <2>0, <2>1, <3>2, <3>3, <4>2, <4>3 DEF Ledger
      <4> QED BY <4>4
    <3> QED BY <3>4, <3>5
  <2> QED BY <2>2, <2>3
<1>3. DepthInv'
    BY <1>2 DEF DepthInv
<1>4. QueuesOK'
    BY <1>1 DEF JobInv, QueuesOK, TypeOK
<1>5. HoldersOK'
    BY <1>1 DEF JobInv, HoldersOK, TypeOK
<1>6. NoneLost'
    BY <1>1 DEF JobInv, NoneLost, TypeOK
<1> QED BY <1>3, <1>4, <1>5, <1>6 DEF JobInv

LEMMA GiveBackQueues ==
    ASSUME TypeOK, DepthInv, JobInv, NEW j \in Jobs, GiveBack(j)
    PROVE  DepthInv' /\ JobInv'
<1> USE OrchestratorAssumption DEF threadVars
<1>1. /\ phase[j] = "refused"
      /\ depth' = [depth EXCEPT ![JobKind[j]] = @ - 1]
      /\ phase' = [phase EXCEPT ![j] = "rejected"]
      /\ UNCHANGED <<queue, pc, worker, job>>
    BY DEF GiveBack
<1>2. ASSUME NEW k \in Kinds PROVE (\E l, s, d, r \in Nat : Ledger(k, l, s, d, r))'
  <2>0. PICK l, s, d, r \in Nat : Ledger(k, l, s, d, r)
      BY DEF DepthInv
  <2>1. Dequeuing(k)' = Dequeuing(k) /\ Reserved(k)' = Reserved(k)
      BY <1>1 DEF Dequeuing, Reserved, TypeOK
  <2>2. CASE JobKind[j] # k
    <3>1. Submitting(k)' = Submitting(k)
        BY <1>1, <2>2 DEF Submitting, TypeOK
    <3>2. depth'[k] = depth[k]
        BY <1>1, <2>2 DEF TypeOK
    <3>3. Ledger(k, l, s, d, r)'
        BY <1>1, <2>0, <2>1, <3>1, <3>2 DEF Ledger
    <3> QED BY <3>3
  <2>3. CASE JobKind[j] = k
    <3>1. /\ Submitting(k)' = Submitting(k) \ {j}
          /\ j \in Submitting(k)
          /\ Reserved(k) \subseteq Submitting(k) \ {j}
        BY <1>1, <2>3 DEF Submitting, Reserved, TypeOK
    <3>2. IsFiniteSet(Submitting(k)') /\ Cardinality(Submitting(k)') = s - 1
        BY <3>1, <2>0, OneLess DEF Ledger
    <3>3. r <= s - 1 /\ s - 1 \in Nat
        BY <2>0, <3>1, <3>2, FS_Subset, FS_CardinalityType DEF Ledger
    <3>4. depth'[k] = l + (s - 1) + d
        BY <1>1, <2>0, <2>3 DEF TypeOK, Ledger
    <3>5. Ledger(k, l, s - 1, d, r)'
        BY <1>1, <2>0, <2>1, <3>2, <3>3, <3>4 DEF Ledger
    <3> QED BY <3>3, <3>5
  <2> QED BY <2>2, <2>3
<1>3. DepthInv'
    BY <1>2 DEF DepthInv
<1>4. QueuesOK'
    BY <1>1 DEF JobInv, QueuesOK, TypeOK
<1>5. HoldersOK'
    BY <1>1 DEF JobInv, HoldersOK, TypeOK
<1>6. NoneLost'
    BY <1>1 DEF JobInv, NoneLost, TypeOK
<1> QED BY <1>3, <1>4, <1>5, <1>6 DEF JobInv

\* The message takes the place its slot stood for.
LEMMA SendQueues ==
    ASSUME TypeOK, DepthInv, JobInv, NEW j \in Jobs, Send(j)
    PROVE  DepthInv' /\ JobInv'
<1> USE OrchestratorAssumption DEF threadVars
<1> DEFINE q == JobKind[j]
<1>1. /\ phase[j] = "reserved"
      /\ queue' = [queue EXCEPT ![q] = Append(queue[q], j)]
      /\ phase' = [phase EXCEPT ![j] = "queued"]
      /\ UNCHANGED <<depth, pc, worker, job>>
    BY DEF Send
<1>2. q \in Kinds /\ queue[q] \in Seq(Jobs) /\ Len(queue[q]) \in Nat
    BY DEF TypeOK
<1>3. \A k \in Kinds : k # q => queue'[k] = queue[k]
    BY <1>1 DEF TypeOK
<1>4. queue'[q] = Append(queue[q], j)
    BY <1>1 DEF TypeOK
<1>5. /\ DOMAIN queue'[q] = 1 .. (Len(queue[q]) + 1)
      /\ DOMAIN queue[q] = 1 .. Len(queue[q])
      /\ Len(queue'[q]) = Len(queue[q]) + 1
      /\ queue'[q][Len(queue[q]) + 1] = j
      /\ \A i \in DOMAIN queue[q] : queue'[q][i] = queue[q][i]
    BY <1>2, <1>4
<1>6. \A k \in Kinds : \A i \in DOMAIN queue[k] : queue[k][i] # j /\ queue[k][i] \in Jobs
    BY <1>1 DEF JobInv, QueuesOK, TypeOK
<1> HIDE DEF q
<1>7. ASSUME NEW k \in Kinds PROVE (\E l, s, d, r \in Nat : Ledger(k, l, s, d, r))'
  <2>0. PICK l, s, d, r \in Nat : Ledger(k, l, s, d, r)
      BY DEF DepthInv
  <2>1. Dequeuing(k)' = Dequeuing(k)
      BY <1>1 DEF Dequeuing
  <2>2. CASE q # k
    <3>1. Submitting(k)' = Submitting(k) /\ Reserved(k)' = Reserved(k)
        BY <1>1, <2>2 DEF Submitting, Reserved, TypeOK, q
    <3>2. Ledger(k, l, s, d, r)'
        BY <1>1, <1>3, <2>0, <2>1, <2>2, <3>1 DEF Ledger
    <3> QED BY <3>2
  <2>3. CASE q = k
    <3>1. /\ Submitting(k)' = Submitting(k) \ {j} /\ j \in Submitting(k)
          /\ Reserved(k)' = Reserved(k) \ {j} /\ j \in Reserved(k)
        BY <1>1, <2>3 DEF Submitting, Reserved, TypeOK, q
    <3>2. IsFiniteSet(Submitting(k)') /\ Cardinality(Submitting(k)') = s - 1
        BY <3>1, <2>0, OneLess DEF Ledger
    <3>3. IsFiniteSet(Reserved(k)') /\ Cardinality(Reserved(k)') = r - 1
        BY <3>1, <2>0, OneLess DEF Ledger
    <3>4. s - 1 \in Nat /\ r - 1 \in Nat
        BY <3>2, <3>3, FS_CardinalityType
    <3>5. Len(queue'[k]) = l + 1
        BY <1>5, <2>0, <2>3 DEF Ledger
    <3>6. /\ depth[k] = (l + 1) + (s - 1) + d
          /\ (l + 1) + (r - 1) <= MaxDepth
          /\ r - 1 <= s - 1
      <4>1. /\ l + s + d = (l + 1) + (s - 1) + d
            /\ l + r = (l + 1) + (r - 1)
          OBVIOUS
      <4> QED BY <2>0, <4>1 DEF Ledger
    <3>7. Ledger(k, l + 1, s - 1, d, r - 1)'
        BY <1>1, <2>0, <2>1, <3>2, <3>3, <3>5, <3>6 DEF Ledger
    <3> QED BY <3>4, <3>7
  <2> QED BY <2>2, <2>3
<1>8. DepthInv'
    BY <1>7 DEF DepthInv
<1>9. QueuesOK'
  <2> SUFFICES ASSUME NEW k \in Kinds
               PROVE  /\ \A i \in DOMAIN queue'[k] : /\ JobKind[queue'[k][i]] = k
                                                     /\ phase'[queue'[k][i]] = "queued"
                      /\ \A i, n \in DOMAIN queue'[k] :
                            queue'[k][i] = queue'[k][n] => i = n
      BY DEF QueuesOK
  <2>0. /\ \A i \in DOMAIN queue[k] : /\ JobKind[queue[k][i]] = k
                                      /\ phase[queue[k][i]] = "queued"
        /\ \A i, n \in DOMAIN queue[k] : queue[k][i] = queue[k][n] => i = n
      BY DEF JobInv, QueuesOK
  <2>1. \A i \in DOMAIN queue[k] : phase'[queue[k][i]] = "queued"
      BY <1>1, <1>6, <2>0 DEF TypeOK
  <2>2. CASE k # q
      BY <1>3, <2>0, <2>1, <2>2
  <2>3. CASE k = q
    <3>1. \A i \in DOMAIN queue'[q] : i \in DOMAIN queue[q] \/ i = Len(queue[q]) + 1
        BY <1>2, <1>5
    <3>2. phase'[j] = "queued" /\ JobKind[j] = q
        BY <1>1 DEF TypeOK, q
    <3>3. \A i \in DOMAIN queue'[k] : /\ JobKind[queue'[k][i]] = k
                                      /\ phase'[queue'[k][i]] = "queued"
        BY SMTT(20), <1>5, <2>0, <2>1, <2>3, <3>1, <3>2
    <3>4. \A i, n \in DOMAIN queue'[k] : queue'[k][i] = queue'[k][n] => i = n
        BY SMTT(20), <1>5, <1>6, <2>0, <2>3, <3>1
    <3> QED BY <3>3, <3>4
  <2> QED BY <2>2, <2>3
<1>10. HoldersOK'
    BY <1>1 DEF JobInv, HoldersOK, TypeOK
<1>11. NoneLost'
  <2> SUFFICES ASSUME NEW i \in Jobs
               PROVE  /\ phase'[i] = "queued" =>
                           \E n \in DOMAIN queue'[JobKind[i]] :
                              queue'[JobKind[i]][n] = i
                      /\ phase'[i] = "held" => \E t \in Threads : job'[t] = i
      BY DEF NoneLost
  <2>1. CASE i = j
    <3>1. JobKind[i] = q BY <2>1 DEF q
    <3>2. Len(queue[q]) + 1 \in DOMAIN queue'[q] BY <1>2, <1>5
    <3> QED BY <1>1, <1>5, <2>1, <3>1, <3>2 DEF TypeOK
  <2>2. CASE i # j
    <3>1. phase'[i] = phase[i]
        BY <1>1, <2>2 DEF TypeOK
    <3>2. ASSUME phase[i] = "queued"
          PROVE  \E n \in DOMAIN queue'[JobKind[i]] : queue'[JobKind[i]][n] = i
      <4>1. PICK n \in DOMAIN queue[JobKind[i]] : queue[JobKind[i]][n] = i
          BY <3>2 DEF JobInv, NoneLost
      <4>2. n \in DOMAIN queue'[q] \/ JobKind[i] # q
          BY <1>2, <1>5, <4>1
      <4> QED BY <1>3, <1>5, <4>1, <4>2
    <3> QED BY <1>1, <3>1, <3>2 DEF JobInv, NoneLost
  <2> QED BY <2>1, <2>2
<1> QED BY <1>8, <1>9, <1>10, <1>11 DEF JobInv

\* The oldest message leaves its queue and is one thread's.
LEMMA ReceiveQueues ==
    ASSUME TypeOK, ThreadsOK, DepthInv, JobInv, NEW t \in Threads, Receive(t)
    PROVE  DepthInv' /\ JobInv'
<1> USE OrchestratorAssumption
<1> DEFINE q == KindOf[worker[t]]
           j == Head(queue[q])
<1>1. /\ pc[t] = "recv"
      /\ queue[q] # <<>>
      /\ job' = [job EXCEPT ![t] = j]
      /\ queue' = [queue EXCEPT ![q] = Tail(queue[q])]
      /\ phase' = [phase EXCEPT ![j] = "held"]
      /\ pc' = [pc EXCEPT ![t] = "account"]
      /\ UNCHANGED <<depth, worker>>
    BY DEF Receive
<1>2. q \in Kinds /\ queue[q] \in Seq(Jobs)
    BY <1>1 DEF TypeOK, ThreadsOK, Live
<1>3. /\ Len(queue[q]) \in Nat /\ Len(queue[q]) >= 1
      /\ DOMAIN queue[q] = 1 .. Len(queue[q])
      /\ Len(Tail(queue[q])) = Len(queue[q]) - 1
      /\ DOMAIN Tail(queue[q]) = 1 .. (Len(queue[q]) - 1)
      /\ \A i \in 1 .. (Len(queue[q]) - 1) : Tail(queue[q])[i] = queue[q][i + 1]
      /\ j = queue[q][1] /\ j \in Jobs
    BY <1>1, <1>2
<1>4. queue'[q] = Tail(queue[q])
    BY <1>1, <1>2 DEF TypeOK
<1>5. \A k \in Kinds : k # q => queue'[k] = queue[k]
    BY <1>1 DEF TypeOK
<1>6. phase[j] = "queued" /\ JobKind[j] = q
    BY <1>2, <1>3 DEF JobInv, QueuesOK
<1>7. phase'[j] = "held" /\ \A i \in Jobs : i # j => phase'[i] = phase[i]
    BY <1>1, <1>3 DEF TypeOK
<1>8. job'[t] = j /\ \A u \in Threads : u # t => job'[u] = job[u]
    BY <1>1 DEF TypeOK
<1>9. pc'[t] = "account" /\ \A u \in Threads : u # t => pc'[u] = pc[u]
    BY <1>1 DEF TypeOK
<1> HIDE DEF q, j
<1>10. ASSUME NEW k \in Kinds PROVE (\E l, s, d, r \in Nat : Ledger(k, l, s, d, r))'
  <2>0. PICK l, s, d, r \in Nat : Ledger(k, l, s, d, r)
      BY DEF DepthInv
  <2>1. Submitting(k)' = Submitting(k) /\ Reserved(k)' = Reserved(k)
      BY <1>6, <1>7 DEF Submitting, Reserved
  <2>2. CASE q # k
    <3>1. Dequeuing(k)' = Dequeuing(k)
        BY <1>1, <1>9, <2>2 DEF Dequeuing, q
    <3>2. Ledger(k, l, s, d, r)'
        BY <1>1, <1>5, <2>0, <2>1, <2>2, <3>1 DEF Ledger
    <3> QED BY <3>2
  <2>3. CASE q = k
    <3>1. Dequeuing(k)' = Dequeuing(k) \cup {t} /\ t \notin Dequeuing(k)
        BY <1>1, <1>9, <2>3 DEF Dequeuing, q
    <3>2. IsFiniteSet(Dequeuing(k)') /\ Cardinality(Dequeuing(k)') = d + 1
        BY <3>1, <2>0, OneMore DEF Ledger
    <3>3. Len(queue'[k]) = l - 1 /\ l >= 1
        BY <1>3, <1>4, <2>0, <2>3 DEF Ledger
    <3>4. depth[k] = (l - 1) + s + (d + 1) /\ (l - 1) + r <= MaxDepth /\ l - 1 \in Nat
        BY <2>0, <3>3 DEF Ledger
    <3>5. Ledger(k, l - 1, s, d + 1, r)'
        BY <1>1, <2>0, <2>1, <3>2, <3>3, <3>4 DEF Ledger
    <3> QED BY <3>4, <3>5
  <2> QED BY <2>2, <2>3
<1>11. DepthInv'
    BY <1>10 DEF DepthInv
<1>12. \A i \in DOMAIN queue'[q] : /\ i + 1 \in DOMAIN queue[q]
                                   /\ queue'[q][i] = queue[q][i + 1]
                                   /\ i \in Nat
    BY <1>3, <1>4
<1>13. \A i \in DOMAIN queue'[q] : queue'[q][i] # j
  <2> SUFFICES ASSUME NEW i \in DOMAIN queue'[q], queue[q][i + 1] = j PROVE FALSE
      BY <1>12
  <2>1. 1 \in DOMAIN queue[q] /\ i + 1 \in DOMAIN queue[q] /\ i \in Nat /\ i >= 1
      BY <1>3, <1>4, <1>12
  <2>2. queue[q][i + 1] = queue[q][1] => i + 1 = 1
      BY <1>2, <2>1 DEF JobInv, QueuesOK
  <2> QED BY <1>3, <2>1, <2>2
<1>14. QueuesOK'
  <2> SUFFICES ASSUME NEW k \in Kinds
               PROVE  /\ \A i \in DOMAIN queue'[k] : /\ JobKind[queue'[k][i]] = k
                                                     /\ phase'[queue'[k][i]] = "queued"
                      /\ \A i, n \in DOMAIN queue'[k] :
                            queue'[k][i] = queue'[k][n] => i = n
      BY DEF QueuesOK
  <2>0. /\ \A i \in DOMAIN queue[k] : /\ JobKind[queue[k][i]] = k
                                      /\ phase[queue[k][i]] = "queued"
                                      /\ queue[k][i] \in Jobs
        /\ \A i, n \in DOMAIN queue[k] : queue[k][i] = queue[k][n] => i = n
      BY DEF JobInv, QueuesOK, TypeOK
  <2>1. CASE k # q
    <3>1. \A i \in DOMAIN queue[k] : queue[k][i] # j
        BY <1>6, <2>0, <2>1
    <3> QED BY <1>5, <1>7, <2>0, <2>1, <3>1
  <2>2. CASE k = q
    <3>1. \A i \in DOMAIN queue'[k] : /\ JobKind[queue'[k][i]] = k
                                      /\ phase'[queue'[k][i]] = "queued"
        BY <1>7, <1>12, <1>13, <2>0, <2>2
    <3>2. \A i, n \in DOMAIN queue'[k] : queue'[k][i] = queue'[k][n] => i = n
        BY <1>12, <2>0, <2>2
    <3> QED BY <3>1, <3>2
  <2> QED BY <2>1, <2>2
<1>15. \A u \in Threads : job[u] # j
    BY <1>3, <1>6 DEF JobInv, HoldersOK
<1>16. HoldersOK'
  <2> SUFFICES ASSUME NEW u \in Threads
               PROVE  /\ pc'[u] \in Holding => /\ job'[u] \in Jobs
                                               /\ phase'[job'[u]] = "held"
                                               /\ JobKind[job'[u]] = KindOf[worker'[u]]
                      /\ pc'[u] \in Leaving =>
                            job'[u] \in Jobs /\ phase'[job'[u]] = "ended"
                      /\ pc'[u] \notin Holding \cup Leaving => job'[u] = None
                      /\ \A v \in Threads :
                            job'[u] \in Jobs /\ job'[v] = job'[u] => v = u
      BY DEF HoldersOK
  <2>1. CASE u = t
    <3>1. worker'[u] = worker[t] /\ JobKind[j] = KindOf[worker[t]]
        BY <1>1, <1>6, <2>1 DEF q
    <3>2. \A v \in Threads : job'[v] = j => v = t
        BY <1>8, <1>15
    <3> QED BY <1>3, <1>7, <1>8, <1>9, <2>1, <3>1, <3>2 DEF Holding, Leaving
  <2>2. CASE u # t
    <3>1. pc'[u] = pc[u] /\ job'[u] = job[u] /\ worker'[u] = worker[u]
        BY <1>1, <1>8, <1>9, <2>2
    <3>2. job[u] \in Jobs => phase'[job[u]] = phase[job[u]]
        BY <1>7, <1>15
    <3>3. \A v \in Threads : job[u] \in Jobs /\ job'[v] = job[u] => v = u
        BY <1>8, <1>15 DEF JobInv, HoldersOK
    <3> QED BY <3>1, <3>2, <3>3 DEF JobInv, HoldersOK
  <2> QED BY <2>1, <2>2
<1>17. NoneLost'
  <2> SUFFICES ASSUME NEW i \in Jobs
               PROVE  /\ phase'[i] = "queued" =>
                           \E n \in DOMAIN queue'[JobKind[i]] :
                              queue'[JobKind[i]][n] = i
                      /\ phase'[i] = "held" => \E u \in Threads : job'[u] = i
      BY DEF NoneLost
  <2>1. CASE i = j
      BY <1>7, <1>8, <2>1
  <2>2. CASE i # j
    <3>1. ASSUME phase[i] = "queued"
          PROVE  \E n \in DOMAIN queue'[JobKind[i]] : queue'[JobKind[i]][n] = i
      <4>1. PICK n \in DOMAIN queue[JobKind[i]] : queue[JobKind[i]][n] = i
          BY <3>1 DEF JobInv, NoneLost
      <4>2. CASE JobKind[i] # q
          BY <1>5, <4>1, <4>2
      <4>3. CASE JobKind[i] = q
        <5>1. n \in 2 .. Len(queue[q])
            BY <1>3, <2>2, <4>1, <4>3
        <5>2. n - 1 \in DOMAIN queue'[q] /\ queue'[q][n - 1] = queue[q][n]
            BY <1>3, <1>4, <5>1
        <5> QED BY <4>1, <4>3, <5>2
      <4> QED BY <4>2, <4>3
    <3>2. ASSUME phase[i] = "held" PROVE \E u \in Threads : job'[u] = i
      <4>1. PICK u \in Threads : job[u] = i
          BY <3>2 DEF JobInv, NoneLost
      <4>2. u # t
          BY <1>1, <4>1 DEF JobInv, HoldersOK, Holding, Leaving
      <4> QED BY <1>8, <4>1, <4>2
    <3> QED BY <1>7, <2>2, <3>1, <3>2
  <2> QED BY <2>1, <2>2
<1> QED BY <1>11, <1>14, <1>16, <1>17 DEF JobInv

\* The counter goes down one step after the message has left.
LEMMA AccountQueues ==
    ASSUME TypeOK, ThreadsOK, DepthInv, JobInv, NEW t \in Threads, Account(t)
    PROVE  DepthInv' /\ JobInv'
<1> USE OrchestratorAssumption
<1> DEFINE q == KindOf[worker[t]]
<1>1. /\ pc[t] = "account"
      /\ depth' = [depth EXCEPT ![q] = @ - 1]
      /\ pc' = [pc EXCEPT ![t] = "publish"]
      /\ UNCHANGED <<queue, phase, worker, job>>
    BY DEF Account
<1>2. q \in Kinds
    BY <1>1 DEF TypeOK, ThreadsOK, Live
<1>3. pc'[t] = "publish" /\ \A u \in Threads : u # t => pc'[u] = pc[u]
    BY <1>1 DEF TypeOK
<1>4. depth'[q] = depth[q] - 1 /\ \A k \in Kinds : k # q => depth'[k] = depth[k]
    BY <1>1, <1>2 DEF TypeOK
<1> HIDE DEF q
<1>5. ASSUME NEW k \in Kinds PROVE (\E l, s, d, r \in Nat : Ledger(k, l, s, d, r))'
  <2>0. PICK l, s, d, r \in Nat : Ledger(k, l, s, d, r)
      BY DEF DepthInv
  <2>1. Submitting(k)' = Submitting(k) /\ Reserved(k)' = Reserved(k)
      BY <1>1 DEF Submitting, Reserved
  <2>2. CASE q # k
    <3>1. Dequeuing(k)' = Dequeuing(k)
        BY <1>1, <1>3, <2>2 DEF Dequeuing, q
    <3>2. Ledger(k, l, s, d, r)'
        BY <1>1, <1>4, <2>0, <2>1, <2>2, <3>1 DEF Ledger
    <3> QED BY <3>2
  <2>3. CASE q = k
    <3>1. Dequeuing(k)' = Dequeuing(k) \ {t} /\ t \in Dequeuing(k)
        BY <1>1, <1>3, <2>3 DEF Dequeuing, q
    <3>2. IsFiniteSet(Dequeuing(k)') /\ Cardinality(Dequeuing(k)') = d - 1
        BY <3>1, <2>0, OneLess DEF Ledger
    <3>3. d - 1 \in Nat
        BY <3>2, FS_CardinalityType
    <3>4. depth'[k] = l + s + (d - 1)
        BY <1>4, <2>0, <2>3 DEF Ledger
    <3>5. Ledger(k, l, s, d - 1, r)'
        BY <1>1, <2>0, <2>1, <3>2, <3>4 DEF Ledger
    <3> QED BY <3>3, <3>5
  <2> QED BY <2>2, <2>3
<1>6. DepthInv'
    BY <1>5 DEF DepthInv
<1>7. JobInv'
    BY <1>1, <1>3, QuietJobs DEF Holding, Leaving
<1> QED BY <1>6, <1>7

LEMMA JobEndsQueues ==
    ASSUME TypeOK, DepthInv, JobInv, NEW t \in Threads, JobEnds(t)
    PROVE  DepthInv' /\ JobInv'
<1> USE OrchestratorAssumption
<1>1. /\ pc[t] = "run"
      /\ phase' = [phase EXCEPT ![job[t]] = "ended"]
      /\ pc' = [pc EXCEPT ![t] = "check"]
      /\ UNCHANGED <<queue, depth, worker, job>>
    BY DEF JobEnds
<1>2. job[t] \in Jobs /\ phase[job[t]] = "held"
    BY <1>1 DEF JobInv, HoldersOK, Holding
<1>3. /\ phase'[job[t]] = "ended"
      /\ \A i \in Jobs : i # job[t] => phase'[i] = phase[i]
    BY <1>1, <1>2 DEF TypeOK
<1>4. pc'[t] = "check" /\ \A u \in Threads : u # t => pc'[u] = pc[u]
    BY <1>1 DEF TypeOK
<1>5. \A k \in Kinds : /\ Submitting(k)' = Submitting(k)
                       /\ Reserved(k)' = Reserved(k)
                       /\ Dequeuing(k)' = Dequeuing(k)
    BY <1>1, <1>2, <1>3, <1>4 DEF Submitting, Reserved, Dequeuing
<1>6. DepthInv'
  <2>1. ASSUME NEW k \in Kinds PROVE (\E l, s, d, r \in Nat : Ledger(k, l, s, d, r))'
    <3>1. PICK l, s, d, r \in Nat : Ledger(k, l, s, d, r)
        BY DEF DepthInv
    <3>2. Ledger(k, l, s, d, r)'
        BY <1>1, <1>5, <3>1 DEF Ledger
    <3> QED BY <3>2
  <2> QED BY <2>1 DEF DepthInv
<1>7. QueuesOK'
  <2>1. \A k \in Kinds : \A i \in DOMAIN queue[k] :
           queue[k][i] \in Jobs /\ queue[k][i] # job[t]
      BY <1>2 DEF JobInv, QueuesOK, TypeOK
  <2> QED BY <1>1, <1>3, <2>1 DEF JobInv, QueuesOK
<1>8. HoldersOK'
  <2>1. \A u \in Threads : u # t => job[u] # job[t]
      BY <1>2 DEF JobInv, HoldersOK
  <2> QED BY <1>1, <1>2, <1>3, <1>4, <2>1 DEF JobInv, HoldersOK, Holding, Leaving
<1>9. NoneLost'
    BY <1>1, <1>2, <1>3 DEF JobInv, NoneLost
<1> QED BY <1>6, <1>7, <1>8, <1>9 DEF JobInv

LEMMA FinishQueues ==
    ASSUME TypeOK, DepthInv, JobInv, NEW t \in Threads, Finish(t)
    PROVE  DepthInv' /\ JobInv'
<1> USE OrchestratorAssumption DEF queueVars
<1>1. /\ pc[t] = "finish"
      /\ job' = [job EXCEPT ![t] = None]
      /\ pc' = [pc EXCEPT ![t] = "recheck"]
      /\ UNCHANGED <<queue, depth, phase, worker>>
    BY DEF Finish
<1>2. job'[t] = None /\ \A u \in Threads : u # t => job'[u] = job[u]
    BY <1>1 DEF TypeOK
<1>3. pc'[t] = "recheck" /\ \A u \in Threads : u # t => pc'[u] = pc[u]
    BY <1>1 DEF TypeOK
<1>4. DepthInv'
    BY <1>1, <1>3, QuietDepth
<1>5. QueuesOK'
    BY <1>1 DEF JobInv, QueuesOK
<1>6. HoldersOK'
    BY <1>1, <1>2, <1>3 DEF JobInv, HoldersOK, Holding, Leaving
<1>7. NoneLost'
  <2>1. phase[job[t]] = "ended"
      BY <1>1 DEF JobInv, HoldersOK, Leaving
  <2> QED BY <1>1, <1>2, <2>1 DEF JobInv, NoneLost
<1> QED BY <1>4, <1>5, <1>6, <1>7 DEF JobInv

LEMMA StepQueueInv ==
    ASSUME PoolInv, DepthInv, JobInv, [Next]_vars
    PROVE  DepthInv' /\ JobInv'
<1>0. TypeOK /\ ThreadsOK
    BY DEF PoolInv
<1> USE <1>0
<1>1. ASSUME UNCHANGED <<queueVars, job>>,
             \A t \in Threads :
                /\ pc'[t] = "account" <=> pc[t] = "account"
                /\ pc'[t] \in Holding <=> pc[t] \in Holding
                /\ pc'[t] \in Leaving <=> pc[t] \in Leaving
                /\ pc[t] \in Holding => worker'[t] = worker[t]
      PROVE  DepthInv' /\ JobInv'
  <2>1. DepthInv' BY <1>1, QuietDepth DEF queueVars, Holding
  <2>2. JobInv' BY <1>1, QuietJobs DEF queueVars
  <2> QED BY <2>1, <2>2
<1>2. ASSUME NEW j \in Jobs, Submit(j) \/ UserCancel(j)
      PROVE  DepthInv' /\ JobInv'
  <2>1. CASE UserCancel(j) BY <1>1, <2>1 DEF UserCancel, threadVars
  <2> QED BY <1>2, <2>1, ReserveQueues, GiveBackQueues, SendQueues DEF Submit
<1>3. ASSUME NEW t \in Threads, Worker(t) PROVE DepthInv' /\ JobInv'
  <2> USE DEF TypeOK, Holding, Leaving
  <2>1. CASE Begin(t) BY <1>1, <2>1 DEF Begin
  <2>2. CASE RetireAtTop(t) BY <1>1, <2>2 DEF RetireAtTop, Retire
  <2>3. CASE RetireAfterJob(t) BY <1>1, <2>3 DEF RetireAfterJob, Retire
  <2>4. CASE PassTop(t) BY <1>1, <2>4 DEF PassTop
  <2>5. CASE PublishToken(t) BY <1>1, <2>5 DEF PublishToken
  <2>6. CASE Arm(t) BY <1>1, <2>6 DEF Arm
  <2>7. CASE CheckGeneration(t) BY <1>1, <2>7 DEF CheckGeneration
  <2>8. CASE Disarm(t) BY <1>1, <2>8 DEF Disarm
  <2>9. CASE ClearToken(t) BY <1>1, <2>9 DEF ClearToken
  <2>10. CASE LoopBack(t) BY <1>1, <2>10 DEF LoopBack
  <2>11. CASE Receive(t) BY <2>11, ReceiveQueues
  <2>12. CASE Account(t) BY <2>12, AccountQueues
  <2>13. CASE JobEnds(t) BY <2>13, JobEndsQueues
  <2>14. CASE Finish(t) BY <2>14, FinishQueues
  <2> QED BY <1>3, <2>1, <2>2, <2>3, <2>4, <2>5, <2>6, <2>7, <2>8, <2>9,
             <2>10, <2>11, <2>12, <2>13, <2>14 DEF Worker
<1>4. ASSUME NEW w \in Workers, PassTimeout(w) PROVE DepthInv' /\ JobInv'
    BY <1>1, <1>4 DEF PassTimeout, threadVars
<1>5. CASE Watchdog
  <2> USE DEF threadVars
  <2>1. CASE Wake BY <1>1, <2>1 DEF Wake
  <2>2. CASE Reread BY <1>1, <2>2 DEF Reread
  <2>3. CASE CheckBudget BY <1>1, <2>3 DEF CheckBudget
  <2>4. CASE CancelJob BY <1>1, <2>4 DEF CancelJob
  <2>5. CASE CountLeak BY <1>1, <2>5 DEF CountLeak
  <2>6. CASE BumpGeneration BY <1>1, <2>6 DEF BumpGeneration
  <2>7. CASE EndScan BY <1>1, <2>7 DEF EndScan
  <2>8. CASE Sleep BY <1>1, <2>8 DEF Sleep
  <2>9. ASSUME NEW w \in Workers, Look(w) PROVE DepthInv' /\ JobInv'
      BY <1>1, <2>9 DEF Look
  <2>10. ASSUME NEW w \in Workers, Prune(w) PROVE DepthInv' /\ JobInv'
      BY <1>1, <2>10 DEF Prune
  <2>11. ASSUME NEW t \in Threads, Respawn(t) PROVE DepthInv' /\ JobInv'
      BY <1>1, <2>11 DEF Respawn, TypeOK, Holding, Leaving
  <2> QED BY <1>5, <2>1, <2>2, <2>3, <2>4, <2>5, <2>6, <2>7, <2>8, <2>9,
             <2>10, <2>11 DEF Watchdog
<1>6. CASE UNCHANGED vars
    BY <1>1, <1>6 DEF vars, threadVars
<1> QED BY <1>2, <1>3, <1>4, <1>5, <1>6 DEF Next

LEMMA QueueInvariant == Spec => [](PoolInv /\ DepthInv /\ JobInv)
<1>1. Init => PoolInv /\ DepthInv /\ JobInv
    BY InitPoolInv, InitQueueInv
<1>2. PoolInv /\ DepthInv /\ JobInv /\ [Next]_vars
        => (PoolInv /\ DepthInv /\ JobInv)'
    BY StepPoolInv, StepQueueInv
<1> QED BY <1>1, <1>2, PTL DEF Spec

\* No race of submit calls lets a queue grow past MAX_QUEUE_DEPTH, and the
\* counter is the length of the queue plus the calls under way, exactly.
THEOREM QueueBoundedHolds == Spec => []QueueBounded
<1>1. DepthInv => QueueBounded
  <2> SUFFICES ASSUME DepthInv, NEW k \in Kinds
               PROVE  /\ Len(queue[k]) <= MaxDepth
                      /\ depth[k] = Len(queue[k]) + Cardinality(Submitting(k))
                                       + Cardinality(Dequeuing(k))
      BY DEF QueueBounded, Submitting, Dequeuing
  <2>1. PICK l, s, d, r \in Nat : Ledger(k, l, s, d, r)
      BY DEF DepthInv
  <2>2. l <= MaxDepth
      BY <2>1, OrchestratorAssumption DEF Ledger
  <2> QED BY <2>1, <2>2 DEF Ledger
<1> QED BY <1>1, QueueInvariant, PTL

\* From its acceptance to its end a job is in its queue exactly once, or held
\* by exactly one thread that serves that queue, whatever is respawned.
THEOREM JobsConservedHolds == Spec => []JobsConserved
<1>1. TypeOK /\ JobInv => JobsConserved
  <2> SUFFICES ASSUME TypeOK, JobInv, NEW j \in Jobs
               PROVE  /\ Cardinality({i \in DOMAIN queue[JobKind[j]] :
                                         queue[JobKind[j]][i] = j})
                            = IF phase[j] = "queued" THEN 1 ELSE 0
                      /\ phase[j] = "held" <=>
                            \E t \in Threads :
                               /\ job[t] = j
                               /\ KindOf[worker[t]] = JobKind[j]
                               /\ pc[t] \in {"account", "publish", "arm", "run"}
                               /\ \A u \in Threads : job[u] = j => u = t
      BY DEF JobsConserved
  <2> USE OrchestratorAssumption DEF JobInv
  <2> DEFINE q == queue[JobKind[j]]
             S == {i \in DOMAIN q : q[i] = j}
  <2>1. Cardinality(S) = IF phase[j] = "queued" THEN 1 ELSE 0
    <3>1. CASE phase[j] = "queued"
      <4>1. PICK n \in DOMAIN q : q[n] = j
          BY <3>1 DEF NoneLost
      <4>2. \A i, m \in DOMAIN q : q[i] = q[m] => i = m
          BY DEF QueuesOK
      <4>3. S = {n}
          BY <4>1, <4>2
      <4> QED BY <3>1, <4>3, FS_Singleton
    <3>2. CASE phase[j] # "queued"
      <4>1. S = {}
          BY <3>2 DEF QueuesOK
      <4> QED BY <3>2, <4>1, FS_EmptySet
    <3> QED BY <3>1, <3>2
  <2>2. phase[j] = "held" =>
          \E t \in Threads :
             /\ job[t] = j
             /\ KindOf[worker[t]] = JobKind[j]
             /\ pc[t] \in Holding
             /\ \A u \in Threads : job[u] = j => u = t
    <3> SUFFICES ASSUME phase[j] = "held", NEW t \in Threads, job[t] = j
                 PROVE  /\ KindOf[worker[t]] = JobKind[j]
                        /\ pc[t] \in Holding
                        /\ \A u \in Threads : job[u] = j => u = t
        BY DEF NoneLost
    <3> QED BY DEF HoldersOK
  <2>3. (\E t \in Threads : job[t] = j /\ pc[t] \in Holding) => phase[j] = "held"
      BY DEF HoldersOK
  <2> QED BY <2>1, <2>2, <2>3 DEF Holding
<1>2. PoolInv => TypeOK BY DEF PoolInv
<1> QED BY <1>1, <1>2, QueueInvariant, PTL

=============================================================================
