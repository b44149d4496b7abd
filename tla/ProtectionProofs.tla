---------------------------- MODULE ProtectionProofs ----------------------------
(***************************************************************************)
(* Theorems of Protection: a challenge lets one call through, a paused     *)
(* protection is down, no watcher runs outside the slot, no accepted       *)
(* setting is lost, and the switch agrees with the file; for every set of  *)
(* connections and every bound.                                            *)
(***************************************************************************)
EXTENDS Protection, TLAPS

\* A call past its token knows what it asks, and only the calls that save go
\* through the points of the configuration lock.
OpOK ==
  \A c \in Calls :
    /\ pc[c] # "idle" => op[c] \in Ops
    /\ pc[c] \in {"lock", "load", "mend", "save"} => op[c].kind \in {"critical", "set"}
    /\ pc[c] \in {"toggle", "flag", "act", "store"} => op[c].kind # "set"
    /\ pc[c] \in {"mend", "save"} => copy[c] \in Configs

\* The points at which a call holds a lock.
LocksOK ==
  /\ \A c \in Calls : pc[c] \in {"flag", "act", "store"} <=> toggleLock = c
  /\ mon = "store" <=> toggleLock = "monitor"
  /\ \A c \in Calls :
       \/ pc[c] \in {"load", "mend", "save"}
       \/ pc[c] \in {"toggle", "flag", "act", "store"} /\ op[c].kind = "critical"
       \/ pc[c] = "release" /\ op[c].kind \in {"critical", "set"}
       => cfgLock = c

\* A watcher runs in the slot or is about to be stored there, and only then
\* is there one that is about to be stored.
RunningOK ==
  /\ running \subseteq {slot, fresh}
  /\ fresh # None => mon = "store" \/ \E c \in Calls : pc[c] = "store"

\* Who has the toggle lock and acts on the pause knows it as it is; at the
\* start nobody acts and nothing is paused.
PauseOK ==
  /\ \A c \in Calls : pc[c] \in {"act", "store"} => userDisabled = ~op[c].value
  /\ \A c \in Calls : pc[c] = "store" => op[c].value
  /\ mon = "store" => ~userDisabled
  /\ mon = "boot" => token = None /\ ~userDisabled /\ \A c \in Calls : pc[c] = "idle"
  /\ userDisabled => running = {} \/ \E c \in Calls : pc[c] = "act"

\* The token that is out has let nobody through yet, nor has one not issued.
TokenOK ==
  /\ Len(issued) <= MaxTokens
  /\ \A i \in 1..MaxTokens : i > Len(issued) => uses[i] = <<>>
  /\ token # None =>
       /\ token.id \in 1..Len(issued)
       /\ uses[token.id] = <<>>
       /\ issued[token.id] = token.method

\* The file is what the accepted saves add up to, and so is the copy of the
\* call that is about to save.
FileOK ==
  edits = 0 =>
    /\ conf = acked
    /\ mon # "mend"
    /\ \A c \in Calls : pc[c] # "mend" /\ (pc[c] = "save" => copy[c] = conf)

Switching(c) == pc[c] \in {"toggle", "flag"} /\ op[c].kind = "critical"

\* Until set_critical has set the pause, it has the file to itself.
SwitchOK ==
  edits = 0 =>
    /\ \A c \in Calls :
         pc[c] \in {"toggle", "flag", "act", "store"} /\ op[c].kind = "critical"
           => op[c].value = conf.realtime
    /\ last = "critical" /\ (\A c \in Calls : ~Switching(c))
         => userDisabled = ~conf.realtime
    /\ last = "boot" /\ ~conf.realtime /\ (\A c \in Calls : ~Switching(c))
         => running = {} /\ mon \notin {"look", "lock", "store"}
    /\ last = "boot" => \A c \in Calls : pc[c] \notin {"act", "store"}

IInv ==
  /\ TypeOK /\ OpOK /\ LocksOK /\ RunningOK /\ PauseOK /\ TokenOK /\ FileOK /\ SwitchOK

-----------------------------------------------------------------------------
(* Lemmas on the operators.                                                *)

LEMMA OpType ==
  ASSUME NEW o \in Ops
  PROVE  o.kind \in Methods /\ o.value \in BOOLEAN
<1>1. CASE o \in [kind : {"critical", "set"}, value : BOOLEAN]
  BY <1>1 DEF Methods
<1>2. CASE o = [kind |-> "disable", value |-> FALSE]
  BY <1>2 DEF Methods
<1>3. CASE o = [kind |-> "enable", value |-> TRUE]
  BY <1>3 DEF Methods
<1> QED
  BY <1>1, <1>2, <1>3 DEF Ops

LEMMA MergedType ==
  ASSUME NEW config \in Configs, NEW o \in Ops
  PROVE  /\ Merged(config, o) \in Configs
         /\ o.kind = "critical" => Merged(config, o).realtime = o.value
         /\ o.kind # "critical" => Merged(config, o).realtime = config.realtime
<1>1. o.value \in BOOLEAN
  BY OpType
<1> QED
  BY <1>1 DEF Merged, Configs

LEMMA ReadableType ==
  ASSUME NEW c \in Configs \cup {Unreadable}
  PROVE  /\ Readable(c) \in Configs /\ Defaults \in Configs
         /\ c \in Configs => Readable(c) = c
BY ProtectionAssumption DEF Readable, Configs, Defaults

LEMMA NewWatcherType ==
  ASSUME Free # {}
  PROVE  NewWatcher \in Watchers /\ NewWatcher \notin running \cup {slot}
BY DEF NewWatcher, Free

-----------------------------------------------------------------------------
(* Every part of the invariant is kept by every step.                      *)

LEMMA TypeStep ==
  ASSUME IInv, [Next]_vars
  PROVE  TypeOK'
<1> USE ProtectionAssumption, MergedType, OpType, ReadableType, NewWatcherType DEF IInv, TypeOK, OpOK, Holders, CallPoints, MonitorPoints
<1>1. ASSUME Boot PROVE TypeOK'
  BY <1>1 DEF Boot, tokens, locks, calls, bounds
<1>2. ASSUME NEW m \in Methods, Challenge(m) PROVE TypeOK'
  BY <1>2 DEF Challenge, locks, watcher, calls, bounds
<1>3. ASSUME Expire PROVE TypeOK'
  <2>1. token' \in [id : 1..MaxTokens, method : Methods, old : BOOLEAN]
    BY <1>3 DEF Expire
  <2> QED
    BY <1>3, <2>1 DEF Expire, locks, watcher, calls, bounds
<1>4. ASSUME NEW c \in Calls, NEW o \in Ops, NEW i \in 1..Len(issued), Present(c, o, i)
       PROVE  TypeOK'
  <2>1. /\ pc[c] = "idle" /\ token # None /\ token' = None
        /\ UNCHANGED <<issued, conf, locks, watcher, copy, mon, bounds, acked, last>>
    BY <1>4 DEF Present
  <2>2. LetThrough(c, o, i) \/ UNCHANGED <<pc, op, uses>>
    BY <1>4 DEF Present
  <2>3. CASE LetThrough(c, o, i)
    <3>1. pc' \in [Calls -> CallPoints] /\ op' \in [Calls -> Ops \cup {None}]
      BY <2>3 DEF LetThrough
    <3>2. uses' \in [1..MaxTokens -> Seq(Methods)]
      <4>1. \A s \in Seq(Methods) : Append(s, o.kind) \in Seq(Methods)
        OBVIOUS
      <4>2. uses' = [uses EXCEPT ![i] = Append(@, o.kind)]
        BY <2>3 DEF LetThrough
      <4>3. uses \in [1..MaxTokens -> Seq(Methods)]
        OBVIOUS
      <4> HIDE DEF IInv, TypeOK, OpOK
      <4> QED
        BY <4>1, <4>2, <4>3
    <3> QED
      BY <2>1, <3>1, <3>2 DEF locks, watcher, bounds
  <2>4. CASE UNCHANGED <<pc, op, uses>>
    BY <2>1, <2>4 DEF locks, watcher, bounds
  <2> QED
    BY <2>2, <2>3, <2>4
<1>5. ASSUME NEW c \in Calls, LockConfig(c) PROVE TypeOK'
  BY <1>5 DEF LockConfig, To, tokens, watcher, bounds
<1>6. ASSUME NEW c \in Calls, Load(c) PROVE TypeOK'
  BY <1>6 DEF Load, To, tokens, locks, watcher, bounds
<1>7. ASSUME NEW c \in Calls, Mend(c) PROVE TypeOK'
  <2>1. Defaults \in Configs
    BY DEF Defaults, Configs
  <2>2. conf' \in Configs \cup {Unreadable}
    BY <1>7, <2>1 DEF Mend
  <2> QED
    BY <1>7, <2>2 DEF Mend, To, tokens, locks, watcher, bounds
<1>8. ASSUME NEW c \in Calls, Save(c) PROVE TypeOK'
  <2>1. CASE Saved(c)
    <3>1. conf' \in Configs /\ acked' \in Configs
      BY <1>8, <2>1 DEF Save, Saved
    <3>2. pc' \in [Calls -> CallPoints]
      BY <2>1 DEF Saved, To
    <3> QED
      BY <1>8, <3>1, <3>2 DEF Save, tokens, locks, watcher, bounds
  <2>2. CASE To(c, "release") /\ UNCHANGED <<conf, acked>>
    BY <1>8, <2>2 DEF Save, To, tokens, locks, watcher, bounds
  <2> QED
    BY <1>8, <2>1, <2>2 DEF Save
<1>9. ASSUME NEW c \in Calls, Release(c) PROVE TypeOK'
  BY <1>9 DEF Release, To, tokens, watcher, bounds
<1>10. ASSUME NEW c \in Calls, LockToggle(c) PROVE TypeOK'
  BY <1>10 DEF LockToggle, To, tokens, watcher, bounds
<1>11. ASSUME NEW c \in Calls, SetFlag(c) PROVE TypeOK'
  BY <1>11 DEF SetFlag, To, tokens, locks, bounds
<1>12. ASSUME NEW c \in Calls, StopWatcher(c) PROVE TypeOK'
  BY <1>12 DEF StopWatcher, To, tokens, bounds
<1>13. ASSUME NEW c \in Calls, StartWatcher(c) PROVE TypeOK'
  <2>1. fresh' \in Watchers \cup {None} /\ running' \subseteq Watchers /\ slot' = slot
    <3>1. CASE Spawn
      BY <3>1 DEF Spawn
    <3>2. CASE NotStarted
      BY <3>2 DEF NotStarted
    <3> QED
      BY <1>13, <3>1, <3>2 DEF StartWatcher
  <2>2. toggleLock' \in Holders \cup {None} /\ pc' \in [Calls -> CallPoints]
    <3>1. CASE To(c, "store") /\ UNCHANGED toggleLock
      BY <3>1 DEF To
    <3>2. CASE To(c, "release") /\ toggleLock' = None
      BY <3>2 DEF To
    <3> QED
      BY <1>13, <3>1, <3>2 DEF StartWatcher
  <2>3. conf' \in Configs
    BY <1>13 DEF StartWatcher, Spawn, NotStarted
  <2> QED
    BY <1>13, <2>1, <2>2, <2>3 DEF StartWatcher, tokens, bounds
<1>14. ASSUME NEW c \in Calls, StoreWatcher(c) PROVE TypeOK'
  BY <1>14 DEF StoreWatcher, To, Store, tokens, bounds
<1>15. ASSUME MonitorWakes PROVE TypeOK'
  BY <1>15 DEF MonitorWakes, MonitorKeeps, tokens, calls, bounds
<1>16. ASSUME MonitorReads PROVE TypeOK'
  BY <1>16 DEF MonitorReads, MonitorKeeps, tokens, calls, bounds
<1>17. ASSUME MonitorMends PROVE TypeOK'
  <2>1. Defaults \in Configs
    BY DEF Defaults, Configs
  <2>2. conf' \in Configs \cup {Unreadable}
    BY <1>17, <2>1 DEF MonitorMends
  <2> QED
    BY <1>17, <2>2 DEF MonitorMends, MonitorKeeps, tokens, calls, bounds
<1>18. ASSUME MonitorLooks PROVE TypeOK'
  BY <1>18 DEF MonitorLooks, MonitorKeeps, tokens, calls, bounds
<1>19. ASSUME MonitorRestarts PROVE TypeOK'
  BY <1>19 DEF MonitorRestarts, MonitorKeeps, Spawn, NotStarted, tokens, calls, bounds
<1>20. ASSUME MonitorStores PROVE TypeOK'
  BY <1>20 DEF MonitorStores, MonitorKeeps, Store, tokens, calls, bounds
<1>21. ASSUME EngineLoads PROVE TypeOK'
  BY <1>21 DEF EngineLoads, tokens, locks, calls, bounds
<1>22. ASSUME Edit PROVE TypeOK'
  BY <1>22 DEF Edit, tokens, locks, watcher, calls
<1>23. ASSUME Restart PROVE TypeOK'
  <2>1. /\ pc' \in [Calls -> CallPoints] /\ op' \in [Calls -> Ops \cup {None}]
        /\ copy' \in [Calls -> Configs \cup {None}]
    BY <1>23 DEF Restart, Started
  <2>2. restarts' \in 0..MaxRestarts
    BY <1>23 DEF Restart
  <2> QED
    BY <1>23, <2>1, <2>2 DEF Restart, Started
<1>24. CASE UNCHANGED vars
  BY <1>24 DEF vars, tokens, locks, watcher, calls, bounds
<1> QED
  BY <1>1, <1>2, <1>3, <1>4, <1>5, <1>6, <1>7, <1>8, <1>9, <1>10, <1>11, <1>12, <1>13, <1>14, <1>15, <1>16, <1>17, <1>18, <1>19, <1>20, <1>21, <1>22, <1>23, <1>24
     DEF Next, CallStep, MonitorStep

LEMMA OpStep ==
  ASSUME IInv, [Next]_vars
  PROVE  OpOK'
<1> USE ProtectionAssumption, MergedType, OpType, ReadableType, NewWatcherType DEF IInv, TypeOK, OpOK, CallPoints
<1>1. ASSUME Boot PROVE OpOK'
  BY <1>1 DEF Boot, tokens, locks, calls, bounds
<1>2. ASSUME NEW m \in Methods, Challenge(m) PROVE OpOK'
  BY <1>2 DEF Challenge, locks, watcher, calls, bounds
<1>3. ASSUME Expire PROVE OpOK'
  BY <1>3 DEF Expire, locks, watcher, calls, bounds
<1>4. ASSUME NEW c \in Calls, NEW o \in Ops, NEW i \in 1..Len(issued), Present(c, o, i)
       PROVE  OpOK'
  BY <1>4 DEF Present, locks, watcher, bounds, LetThrough, Valid
<1>5. ASSUME NEW c \in Calls, LockConfig(c) PROVE OpOK'
  BY <1>5 DEF LockConfig, To, tokens, watcher, bounds
<1>6. ASSUME NEW c \in Calls, Load(c) PROVE OpOK'
  BY <1>6 DEF Load, To, tokens, locks, watcher, bounds
<1>7. ASSUME NEW c \in Calls, Mend(c) PROVE OpOK'
  BY <1>7 DEF Mend, To, tokens, locks, watcher, bounds
<1>8. ASSUME NEW c \in Calls, Save(c) PROVE OpOK'
  BY <1>8 DEF Save, To, Saved, tokens, locks, watcher, bounds
<1>9. ASSUME NEW c \in Calls, Release(c) PROVE OpOK'
  BY <1>9 DEF Release, To, tokens, watcher, bounds
<1>10. ASSUME NEW c \in Calls, LockToggle(c) PROVE OpOK'
  BY <1>10 DEF LockToggle, To, tokens, watcher, bounds
<1>11. ASSUME NEW c \in Calls, SetFlag(c) PROVE OpOK'
  BY <1>11 DEF SetFlag, To, tokens, locks, bounds
<1>12. ASSUME NEW c \in Calls, StopWatcher(c) PROVE OpOK'
  BY <1>12 DEF StopWatcher, To, tokens, bounds
<1>13. ASSUME NEW c \in Calls, StartWatcher(c) PROVE OpOK'
  BY <1>13 DEF StartWatcher, To, Spawn, NotStarted, tokens, bounds
<1>14. ASSUME NEW c \in Calls, StoreWatcher(c) PROVE OpOK'
  BY <1>14 DEF StoreWatcher, To, Store, tokens, bounds
<1>15. ASSUME MonitorWakes PROVE OpOK'
  BY <1>15 DEF MonitorWakes, MonitorKeeps, tokens, calls, bounds
<1>16. ASSUME MonitorReads PROVE OpOK'
  BY <1>16 DEF MonitorReads, MonitorKeeps, tokens, calls, bounds
<1>17. ASSUME MonitorMends PROVE OpOK'
  BY <1>17 DEF MonitorMends, MonitorKeeps, tokens, calls, bounds
<1>18. ASSUME MonitorLooks PROVE OpOK'
  BY <1>18 DEF MonitorLooks, MonitorKeeps, tokens, calls, bounds
<1>19. ASSUME MonitorRestarts PROVE OpOK'
  BY <1>19 DEF MonitorRestarts, MonitorKeeps, Spawn, NotStarted, tokens, calls, bounds
<1>20. ASSUME MonitorStores PROVE OpOK'
  BY <1>20 DEF MonitorStores, MonitorKeeps, Store, tokens, calls, bounds
<1>21. ASSUME EngineLoads PROVE OpOK'
  BY <1>21 DEF EngineLoads, tokens, locks, calls, bounds
<1>22. ASSUME Edit PROVE OpOK'
  BY <1>22 DEF Edit, tokens, locks, watcher, calls
<1>23. ASSUME Restart PROVE OpOK'
  BY <1>23 DEF Restart, Started
<1>24. CASE UNCHANGED vars
  BY <1>24 DEF vars, tokens, locks, watcher, calls, bounds
<1> QED
  BY <1>1, <1>2, <1>3, <1>4, <1>5, <1>6, <1>7, <1>8, <1>9, <1>10, <1>11, <1>12, <1>13, <1>14, <1>15, <1>16, <1>17, <1>18, <1>19, <1>20, <1>21, <1>22, <1>23, <1>24
     DEF Next, CallStep, MonitorStep

LEMMA LocksStep ==
  ASSUME IInv, [Next]_vars
  PROVE  LocksOK'
<1> USE ProtectionAssumption, MergedType, OpType, ReadableType, NewWatcherType DEF IInv, TypeOK, OpOK, LocksOK, CallPoints, Holders
<1>1. ASSUME Boot PROVE LocksOK'
  BY <1>1 DEF Boot, tokens, locks, calls, bounds
<1>2. ASSUME NEW m \in Methods, Challenge(m) PROVE LocksOK'
  BY <1>2 DEF Challenge, locks, watcher, calls, bounds
<1>3. ASSUME Expire PROVE LocksOK'
  BY <1>3 DEF Expire, locks, watcher, calls, bounds
<1>4. ASSUME NEW c \in Calls, NEW o \in Ops, NEW i \in 1..Len(issued), Present(c, o, i)
       PROVE  LocksOK'
  BY <1>4 DEF Present, locks, watcher, bounds, LetThrough, Valid
<1>5. ASSUME NEW c \in Calls, LockConfig(c) PROVE LocksOK'
  BY <1>5 DEF LockConfig, To, tokens, watcher, bounds
<1>6. ASSUME NEW c \in Calls, Load(c) PROVE LocksOK'
  BY <1>6 DEF Load, To, tokens, locks, watcher, bounds
<1>7. ASSUME NEW c \in Calls, Mend(c) PROVE LocksOK'
  BY <1>7 DEF Mend, To, tokens, locks, watcher, bounds
<1>8. ASSUME NEW c \in Calls, Save(c) PROVE LocksOK'
  BY <1>8 DEF Save, To, Saved, tokens, locks, watcher, bounds
<1>9. ASSUME NEW c \in Calls, Release(c) PROVE LocksOK'
  BY <1>9 DEF Release, To, tokens, watcher, bounds
<1>10. ASSUME NEW c \in Calls, LockToggle(c) PROVE LocksOK'
  BY <1>10 DEF LockToggle, To, tokens, watcher, bounds
<1>11. ASSUME NEW c \in Calls, SetFlag(c) PROVE LocksOK'
  BY <1>11 DEF SetFlag, To, tokens, locks, bounds
<1>12. ASSUME NEW c \in Calls, StopWatcher(c) PROVE LocksOK'
  BY <1>12 DEF StopWatcher, To, tokens, bounds
<1>13. ASSUME NEW c \in Calls, StartWatcher(c) PROVE LocksOK'
  <2>1. CASE toggleLock' = toggleLock /\ To(c, "store")
    BY <1>13, <2>1 DEF StartWatcher, To, tokens, bounds
  <2>2. CASE toggleLock' = None /\ To(c, "release")
    BY <1>13, <2>2 DEF StartWatcher, To, tokens, bounds
  <2> QED
    BY <1>13, <2>1, <2>2 DEF StartWatcher
<1>14. ASSUME NEW c \in Calls, StoreWatcher(c) PROVE LocksOK'
  BY <1>14 DEF StoreWatcher, To, Store, tokens, bounds
<1>15. ASSUME MonitorWakes PROVE LocksOK'
  BY <1>15 DEF MonitorWakes, MonitorKeeps, tokens, calls, bounds
<1>16. ASSUME MonitorReads PROVE LocksOK'
  BY <1>16 DEF MonitorReads, MonitorKeeps, tokens, calls, bounds
<1>17. ASSUME MonitorMends PROVE LocksOK'
  BY <1>17 DEF MonitorMends, MonitorKeeps, tokens, calls, bounds
<1>18. ASSUME MonitorLooks PROVE LocksOK'
  BY <1>18 DEF MonitorLooks, MonitorKeeps, tokens, calls, bounds
<1>19. ASSUME MonitorRestarts PROVE LocksOK'
  BY <1>19 DEF MonitorRestarts, MonitorKeeps, Spawn, NotStarted, tokens, calls, bounds
<1>20. ASSUME MonitorStores PROVE LocksOK'
  BY <1>20 DEF MonitorStores, MonitorKeeps, Store, tokens, calls, bounds
<1>21. ASSUME EngineLoads PROVE LocksOK'
  BY <1>21 DEF EngineLoads, tokens, locks, calls, bounds
<1>22. ASSUME Edit PROVE LocksOK'
  BY <1>22 DEF Edit, tokens, locks, watcher, calls
<1>23. ASSUME Restart PROVE LocksOK'
  BY <1>23 DEF Restart, Started
<1>24. CASE UNCHANGED vars
  BY <1>24 DEF vars, tokens, locks, watcher, calls, bounds
<1> QED
  BY <1>1, <1>2, <1>3, <1>4, <1>5, <1>6, <1>7, <1>8, <1>9, <1>10, <1>11, <1>12, <1>13, <1>14, <1>15, <1>16, <1>17, <1>18, <1>19, <1>20, <1>21, <1>22, <1>23, <1>24
     DEF Next, CallStep, MonitorStep

LEMMA RunningStep ==
  ASSUME IInv, [Next]_vars
  PROVE  RunningOK'
<1> USE ProtectionAssumption, NewWatcherType DEF IInv, TypeOK, LocksOK, RunningOK, CallPoints
<1>1. ASSUME Boot PROVE RunningOK'
  BY <1>1 DEF Boot, tokens, locks, calls, bounds
<1>2. ASSUME NEW m \in Methods, Challenge(m) PROVE RunningOK'
  BY <1>2 DEF Challenge, locks, watcher, calls, bounds
<1>3. ASSUME Expire PROVE RunningOK'
  BY <1>3 DEF Expire, locks, watcher, calls, bounds
<1>4. ASSUME NEW c \in Calls, NEW o \in Ops, NEW i \in 1..Len(issued), Present(c, o, i)
       PROVE  RunningOK'
  BY <1>4 DEF Present, locks, watcher, bounds, LetThrough, Valid
<1>5. ASSUME NEW c \in Calls, LockConfig(c) PROVE RunningOK'
  BY <1>5 DEF LockConfig, To, tokens, watcher, bounds
<1>6. ASSUME NEW c \in Calls, Load(c) PROVE RunningOK'
  BY <1>6 DEF Load, To, tokens, locks, watcher, bounds
<1>7. ASSUME NEW c \in Calls, Mend(c) PROVE RunningOK'
  BY <1>7 DEF Mend, To, tokens, locks, watcher, bounds
<1>8. ASSUME NEW c \in Calls, Save(c) PROVE RunningOK'
  BY <1>8 DEF Save, To, Saved, tokens, locks, watcher, bounds
<1>9. ASSUME NEW c \in Calls, Release(c) PROVE RunningOK'
  BY <1>9 DEF Release, To, tokens, watcher, bounds
<1>10. ASSUME NEW c \in Calls, LockToggle(c) PROVE RunningOK'
  BY <1>10 DEF LockToggle, To, tokens, watcher, bounds
<1>11. ASSUME NEW c \in Calls, SetFlag(c) PROVE RunningOK'
  BY <1>11 DEF SetFlag, To, tokens, locks, bounds
<1>12. ASSUME NEW c \in Calls, StopWatcher(c) PROVE RunningOK'
  BY <1>12 DEF StopWatcher, To, tokens, bounds
<1>13. ASSUME NEW c \in Calls, StartWatcher(c) PROVE RunningOK'
  BY <1>13 DEF StartWatcher, To, Spawn, NotStarted, tokens, bounds
<1>14. ASSUME NEW c \in Calls, StoreWatcher(c) PROVE RunningOK'
  BY <1>14 DEF StoreWatcher, To, Store, tokens, bounds
<1>15. ASSUME MonitorWakes PROVE RunningOK'
  BY <1>15 DEF MonitorWakes, MonitorKeeps, tokens, calls, bounds
<1>16. ASSUME MonitorReads PROVE RunningOK'
  BY <1>16 DEF MonitorReads, MonitorKeeps, tokens, calls, bounds
<1>17. ASSUME MonitorMends PROVE RunningOK'
  BY <1>17 DEF MonitorMends, MonitorKeeps, tokens, calls, bounds
<1>18. ASSUME MonitorLooks PROVE RunningOK'
  BY <1>18 DEF MonitorLooks, MonitorKeeps, tokens, calls, bounds
<1>19. ASSUME MonitorRestarts PROVE RunningOK'
  BY <1>19 DEF MonitorRestarts, MonitorKeeps, Spawn, NotStarted, tokens, calls, bounds
<1>20. ASSUME MonitorStores PROVE RunningOK'
  BY <1>20 DEF MonitorStores, MonitorKeeps, Store, tokens, calls, bounds
<1>21. ASSUME EngineLoads PROVE RunningOK'
  BY <1>21 DEF EngineLoads, tokens, locks, calls, bounds
<1>22. ASSUME Edit PROVE RunningOK'
  BY <1>22 DEF Edit, tokens, locks, watcher, calls
<1>23. ASSUME Restart PROVE RunningOK'
  BY <1>23 DEF Restart, Started
<1>24. CASE UNCHANGED vars
  BY <1>24 DEF vars, tokens, locks, watcher, calls, bounds
<1> QED
  BY <1>1, <1>2, <1>3, <1>4, <1>5, <1>6, <1>7, <1>8, <1>9, <1>10, <1>11, <1>12, <1>13, <1>14, <1>15, <1>16, <1>17, <1>18, <1>19, <1>20, <1>21, <1>22, <1>23, <1>24
     DEF Next, CallStep, MonitorStep

LEMMA PauseStep ==
  ASSUME IInv, [Next]_vars
  PROVE  PauseOK'
<1> USE ProtectionAssumption, OpType, NewWatcherType DEF IInv, TypeOK, OpOK, LocksOK, RunningOK, PauseOK, CallPoints
<1>1. ASSUME Boot PROVE PauseOK'
  BY <1>1 DEF Boot, tokens, locks, calls, bounds
<1>2. ASSUME NEW m \in Methods, Challenge(m) PROVE PauseOK'
  BY <1>2 DEF Challenge, locks, watcher, calls, bounds
<1>3. ASSUME Expire PROVE PauseOK'
  BY <1>3 DEF Expire, locks, watcher, calls, bounds
<1>4. ASSUME NEW c \in Calls, NEW o \in Ops, NEW i \in 1..Len(issued), Present(c, o, i)
       PROVE  PauseOK'
  <2>1. /\ pc[c] = "idle" /\ token # None /\ token' = None
        /\ UNCHANGED <<issued, conf, locks, watcher, copy, mon, bounds, acked, last>>
    BY <1>4 DEF Present
  <2>2. LetThrough(c, o, i) \/ UNCHANGED <<pc, op, uses>>
    BY <1>4 DEF Present
  <2>3. CASE LetThrough(c, o, i) /\ o.kind \in {"critical", "set"}
    BY <2>1, <2>3 DEF LetThrough, locks, watcher, bounds
  <2>4. CASE LetThrough(c, o, i) /\ o.kind \notin {"critical", "set"}
    BY <2>1, <2>4 DEF LetThrough, locks, watcher, bounds
  <2>5. CASE UNCHANGED <<pc, op, uses>>
    BY <2>1, <2>5 DEF locks, watcher, bounds
  <2> QED
    BY <2>2, <2>3, <2>4, <2>5
<1>5. ASSUME NEW c \in Calls, LockConfig(c) PROVE PauseOK'
  BY <1>5 DEF LockConfig, To, tokens, watcher, bounds
<1>6. ASSUME NEW c \in Calls, Load(c) PROVE PauseOK'
  BY <1>6 DEF Load, To, tokens, locks, watcher, bounds
<1>7. ASSUME NEW c \in Calls, Mend(c) PROVE PauseOK'
  BY <1>7 DEF Mend, To, tokens, locks, watcher, bounds
<1>8. ASSUME NEW c \in Calls, Save(c) PROVE PauseOK'
  BY <1>8 DEF Save, To, Saved, tokens, locks, watcher, bounds
<1>9. ASSUME NEW c \in Calls, Release(c) PROVE PauseOK'
  BY <1>9 DEF Release, To, tokens, watcher, bounds
<1>10. ASSUME NEW c \in Calls, LockToggle(c) PROVE PauseOK'
  BY <1>10 DEF LockToggle, To, tokens, watcher, bounds
<1>11. ASSUME NEW c \in Calls, SetFlag(c) PROVE PauseOK'
  BY <1>11 DEF SetFlag, To, tokens, locks, bounds
<1>12. ASSUME NEW c \in Calls, StopWatcher(c) PROVE PauseOK'
  BY <1>12 DEF StopWatcher, To, tokens, bounds
<1>13. ASSUME NEW c \in Calls, StartWatcher(c) PROVE PauseOK'
  BY <1>13 DEF StartWatcher, To, Spawn, NotStarted, tokens, bounds
<1>14. ASSUME NEW c \in Calls, StoreWatcher(c) PROVE PauseOK'
  BY <1>14 DEF StoreWatcher, To, Store, tokens, bounds
<1>15. ASSUME MonitorWakes PROVE PauseOK'
  BY <1>15 DEF MonitorWakes, MonitorKeeps, tokens, calls, bounds
<1>16. ASSUME MonitorReads PROVE PauseOK'
  BY <1>16 DEF MonitorReads, MonitorKeeps, tokens, calls, bounds
<1>17. ASSUME MonitorMends PROVE PauseOK'
  BY <1>17 DEF MonitorMends, MonitorKeeps, tokens, calls, bounds
<1>18. ASSUME MonitorLooks PROVE PauseOK'
  BY <1>18 DEF MonitorLooks, MonitorKeeps, tokens, calls, bounds
<1>19. ASSUME MonitorRestarts PROVE PauseOK'
  BY <1>19 DEF MonitorRestarts, MonitorKeeps, Spawn, NotStarted, tokens, calls, bounds
<1>20. ASSUME MonitorStores PROVE PauseOK'
  BY <1>20 DEF MonitorStores, MonitorKeeps, Store, tokens, calls, bounds
<1>21. ASSUME EngineLoads PROVE PauseOK'
  BY <1>21 DEF EngineLoads, tokens, locks, calls, bounds
<1>22. ASSUME Edit PROVE PauseOK'
  BY <1>22 DEF Edit, tokens, locks, watcher, calls
<1>23. ASSUME Restart PROVE PauseOK'
  BY <1>23 DEF Restart, Started
<1>24. CASE UNCHANGED vars
  BY <1>24 DEF vars, tokens, locks, watcher, calls, bounds
<1> QED
  BY <1>1, <1>2, <1>3, <1>4, <1>5, <1>6, <1>7, <1>8, <1>9, <1>10, <1>11, <1>12, <1>13, <1>14, <1>15, <1>16, <1>17, <1>18, <1>19, <1>20, <1>21, <1>22, <1>23, <1>24
     DEF Next, CallStep, MonitorStep

LEMMA TokenStep ==
  ASSUME IInv, [Next]_vars
  PROVE  TokenOK'
<1> USE ProtectionAssumption DEF IInv, TypeOK, TokenOK
<1>1. ASSUME Boot PROVE TokenOK'
  BY <1>1 DEF Boot, tokens, locks, calls, bounds
<1>2. ASSUME NEW m \in Methods, Challenge(m) PROVE TokenOK'
  BY <1>2 DEF Challenge, locks, watcher, calls, bounds
<1>3. ASSUME Expire PROVE TokenOK'
  BY <1>3 DEF Expire, locks, watcher, calls, bounds
<1>4. ASSUME NEW c \in Calls, NEW o \in Ops, NEW i \in 1..Len(issued), Present(c, o, i)
       PROVE  TokenOK'
  BY <1>4 DEF Present, locks, watcher, bounds, LetThrough, Valid
<1>5. ASSUME NEW c \in Calls, LockConfig(c) PROVE TokenOK'
  BY <1>5 DEF LockConfig, To, tokens, watcher, bounds
<1>6. ASSUME NEW c \in Calls, Load(c) PROVE TokenOK'
  BY <1>6 DEF Load, To, tokens, locks, watcher, bounds
<1>7. ASSUME NEW c \in Calls, Mend(c) PROVE TokenOK'
  BY <1>7 DEF Mend, To, tokens, locks, watcher, bounds
<1>8. ASSUME NEW c \in Calls, Save(c) PROVE TokenOK'
  BY <1>8 DEF Save, To, Saved, tokens, locks, watcher, bounds
<1>9. ASSUME NEW c \in Calls, Release(c) PROVE TokenOK'
  BY <1>9 DEF Release, To, tokens, watcher, bounds
<1>10. ASSUME NEW c \in Calls, LockToggle(c) PROVE TokenOK'
  BY <1>10 DEF LockToggle, To, tokens, watcher, bounds
<1>11. ASSUME NEW c \in Calls, SetFlag(c) PROVE TokenOK'
  BY <1>11 DEF SetFlag, To, tokens, locks, bounds
<1>12. ASSUME NEW c \in Calls, StopWatcher(c) PROVE TokenOK'
  BY <1>12 DEF StopWatcher, To, tokens, bounds
<1>13. ASSUME NEW c \in Calls, StartWatcher(c) PROVE TokenOK'
  BY <1>13 DEF StartWatcher, To, Spawn, NotStarted, tokens, bounds
<1>14. ASSUME NEW c \in Calls, StoreWatcher(c) PROVE TokenOK'
  BY <1>14 DEF StoreWatcher, To, Store, tokens, bounds
<1>15. ASSUME MonitorWakes PROVE TokenOK'
  BY <1>15 DEF MonitorWakes, MonitorKeeps, tokens, calls, bounds
<1>16. ASSUME MonitorReads PROVE TokenOK'
  BY <1>16 DEF MonitorReads, MonitorKeeps, tokens, calls, bounds
<1>17. ASSUME MonitorMends PROVE TokenOK'
  BY <1>17 DEF MonitorMends, MonitorKeeps, tokens, calls, bounds
<1>18. ASSUME MonitorLooks PROVE TokenOK'
  BY <1>18 DEF MonitorLooks, MonitorKeeps, tokens, calls, bounds
<1>19. ASSUME MonitorRestarts PROVE TokenOK'
  BY <1>19 DEF MonitorRestarts, MonitorKeeps, Spawn, NotStarted, tokens, calls, bounds
<1>20. ASSUME MonitorStores PROVE TokenOK'
  BY <1>20 DEF MonitorStores, MonitorKeeps, Store, tokens, calls, bounds
<1>21. ASSUME EngineLoads PROVE TokenOK'
  BY <1>21 DEF EngineLoads, tokens, locks, calls, bounds
<1>22. ASSUME Edit PROVE TokenOK'
  BY <1>22 DEF Edit, tokens, locks, watcher, calls
<1>23. ASSUME Restart PROVE TokenOK'
  BY <1>23 DEF Restart, Started
<1>24. CASE UNCHANGED vars
  BY <1>24 DEF vars, tokens, locks, watcher, calls, bounds
<1> QED
  BY <1>1, <1>2, <1>3, <1>4, <1>5, <1>6, <1>7, <1>8, <1>9, <1>10, <1>11, <1>12, <1>13, <1>14, <1>15, <1>16, <1>17, <1>18, <1>19, <1>20, <1>21, <1>22, <1>23, <1>24
     DEF Next, CallStep, MonitorStep

LEMMA FileStep ==
  ASSUME IInv, [Next]_vars
  PROVE  FileOK'
<1> USE ProtectionAssumption, MergedType, OpType, ReadableType, NewWatcherType DEF IInv, TypeOK, OpOK, LocksOK, FileOK
<1>1. ASSUME Boot PROVE FileOK'
  BY <1>1 DEF Boot, tokens, locks, calls, bounds
<1>2. ASSUME NEW m \in Methods, Challenge(m) PROVE FileOK'
  BY <1>2 DEF Challenge, locks, watcher, calls, bounds
<1>3. ASSUME Expire PROVE FileOK'
  BY <1>3 DEF Expire, locks, watcher, calls, bounds
<1>4. ASSUME NEW c \in Calls, NEW o \in Ops, NEW i \in 1..Len(issued), Present(c, o, i)
       PROVE  FileOK'
  BY <1>4 DEF Present, locks, watcher, bounds, LetThrough, Valid
<1>5. ASSUME NEW c \in Calls, LockConfig(c) PROVE FileOK'
  BY <1>5 DEF LockConfig, To, tokens, watcher, bounds
<1>6. ASSUME NEW c \in Calls, Load(c) PROVE FileOK'
  BY <1>6 DEF Load, To, tokens, locks, watcher, bounds
<1>7. ASSUME NEW c \in Calls, Mend(c) PROVE FileOK'
  BY <1>7 DEF Mend, To, tokens, locks, watcher, bounds
<1>8. ASSUME NEW c \in Calls, Save(c) PROVE FileOK'
  BY <1>8 DEF Save, To, Saved, tokens, locks, watcher, bounds
<1>9. ASSUME NEW c \in Calls, Release(c) PROVE FileOK'
  BY <1>9 DEF Release, To, tokens, watcher, bounds
<1>10. ASSUME NEW c \in Calls, LockToggle(c) PROVE FileOK'
  BY <1>10 DEF LockToggle, To, tokens, watcher, bounds
<1>11. ASSUME NEW c \in Calls, SetFlag(c) PROVE FileOK'
  BY <1>11 DEF SetFlag, To, tokens, locks, bounds
<1>12. ASSUME NEW c \in Calls, StopWatcher(c) PROVE FileOK'
  BY <1>12 DEF StopWatcher, To, tokens, bounds
<1>13. ASSUME NEW c \in Calls, StartWatcher(c) PROVE FileOK'
  BY <1>13 DEF StartWatcher, To, Spawn, NotStarted, tokens, bounds
<1>14. ASSUME NEW c \in Calls, StoreWatcher(c) PROVE FileOK'
  BY <1>14 DEF StoreWatcher, To, Store, tokens, bounds
<1>15. ASSUME MonitorWakes PROVE FileOK'
  BY <1>15 DEF MonitorWakes, MonitorKeeps, tokens, calls, bounds
<1>16. ASSUME MonitorReads PROVE FileOK'
  BY <1>16 DEF MonitorReads, MonitorKeeps, tokens, calls, bounds
<1>17. ASSUME MonitorMends PROVE FileOK'
  BY <1>17 DEF MonitorMends, MonitorKeeps, tokens, calls, bounds
<1>18. ASSUME MonitorLooks PROVE FileOK'
  BY <1>18 DEF MonitorLooks, MonitorKeeps, tokens, calls, bounds
<1>19. ASSUME MonitorRestarts PROVE FileOK'
  BY <1>19 DEF MonitorRestarts, MonitorKeeps, Spawn, NotStarted, tokens, calls, bounds
<1>20. ASSUME MonitorStores PROVE FileOK'
  BY <1>20 DEF MonitorStores, MonitorKeeps, Store, tokens, calls, bounds
<1>21. ASSUME EngineLoads PROVE FileOK'
  BY <1>21 DEF EngineLoads, tokens, locks, calls, bounds
<1>22. ASSUME Edit PROVE FileOK'
  BY <1>22 DEF Edit, tokens, locks, watcher, calls
<1>23. ASSUME Restart PROVE FileOK'
  BY <1>23 DEF Restart, Started
<1>24. CASE UNCHANGED vars
  BY <1>24 DEF vars, tokens, locks, watcher, calls, bounds
<1> QED
  BY <1>1, <1>2, <1>3, <1>4, <1>5, <1>6, <1>7, <1>8, <1>9, <1>10, <1>11, <1>12, <1>13, <1>14, <1>15, <1>16, <1>17, <1>18, <1>19, <1>20, <1>21, <1>22, <1>23, <1>24
     DEF Next, CallStep, MonitorStep

LEMMA SwitchStep ==
  ASSUME IInv, [Next]_vars
  PROVE  SwitchOK'
<1> USE ProtectionAssumption, MergedType, OpType, ReadableType, NewWatcherType DEF IInv, TypeOK, OpOK, LocksOK, RunningOK, PauseOK, FileOK, SwitchOK, Switching
<1>1. ASSUME Boot PROVE SwitchOK'
  BY <1>1 DEF Boot, tokens, locks, calls, bounds
<1>2. ASSUME NEW m \in Methods, Challenge(m) PROVE SwitchOK'
  BY <1>2 DEF Challenge, locks, watcher, calls, bounds
<1>3. ASSUME Expire PROVE SwitchOK'
  BY <1>3 DEF Expire, locks, watcher, calls, bounds
<1>4. ASSUME NEW c \in Calls, NEW o \in Ops, NEW i \in 1..Len(issued), Present(c, o, i)
       PROVE  SwitchOK'
  <2>1. /\ pc[c] = "idle" /\ token # None /\ token' = None
        /\ UNCHANGED <<issued, conf, locks, watcher, copy, mon, bounds, acked, last>>
    BY <1>4 DEF Present
  <2>2. LetThrough(c, o, i) \/ UNCHANGED <<pc, op, uses>>
    BY <1>4 DEF Present
  <2>3. CASE LetThrough(c, o, i) /\ o.kind \in {"critical", "set"}
    BY <2>1, <2>3 DEF LetThrough, locks, watcher, bounds
  <2>4. CASE LetThrough(c, o, i) /\ o.kind \notin {"critical", "set"}
    BY <2>1, <2>4 DEF LetThrough, locks, watcher, bounds
  <2>5. CASE UNCHANGED <<pc, op, uses>>
    BY <2>1, <2>5 DEF locks, watcher, bounds
  <2> QED
    BY <2>2, <2>3, <2>4, <2>5
<1>5. ASSUME NEW c \in Calls, LockConfig(c) PROVE SwitchOK'
  BY <1>5 DEF LockConfig, To, tokens, watcher, bounds
<1>6. ASSUME NEW c \in Calls, Load(c) PROVE SwitchOK'
  BY <1>6 DEF Load, To, tokens, locks, watcher, bounds
<1>7. ASSUME NEW c \in Calls, Mend(c) PROVE SwitchOK'
  BY <1>7 DEF Mend, To, tokens, locks, watcher, bounds
<1>8. ASSUME NEW c \in Calls, Save(c) PROVE SwitchOK'
  <2>1. CASE Saved(c)
    <3>1. CASE op[c].kind = "critical"
      BY <1>8, <2>1, <3>1 DEF Save, Saved, To, tokens, locks, watcher, bounds
    <3>2. CASE op[c].kind # "critical"
      BY <1>8, <2>1, <3>2 DEF Save, Saved, To, tokens, locks, watcher, bounds
    <3> QED
      BY <3>1, <3>2
  <2>2. CASE To(c, "release") /\ UNCHANGED <<conf, acked>>
    BY <1>8, <2>2 DEF Save, To, tokens, locks, watcher, bounds
  <2> QED
    BY <1>8, <2>1, <2>2 DEF Save
<1>9. ASSUME NEW c \in Calls, Release(c) PROVE SwitchOK'
  BY <1>9 DEF Release, To, tokens, watcher, bounds
<1>10. ASSUME NEW c \in Calls, LockToggle(c) PROVE SwitchOK'
  BY <1>10 DEF LockToggle, To, tokens, watcher, bounds
<1>11. ASSUME NEW c \in Calls, SetFlag(c) PROVE SwitchOK'
  BY <1>11 DEF SetFlag, To, tokens, locks, bounds
<1>12. ASSUME NEW c \in Calls, StopWatcher(c) PROVE SwitchOK'
  BY <1>12 DEF StopWatcher, To, tokens, bounds
<1>13. ASSUME NEW c \in Calls, StartWatcher(c) PROVE SwitchOK'
  BY <1>13 DEF StartWatcher, To, Spawn, NotStarted, tokens, bounds
<1>14. ASSUME NEW c \in Calls, StoreWatcher(c) PROVE SwitchOK'
  BY <1>14 DEF StoreWatcher, To, Store, tokens, bounds
<1>15. ASSUME MonitorWakes PROVE SwitchOK'
  BY <1>15 DEF MonitorWakes, MonitorKeeps, tokens, calls, bounds
<1>16. ASSUME MonitorReads PROVE SwitchOK'
  BY <1>16 DEF MonitorReads, MonitorKeeps, tokens, calls, bounds
<1>17. ASSUME MonitorMends PROVE SwitchOK'
  BY <1>17 DEF MonitorMends, MonitorKeeps, tokens, calls, bounds
<1>18. ASSUME MonitorLooks PROVE SwitchOK'
  BY <1>18 DEF MonitorLooks, MonitorKeeps, tokens, calls, bounds
<1>19. ASSUME MonitorRestarts PROVE SwitchOK'
  BY <1>19 DEF MonitorRestarts, MonitorKeeps, Spawn, NotStarted, tokens, calls, bounds
<1>20. ASSUME MonitorStores PROVE SwitchOK'
  BY <1>20 DEF MonitorStores, MonitorKeeps, Store, tokens, calls, bounds
<1>21. ASSUME EngineLoads PROVE SwitchOK'
  BY <1>21 DEF EngineLoads, tokens, locks, calls, bounds
<1>22. ASSUME Edit PROVE SwitchOK'
  BY <1>22 DEF Edit, tokens, locks, watcher, calls
<1>23. ASSUME Restart PROVE SwitchOK'
  BY <1>23 DEF Restart, Started
<1>24. CASE UNCHANGED vars
  BY <1>24 DEF vars, tokens, locks, watcher, calls, bounds
<1> QED
  BY <1>1, <1>2, <1>3, <1>4, <1>5, <1>6, <1>7, <1>8, <1>9, <1>10, <1>11, <1>12, <1>13, <1>14, <1>15, <1>16, <1>17, <1>18, <1>19, <1>20, <1>21, <1>22, <1>23, <1>24
     DEF Next, CallStep, MonitorStep

-----------------------------------------------------------------------------
(* The theorems.                                                           *)

LEMMA InitIInv == Init => IInv
<1> SUFFICES ASSUME Init PROVE IInv
  OBVIOUS
<1> USE ProtectionAssumption DEF Init
<1>1. TypeOK
  <2>1. 0 \in 0..MaxEdits /\ 0 \in 0..MaxRestarts
    OBVIOUS
  <2>2. <<>> \in Seq(Methods) /\ uses \in [1..MaxTokens -> Seq(Methods)]
    OBVIOUS
  <2>3. /\ pc \in [Calls -> CallPoints] /\ op \in [Calls -> Ops \cup {None}]
        /\ copy \in [Calls -> Configs \cup {None}]
    BY DEF CallPoints
  <2> QED
    BY <2>1, <2>2, <2>3 DEF TypeOK, Holders, MonitorPoints
<1>2. OpOK /\ LocksOK /\ RunningOK /\ PauseOK
  BY DEF OpOK, LocksOK, RunningOK, PauseOK
<1>3. TokenOK /\ FileOK /\ SwitchOK
  BY DEF TokenOK, FileOK, SwitchOK
<1> QED
  BY <1>1, <1>2, <1>3 DEF IInv

\* The invariant of the proofs holds in every behaviour.
THEOREM Invariance == Spec => []IInv
<1>1. IInv /\ [Next]_vars => IInv'
  <2> SUFFICES ASSUME IInv, [Next]_vars PROVE IInv'
    OBVIOUS
  <2>1. TypeOK' /\ OpOK' /\ LocksOK' /\ RunningOK'
    BY TypeStep, OpStep, LocksStep, RunningStep
  <2>2. PauseOK' /\ TokenOK' /\ FileOK' /\ SwitchOK'
    BY PauseStep, TokenStep, FileStep, SwitchStep
  <2> QED
    BY <2>1, <2>2 DEF IInv
<1> QED
  BY InitIInv, <1>1, PTL DEF Spec

\* Every variable has its type: in particular an unreadable file is never
\* what a call changes and saves.
THEOREM TypeCorrect == Spec => []TypeOK
<1>1. IInv => TypeOK
  BY DEF IInv
<1> QED
  BY Invariance, <1>1, PTL

\* A challenge lets one call through at most, of the method it was asked for.
\* The token that is out has let nobody through, and it is taken away by the
\* call that presents it.
THEOREM OneCallPerChallengeHolds == Spec => []OneCallPerChallenge
<1>1. IInv /\ OneCallPerChallenge /\ [Next]_vars => OneCallPerChallenge'
  <2> SUFFICES ASSUME IInv, OneCallPerChallenge, [Next]_vars PROVE OneCallPerChallenge'
    OBVIOUS
  <2> USE DEF OneCallPerChallenge, IInv, TypeOK, TokenOK
  <2>1. ASSUME NEW m \in Methods, Challenge(m) PROVE OneCallPerChallenge'
    <3>1. issued' = Append(issued, m) /\ uses' = uses /\ Len(issued) < MaxTokens
      BY <2>1 DEF Challenge
    <3>2. uses[Len(issued) + 1] = <<>>
      BY <3>1, ProtectionAssumption
    <3> QED
      BY <3>1, <3>2
  <2>2. ASSUME NEW c \in Calls, NEW o \in Ops, NEW i \in 1..Len(issued), Present(c, o, i)
        PROVE  OneCallPerChallenge'
    <3>1. issued' = issued
      BY <2>2 DEF Present
    <3>2. CASE uses' = uses
      BY <3>1, <3>2
    <3>3. CASE uses' # uses
      <4>1. Valid(i, o.kind) /\ LetThrough(c, o, i) /\ token # None
        BY <2>2, <3>3 DEF Present
      <4>2. uses[i] = <<>> /\ issued[i] = o.kind
        BY <4>1 DEF Valid
      <4>3. uses' = [uses EXCEPT ![i] = <<issued[i]>>]
        BY <4>1, <4>2 DEF LetThrough
      <4> QED
        BY <3>1, <4>3
    <3> QED
      BY <3>2, <3>3
  <2>3. CASE UNCHANGED <<issued, uses>>
    BY <2>3
  <2> QED
    BY <2>1, <2>2, <2>3
       DEF Next, CallStep, MonitorStep, Boot, Expire, LockConfig, Load, Mend, Save, Release,
           LockToggle, SetFlag, StopWatcher, StartWatcher, StoreWatcher, MonitorKeeps,
           MonitorWakes, MonitorReads, MonitorMends, MonitorLooks, MonitorRestarts,
           MonitorStores, EngineLoads, Edit, Restart, tokens, vars
<1>2. Init => OneCallPerChallenge
  BY DEF Init, OneCallPerChallenge
<1> QED
  BY Invariance, <1>1, <1>2, PTL DEF Spec

\* Once nobody is switching, a paused protection is down.  Who switches holds
\* the lock until the watcher is stopped, and the monitor looks at the pause
\* again when it has the lock.
THEOREM PausedIsDownHolds == Spec => []PausedIsDown
<1>1. IInv => PausedIsDown
  BY ProtectionAssumption DEF IInv, TypeOK, LocksOK, PauseOK, PausedIsDown
<1> QED
  BY Invariance, <1>1, PTL

\* Once nobody is switching, no watcher runs outside the slot: both who start
\* one hold the lock from its spawn to its place in the slot.
THEOREM NoStrayWatcherHolds == Spec => []NoStrayWatcher
<1>1. IInv => NoStrayWatcher
  <2> SUFFICES ASSUME IInv, toggleLock = None PROVE running \subseteq {slot}
    BY DEF NoStrayWatcher
  <2>1. fresh = None
    BY ProtectionAssumption DEF IInv, LocksOK, RunningOK
  <2> QED
    BY <2>1, ProtectionAssumption DEF IInv, TypeOK, RunningOK
<1> QED
  BY Invariance, <1>1, PTL

\* No accepted setting is lost to another call that saves at the same time,
\* as long as the file can be read: a call keeps the file to itself from its
\* load to its save.
THEOREM SettingsStayHolds == Spec => []SettingsStay
<1>1. IInv => SettingsStay
  BY DEF IInv, FileOK, SettingsStay
<1> QED
  BY Invariance, <1>1, PTL

\* The switch agrees with the file, as long as the file can be read:
\* set_critical keeps the file to itself until it has switched.
THEOREM AsSavedHolds == Spec => []AsSaved
<1>1. IInv => AsSaved
  <2> SUFFICES ASSUME IInv, edits = 0, ~Applying
               PROVE  /\ last = "critical" => userDisabled = ~conf.realtime
                      /\ last = "boot" /\ ~conf.realtime => running = {}
    BY DEF AsSaved
  <2>1. \A c \in Calls : ~Switching(c)
    BY DEF Applying, Switching
  <2> QED
    BY <2>1 DEF IInv, SwitchOK
<1> QED
  BY Invariance, <1>1, PTL

=============================================================================
