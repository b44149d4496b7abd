------------------------------ MODULE Protection ------------------------------
(***************************************************************************)
(* The switch of the real-time protection: the calls that save it, pause   *)
(* it and resume it, the token they must present, the configuration file   *)
(* they share, and the monitor that brings the watcher back.               *)
(*                                                                         *)
(*   critical  protection.set_critical with realtime_enabled;              *)
(*   set       settings.set and settings.set_full, which keep that field   *)
(*             as it is on disk and write another;                         *)
(*   disable, enable   protection.disable and protection.enable.           *)
(*                                                                         *)
(* A watcher is its `running` flag here; what its thread does is module    *)
(* Watcher.                                                                *)
(***************************************************************************)
EXTENDS Naturals, Sequences, FiniteSets

CONSTANTS
  Calls,       \* connections that may have a call under way
  Watchers,    \* names for watcher threads
  MaxTokens,   \* bound on challenges
  MaxEdits,    \* bound on edits that leave an unreadable file
  MaxRestarts, \* bound on restarts of the service
  Unreadable,  \* a file that does not parse
  None

VARIABLES
  token,        \* challenge_token
  conf,         \* sentinelld.toml
  cfgLock,      \* config_write_lock
  toggleLock,   \* protection_toggle_lock
  userDisabled, \* user_disabled_protection
  slot,         \* AppState::watcher
  running,      \* watchers whose flag is set
  fresh,        \* the watcher start_watcher has spawned and not yet stored
  engine,       \* an engine is loaded
  pc, op, copy, \* of each call: where it is, what it asks, the config it loaded
  mon,          \* the main thread at start, then the heartbeat monitor
  edits, restarts,
  issued, uses, \* the challenges, and the calls each has let through (history)
  acked,        \* what the accepted saves add up to (history)
  last          \* what has set the protection last (history)

locks == <<cfgLock, toggleLock>>
watcher == <<userDisabled, slot, running, fresh, engine>>
calls == <<pc, op, copy>>
tokens == <<token, issued, uses>>
bounds == <<edits, restarts>>
vars == <<tokens, conf, locks, watcher, calls, mon, bounds, acked, last>>

Methods == {"critical", "set", "disable", "enable"}
Ops == [kind : {"critical", "set"}, value : BOOLEAN]
         \cup {[kind |-> "disable", value |-> FALSE], [kind |-> "enable", value |-> TRUE]}
Configs == [realtime : BOOLEAN, other : BOOLEAN]
Defaults == [realtime |-> TRUE, other |-> FALSE]

ASSUME ProtectionAssumption ==
  /\ {MaxTokens, MaxEdits, MaxRestarts} \subseteq Nat
  /\ None \notin Calls \cup Watchers \cup Ops \cup Configs
  /\ None \notin [id : Nat, method : Methods, old : BOOLEAN]
  /\ "monitor" \notin Calls \cup {None}
  /\ Unreadable \notin Configs

\* Config::load: whoever reads an unreadable file replaces it by the defaults.
Readable(c) == IF c = Unreadable THEN Defaults ELSE c

CallPoints == {"idle", "lock", "load", "mend", "save", "toggle", "flag", "act", "store",
               "release"}
MonitorPoints == {"boot", "sleep", "config", "mend", "look", "lock", "store"}

\* The processes, as holders of the toggle lock.
Holders == Calls \cup {"monitor"}

\* The state of a service that has just been started.
Started ==
  /\ token' = None
  /\ cfgLock' = None /\ toggleLock' = None
  /\ userDisabled' = FALSE /\ slot' = None /\ running' = {} /\ fresh' = None
  /\ engine' \in BOOLEAN
  /\ pc' = [c \in Calls |-> "idle"]
  /\ op' = [c \in Calls |-> None]
  /\ copy' = [c \in Calls |-> None]
  /\ mon' = "boot"
  /\ last' = "boot"

Init ==
  /\ token = None
  /\ conf \in Configs /\ ~conf.other
  /\ cfgLock = None /\ toggleLock = None
  /\ userDisabled = FALSE /\ slot = None /\ running = {} /\ fresh = None
  /\ engine \in BOOLEAN
  /\ pc = [c \in Calls |-> "idle"]
  /\ op = [c \in Calls |-> None]
  /\ copy = [c \in Calls |-> None]
  /\ mon = "boot"
  /\ edits = 0 /\ restarts = 0
  /\ issued = <<>>
  /\ uses = [i \in 1..MaxTokens |-> <<>>]
  /\ acked = conf
  /\ last = "boot"

-----------------------------------------------------------------------------
(* start_watcher: spawn the thread, then store it; the watcher that was in *)
(* the slot is dropped, which clears its flag.                             *)

Free == Watchers \ (running \cup {slot})
NewWatcher == CHOOSE w \in Free : TRUE

Spawn ==
  /\ engine
  /\ Free # {}
  /\ fresh' = NewWatcher
  /\ running' = running \cup {fresh'}
  /\ conf' = Readable(conf)
  /\ UNCHANGED slot

\* No engine, no directory to watch, or no thread: the slot is left as it is.
NotStarted == conf' = Readable(conf) /\ UNCHANGED <<slot, running, fresh>>

\* Mutant: the watcher that was in the slot is forgotten without a stop.
StoreKeepsOld ==
  /\ slot' = fresh /\ fresh' = None /\ UNCHANGED running

Store ==
  /\ slot' = fresh
  /\ running' = running \ {slot}
  /\ fresh' = None

\* Mutant: protection starts at every boot, whatever was saved.
BootsAlways ==
  /\ mon = "boot"
  /\ conf' = Readable(conf)
  /\ engine /\ slot' = NewWatcher /\ running' = {slot'}
  /\ mon' = "sleep"
  /\ UNCHANGED <<tokens, locks, userDisabled, fresh, engine, calls, bounds, acked, last>>

\* main: start the watcher if the saved switch is on; then the monitor.
Boot ==
  /\ mon = "boot"
  /\ conf' = Readable(conf)
  /\ \/ conf'.realtime /\ engine /\ Free # {} /\ slot' = NewWatcher /\ running' = {slot'}
     \/ UNCHANGED <<slot, running>>
  /\ mon' = "sleep"
  /\ UNCHANGED <<tokens, locks, userDisabled, fresh, engine, calls, bounds, acked, last>>

-----------------------------------------------------------------------------
(* The challenge token: one for the whole service.                         *)

\* security.challenge: the new token replaces the one given out before.
Challenge(m) ==
  /\ mon # "boot" /\ Len(issued) < MaxTokens
  /\ issued' = Append(issued, m)
  /\ token' = [id |-> Len(issued'), method |-> m, old |-> FALSE]
  /\ UNCHANGED <<uses, conf, locks, watcher, calls, mon, bounds, acked, last>>

\* Sixty seconds have passed.
Expire ==
  /\ token # None /\ ~token.old
  /\ token' = [token EXCEPT !.old = TRUE]
  /\ UNCHANGED <<issued, uses, conf, locks, watcher, calls, mon, bounds, acked, last>>

Valid(i, m) == token.id = i /\ token.method = m /\ ~token.old

LetThrough(c, o, i) ==
  /\ pc' = [pc EXCEPT ![c] = IF o.kind \in {"critical", "set"} THEN "lock" ELSE "toggle"]
  /\ op' = [op EXCEPT ![c] = o]
  /\ uses' = [uses EXCEPT ![i] = Append(@, o.kind)]

\* Mutant: a token that was accepted stays valid until it expires.
PresentKeeps(c, o, i) ==
  /\ pc[c] = "idle" /\ token # None
  /\ IF Valid(i, o.kind)
     THEN LetThrough(c, o, i) /\ UNCHANGED token
     ELSE token' = None /\ UNCHANGED <<pc, op, uses>>
  /\ UNCHANGED <<issued, conf, locks, watcher, copy, mon, bounds, acked, last>>

\* validate_challenge_token at the head of a handler.  Any presentation takes
\* the token away: accepted, or burnt because it did not fit.
Present(c, o, i) ==
  /\ pc[c] = "idle" /\ token # None
  /\ token' = None
  /\ IF Valid(i, o.kind) THEN LetThrough(c, o, i) ELSE UNCHANGED <<pc, op, uses>>
  /\ UNCHANGED <<issued, conf, locks, watcher, copy, mon, bounds, acked, last>>

-----------------------------------------------------------------------------
(* The calls that save: lock, load, save; set_critical then toggles, still *)
(* holding the configuration lock.                                         *)

To(c, p) == pc' = [pc EXCEPT ![c] = p]

\* Mutant: the configuration is not locked.
LockConfigNever(c) ==
  /\ pc[c] = "lock"
  /\ To(c, "load")
  /\ UNCHANGED <<tokens, conf, locks, watcher, op, copy, mon, bounds, acked, last>>

LockConfig(c) ==
  /\ pc[c] = "lock" /\ cfgLock = None
  /\ cfgLock' = c
  /\ To(c, "load")
  /\ UNCHANGED <<tokens, conf, toggleLock, watcher, op, copy, mon, bounds, acked, last>>

Load(c) ==
  /\ pc[c] = "load"
  /\ copy' = [copy EXCEPT ![c] = Readable(conf)]
  /\ To(c, IF conf = Unreadable THEN "mend" ELSE "save")
  /\ UNCHANGED <<tokens, conf, locks, watcher, op, mon, bounds, acked, last>>

\* The defaults are saved; a failure is ignored.
Mend(c) ==
  /\ pc[c] = "mend"
  /\ conf' \in {Defaults, conf}
  /\ To(c, "save")
  /\ UNCHANGED <<tokens, locks, watcher, op, copy, mon, bounds, acked, last>>

\* apply_set_critical_params, settings_set_merge: one field of the loaded
\* configuration is changed.
Merged(config, o) ==
  IF o.kind = "critical" THEN [config EXCEPT !.realtime = o.value]
                         ELSE [config EXCEPT !.other = o.value]

Saved(c) ==
  /\ conf' = Merged(copy[c], op[c])
  /\ acked' = Merged(acked, op[c])
  /\ To(c, IF op[c].kind = "critical" THEN "toggle" ELSE "release")

\* Mutant: the lock is released when the file is written.
SaveUnlocks(c) ==
  /\ pc[c] = "save"
  /\ Saved(c)
  /\ cfgLock' = None
  /\ UNCHANGED <<tokens, toggleLock, watcher, op, copy, mon, bounds, last>>

\* A request that does not validate, or a write that fails, changes nothing.
Save(c) ==
  /\ pc[c] = "save"
  /\ \/ Saved(c)
     \/ To(c, "release") /\ UNCHANGED <<conf, acked>>
  /\ UNCHANGED <<tokens, locks, watcher, op, copy, mon, bounds, last>>

Release(c) ==
  /\ pc[c] = "release"
  /\ cfgLock' = IF cfgLock = c THEN None ELSE cfgLock
  /\ To(c, "idle")
  /\ op' = [op EXCEPT ![c] = None]
  /\ copy' = [copy EXCEPT ![c] = None]
  /\ UNCHANGED <<tokens, conf, toggleLock, watcher, mon, bounds, acked, last>>

-----------------------------------------------------------------------------
(* enable_protection and disable_protection, under the toggle lock.        *)

LockToggle(c) ==
  /\ pc[c] = "toggle" /\ toggleLock = None
  /\ toggleLock' = c
  /\ To(c, "flag")
  /\ UNCHANGED <<tokens, conf, cfgLock, watcher, op, copy, mon, bounds, acked, last>>

SetFlag(c) ==
  /\ pc[c] = "flag"
  /\ userDisabled' = ~op[c].value
  /\ last' = IF op[c].kind = "critical" THEN "critical" ELSE "switch"
  /\ To(c, "act")
  /\ UNCHANGED <<tokens, conf, locks, slot, running, fresh, engine, op, copy, mon, bounds,
                 acked>>

StopWatcher(c) ==
  /\ pc[c] = "act" /\ ~op[c].value
  /\ running' = running \ {slot}
  /\ toggleLock' = None
  /\ To(c, "release")
  /\ UNCHANGED <<tokens, conf, cfgLock, userDisabled, slot, fresh, engine, op, copy, mon,
                 bounds, acked, last>>

StartWatcher(c) ==
  /\ pc[c] = "act" /\ op[c].value
  /\ \/ Spawn /\ To(c, "store") /\ UNCHANGED toggleLock
     \/ NotStarted /\ To(c, "release") /\ toggleLock' = None
  /\ UNCHANGED <<tokens, cfgLock, userDisabled, engine, op, copy, mon, bounds, acked, last>>

StoreWatcher(c) ==
  /\ pc[c] = "store"
  /\ Store
  /\ toggleLock' = None
  /\ To(c, "release")
  /\ UNCHANGED <<tokens, conf, cfgLock, userDisabled, engine, op, copy, mon, bounds, acked,
                 last>>

-----------------------------------------------------------------------------
(* spawn_watcher_heartbeat_monitor.                                        *)

MonitorKeeps == UNCHANGED <<tokens, cfgLock, userDisabled, engine, calls, bounds, acked, last>>

MonitorWakes ==
  /\ mon = "sleep" /\ ~userDisabled
  /\ mon' = "config"
  /\ MonitorKeeps /\ UNCHANGED <<conf, toggleLock, slot, running, fresh>>

\* Config::load without the lock.
MonitorReads ==
  /\ mon = "config"
  /\ mon' = IF conf = Unreadable THEN "mend" ELSE IF conf.realtime THEN "look" ELSE "sleep"
  /\ MonitorKeeps /\ UNCHANGED <<conf, toggleLock, slot, running, fresh>>

MonitorMends ==
  /\ mon = "mend"
  /\ conf' \in {Defaults, conf}
  /\ mon' = "look"
  /\ MonitorKeeps /\ UNCHANGED <<toggleLock, slot, running, fresh>>

\* Mutant: an empty slot is taken for a watcher that runs.
LooksKindly ==
  /\ mon = "look"
  /\ mon' = IF slot \in running \cup {None} THEN "sleep" ELSE "lock"
  /\ MonitorKeeps /\ UNCHANGED <<conf, toggleLock, slot, running, fresh>>

\* watcher_is_live.
MonitorLooks ==
  /\ mon = "look"
  /\ mon' = IF slot \in running THEN "sleep" ELSE "lock"
  /\ MonitorKeeps /\ UNCHANGED <<conf, toggleLock, slot, running, fresh>>

\* Mutant: what was read before the lock is acted on.
RestartsAnyway ==
  /\ mon = "lock" /\ toggleLock = None
  /\ Spawn /\ mon' = "store" /\ toggleLock' = "monitor"
  /\ MonitorKeeps

\* Take the toggle lock, look at the pause again, and start the watcher.
MonitorRestarts ==
  /\ mon = "lock" /\ toggleLock = None
  /\ \/ /\ ~userDisabled /\ Spawn
        /\ mon' = "store" /\ toggleLock' = "monitor"
     \/ /\ ~userDisabled /\ NotStarted
        /\ mon' = "sleep" /\ UNCHANGED toggleLock
     \/ /\ userDisabled
        /\ mon' = "sleep" /\ UNCHANGED <<toggleLock, conf, slot, running, fresh>>
  /\ MonitorKeeps

MonitorStores ==
  /\ mon = "store"
  /\ Store
  /\ toggleLock' = None /\ mon' = "sleep"
  /\ MonitorKeeps /\ UNCHANGED conf

-----------------------------------------------------------------------------
(* The environment.                                                        *)

\* A reload gives the service the engine it could not load at start.
EngineLoads ==
  /\ ~engine /\ mon # "boot"
  /\ engine' = TRUE
  /\ UNCHANGED <<tokens, conf, locks, userDisabled, slot, running, fresh, calls, mon, bounds,
                 acked, last>>

\* The file is edited by hand, or damaged.
Edit ==
  /\ edits < MaxEdits
  /\ edits' = edits + 1
  /\ conf' = Unreadable
  /\ UNCHANGED <<tokens, locks, watcher, calls, mon, restarts, acked, last>>

\* The service stops, in whatever state, and starts again.
Restart ==
  /\ restarts < MaxRestarts /\ mon # "boot"
  /\ restarts' = restarts + 1
  /\ Started
  /\ UNCHANGED <<conf, edits, issued, uses, acked>>

-----------------------------------------------------------------------------
CallStep(c) ==
  \/ LockConfig(c) \/ Load(c) \/ Mend(c) \/ Save(c) \/ Release(c)
  \/ LockToggle(c) \/ SetFlag(c) \/ StopWatcher(c) \/ StartWatcher(c) \/ StoreWatcher(c)

MonitorStep ==
  \/ MonitorWakes \/ MonitorReads \/ MonitorMends \/ MonitorLooks
  \/ MonitorRestarts \/ MonitorStores

Next ==
  \/ Boot \/ MonitorStep
  \/ \E m \in Methods : Challenge(m)
  \/ \E c \in Calls, o \in Ops, i \in 1..Len(issued) : Present(c, o, i)
  \/ \E c \in Calls : CallStep(c)
  \/ Expire \/ EngineLoads \/ Edit \/ Restart

\* Threads run; a start of the watcher that is tried again and again succeeds
\* at last.
Fairness ==
  /\ WF_vars(Boot) /\ WF_vars(MonitorStep)
  /\ SF_vars(MonitorRestarts /\ Spawn)
  /\ \A c \in Calls : WF_vars(CallStep(c))

Spec == Init /\ [][Next]_vars /\ Fairness

-----------------------------------------------------------------------------
(* Properties.                                                             *)

TypeOK ==
  /\ token \in [id : 1..MaxTokens, method : Methods, old : BOOLEAN] \cup {None}
  /\ conf \in Configs \cup {Unreadable}
  /\ cfgLock \in Calls \cup {None}
  /\ toggleLock \in Holders \cup {None}
  /\ userDisabled \in BOOLEAN /\ engine \in BOOLEAN
  /\ slot \in Watchers \cup {None} /\ fresh \in Watchers \cup {None}
  /\ running \subseteq Watchers
  /\ pc \in [Calls -> CallPoints]
  /\ op \in [Calls -> Ops \cup {None}]
  /\ copy \in [Calls -> Configs \cup {None}]
  /\ mon \in MonitorPoints
  /\ issued \in Seq(Methods) /\ uses \in [1..MaxTokens -> Seq(Methods)]
  /\ acked \in Configs
  /\ last \in {"boot", "critical", "switch"}
  /\ edits \in 0..MaxEdits /\ restarts \in 0..MaxRestarts

\* A challenge lets one call through at most, of the method it was asked for:
\* whichever connections present it, in whatever order.
OneCallPerChallenge ==
  \A i \in 1..Len(issued) : uses[i] \in {<<>>, <<issued[i]>>}

\* Once nobody is switching, a paused protection is down: neither the monitor
\* nor a call that resumed it earlier has left a watcher running.
PausedIsDown == toggleLock = None /\ userDisabled => running = {}

\* Once nobody is switching, no watcher runs outside the slot, where no call
\* could stop it any more.
NoStrayWatcher == toggleLock = None => running \subseteq {slot}

\* A call is between its save and the end of its toggle.
Applying == \E c \in Calls :
  pc[c] \in {"toggle", "flag", "act", "store"} /\ op[c].kind = "critical"

\* The switch agrees with the file: after set_critical the pause is what the
\* last save says, and a service that was started with the switch off runs no
\* watcher until it is told to.  The file must not have been damaged.
AsSaved ==
  edits = 0 /\ ~Applying =>
    /\ last = "critical" => userDisabled = ~conf.realtime
    /\ last = "boot" /\ ~conf.realtime => running = {}

\* No accepted setting is lost to another call that saves at the same time.
\* The file must not have been damaged.
SettingsStay == edits = 0 => conf = acked

\* Protection that stays switched on comes up and stays: whoever stopped the
\* watcher or whatever kept it from starting, the monitor has one installed in the
\* end. It goes by the watcher's flag, which a thread that dies leaves set.
ComesUp ==
  <>[](~userDisabled /\ engine /\ conf \in [realtime : {TRUE}, other : BOOLEAN])
    => <>[](slot \in running)

=============================================================================
