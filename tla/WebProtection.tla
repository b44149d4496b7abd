---------------------------- MODULE WebProtection ----------------------------
(***************************************************************************)
(* The NRPT rule that points the DNS of the machine at the local proxy of  *)
(* sentinelld, and everybody who installs or removes it:                   *)
(*                                                                         *)
(*   - the daemon: WebProtection::start (refusals, self-test, the rule),   *)
(*     the retry of a refused start, the orderly stop;                     *)
(*   - the watchdog of the rule, with its three strike counters;           *)
(*   - sentinella-dnsreconcile, run at boot by a scheduled task and by the *)
(*     installer (--remove, --remove-task).                                *)
(*                                                                         *)
(* The rule and the file that records its GUID survive the process and the *)
(* machine; there is no transaction over both. Any process may be killed   *)
(* between two steps. A rule that is live while nothing resolves behind it *)
(* leaves the machine without DNS: the hazard the design is about.         *)
(***************************************************************************)
EXTENDS Naturals, FiniteSets

CONSTANTS
  Guids,           \* names for rules; a new one is always unused
  Faults,          \* the calls that may fail, a subset of FaultPoints
  Strikes,         \* failed checks of one kind that make the watchdog fire
  ResolveEvery,    \* the watchdog resolves through the proxy every so many ticks
  ReconcilerEvery, \* and looks for the boot task every so many ticks
  MaxCrashes,      \* bound on kills and reboots
  None

FaultPoints == {"exists", "remove", "clear", "record", "install"}

ASSUME WebAssumption ==
  /\ Faults \subseteq FaultPoints
  /\ None \notin Guids
  /\ Strikes \in Nat \ {0}
  /\ ResolveEvery \in Nat \ {0}
  /\ ReconcilerEvery \in Nat \ {0}
  /\ ReconcilerEvery % ResolveEvery = 0
  /\ MaxCrashes \in Nat

VARIABLES
  rules,     \* the live catch-all rules in the registry
  record,    \* the GUID in the state file
  task,      \* the boot reconciler's task is registered and usable
  service,   \* the service is registered with the SCM
  restart,   \* the SCM owes the service a start
  d,         \* where the daemon is in start, retry and stop
  refusal,   \* why the last start refused
  guid,      \* the rule the daemon is at work on, then the one it owns
  retrying,  \* the start under way is the retry task's
  stopping,  \* the service was asked to stop
  proxy,     \* the proxy of the daemon
  w,         \* the watchdog
  strikes,   \* its three counters
  blocked,   \* the filter blocks the name the watchdog resolves (while it runs)
  tick,      \* its tick, modulo ReconcilerEvery
  tool,      \* sentinella-dnsreconcile: where it is, what it was started for, the
             \* GUID it read, and whether it saw a catch-all rule no record names
  crashes,   \* kills and reboots so far
  left,      \* a removal failed and was left to the next boot (history)
  lost,      \* the failed checks in a row that say nothing of the proxy (history)
  mishaps    \* the accidents below that happened, as far as they matter (history)

persistent == <<rules, record, task, service>>
daemonVars == <<restart, d, refusal, guid, retrying, stopping, proxy>>
watchVars  == <<w, strikes, tick, blocked, lost>>
history    == <<crashes, left, mishaps>>
vars == <<persistent, daemonVars, watchVars, tool, history>>

(***************************************************************************)
(* What can go wrong in ways the code has no answer to; a property below   *)
(* that an accident breaks names it.                                       *)
(*   cleared       the reconciler, having found the recorded rule absent   *)
(*                 or removed it, clears the record while the daemon is    *)
(*                 installing the rule again, or has just done so;         *)
(*   unowned       install is refused or fails while a rule is live: the   *)
(*                 daemon serves but neither its watchdog nor its stop     *)
(*                 knows the rule;                                         *)
(*   killed_late   the daemon of an uninstalled product is killed;         *)
(*   unfinished    the machine goes down in the middle of an uninstall,    *)
(*                 with a rule live and the boot task already gone;        *)
(*   unbacked      the service is deleted, and a removal fails when the    *)
(*                 boot task is gone or --remove-task has just found no    *)
(*                 rule, or somebody deletes the task in front of a rule.  *)
(***************************************************************************)
Mishaps == {"cleared", "unowned", "killed_late", "unfinished", "unbacked"}

DaemonPoints ==
  {"down", "start", "orphan", "orphan_remove", "orphan_clear", "gate", "record",
   "install", "up", "stop_clear", "stop_sockets"}
ToolPoints == {"idle", "check", "probe", "delete", "clear", "task", "untask"}
NoTool == [at |-> "idle", for |-> "boot", seen |-> None, orphan |-> FALSE]
NoStrikes == [serve |-> 0, resolve |-> 0, reconciler |-> 0]
NoneLost == [serve |-> 0, resolve |-> 0]

TypeOK ==
  /\ rules \subseteq Guids
  /\ record \in Guids \cup {None}
  /\ task \in BOOLEAN /\ service \in BOOLEAN /\ restart \in BOOLEAN
  /\ retrying \in BOOLEAN /\ stopping \in BOOLEAN /\ left \in BOOLEAN
  /\ blocked \in BOOLEAN
  /\ d \in DaemonPoints
  /\ refusal \in {"none", "config", "transient"}
  /\ guid \in Guids \cup {None}
  /\ proxy \in {"none", "ok", "deaf", "dead"}
  /\ w \in {"off", "watch", "fire", "clear", "fired"}
  /\ strikes \in [{"serve", "resolve", "reconciler"} -> 0 .. Strikes]
  /\ tick \in 0 .. ReconcilerEvery - 1
  /\ tool \in [at : ToolPoints, for : {"boot", "remove", "uninstall"},
               seen : Guids \cup {None}, orphan : BOOLEAN]
  /\ lost \in [{"serve", "resolve"} -> 0 .. Strikes]
  /\ crashes \in 0 .. MaxCrashes
  /\ mishaps \subseteq Mishaps

Init ==
  /\ rules = {} /\ record = None /\ task = TRUE /\ service = TRUE
  /\ restart = TRUE /\ d = "down" /\ refusal = "none" /\ guid = None
  /\ retrying = FALSE /\ stopping = FALSE /\ proxy = "none"
  /\ blocked = FALSE
  /\ w = "off" /\ strikes = NoStrikes /\ tick = 0 /\ lost = NoneLost
  /\ tool = NoTool
  /\ crashes = 0 /\ left = FALSE /\ mishaps = {}

-----------------------------------------------------------------------------
(* The state file and the registry.                                        *)

May(fault) == fault \in Faults

\* clear_guid; its error is ignored by every caller.
ClearGuid == record' \in {None} \cup (IF May("clear") THEN {record} ELSE {})

\* The history keeps the first accident, and "cleared" besides: no property asks
\* for more.
Told(a) == a # "cleared" /\ ~(mishaps \subseteq {"cleared"})

Accident(a, happened) ==
  mishaps' = IF happened /\ ~Told(a) THEN mishaps \cup {a} ELSE mishaps

\* A removal that fails is left to the next boot, and to nobody if the service
\* and its boot task are gone, or the task is about to go.
RemovalFails ==
  /\ left' = TRUE
  /\ Accident("unbacked", ~service /\ (~task \/ tool.at = "untask"))
RemovalHolds == UNCHANGED <<left, mishaps>>

\* The proxy answers the canary query, which needs no upstream.
Answers == proxy \in {"ok", "deaf"}

-----------------------------------------------------------------------------
(* WebProtection::start.                                                   *)

\* The service is started: by the SCM after a failure or at boot, or by a user.
StartService ==
  /\ d = "down" /\ service
  /\ d' = "start" /\ restart' = FALSE
  /\ retrying' = FALSE /\ stopping' = FALSE
  /\ UNCHANGED <<persistent, refusal, guid, proxy, watchVars, tool, history>>

\* Mutant: disabled() does not reconcile.
DisabledForgets(kind) ==
  /\ d = "start"
  /\ d' = (IF kind = "none" THEN "up" ELSE "orphan")
  /\ refusal' = kind /\ retrying' = FALSE
  /\ UNCHANGED <<persistent, restart, guid, stopping, proxy, watchVars, tool,
                 history>>

\* disabled() ("none") and refused(): the switch, the address or the canary
\* ("config"), no upstream, no port, or a self-test that found no upstream
\* ("transient"). The sockets of a failed self-test are closed.
Refuse(kind) ==
  /\ d = "start"
  /\ d' = "orphan" /\ refusal' = kind /\ retrying' = FALSE
  /\ UNCHANGED <<persistent, restart, guid, stopping, proxy, watchVars, tool,
                 history>>

\* reconcile_orphan_rule: is a rule of a previous run live?
OrphanCheck ==
  /\ d = "orphan"
  /\ \/ /\ record \notin rules
        /\ d' = "up" /\ RemovalHolds /\ UNCHANGED guid
     \/ /\ record # None /\ May("exists")
        /\ d' = "up" /\ RemovalFails /\ UNCHANGED guid
     \/ /\ record \in rules
        /\ d' = "orphan_remove" /\ guid' = record /\ RemovalHolds
  /\ UNCHANGED <<persistent, restart, refusal, retrying, stopping, proxy,
                 watchVars, tool, crashes>>

OrphanRemove ==
  /\ d = "orphan_remove"
  /\ \/ /\ rules' = rules \ {guid} /\ d' = "orphan_clear"
        /\ RemovalHolds /\ UNCHANGED guid
     \/ /\ May("remove")
        /\ d' = "up" /\ guid' = None /\ RemovalFails
        /\ UNCHANGED rules
  /\ UNCHANGED <<record, task, service, restart, refusal, retrying, stopping,
                 proxy, watchVars, tool, crashes>>

OrphanClear ==
  /\ d = "orphan_clear"
  /\ ClearGuid
  /\ d' = "up" /\ guid' = None
  /\ UNCHANGED <<rules, task, service, restart, refusal, retrying, stopping,
                 proxy, watchVars, tool, history>>

\* The sockets are bound, the self-test passed and the serving task runs.
Serve ==
  /\ d = "start"
  /\ d' = "gate" /\ refusal' = "none" /\ proxy' = "ok" /\ retrying' = FALSE
  /\ UNCHANGED <<persistent, restart, guid, stopping, watchVars, tool, history>>

\* Mutant: the recorded GUID is taken although none is recorded.
GateUnminted ==
  /\ d = "gate" /\ task
  /\ d' = "record" /\ guid' = record
  /\ UNCHANGED <<persistent, restart, refusal, retrying, stopping, proxy,
                 watchVars, tool, history>>

\* rule::install, up to the choice of the GUID: no task, no rule.
Gate ==
  /\ d = "gate"
  /\ \/ /\ ~task
        /\ d' = "up" /\ UNCHANGED guid
        /\ Accident("unowned", rules # {})
     \/ /\ task
        /\ guid' \in IF record = None THEN Guids \ rules ELSE {record}
        /\ UNCHANGED mishaps
        /\ d' = "record"
  /\ UNCHANGED <<persistent, restart, refusal, retrying, stopping, proxy,
                 watchVars, tool, crashes, left>>

\* record_guid writes a temporary file and renames it; it may also fail after
\* the rename, when it flushes the directory.
RecordGuid ==
  /\ d = "record"
  /\ \/ /\ record' = guid /\ d' = "install"
        /\ UNCHANGED <<guid, mishaps>>
     \/ /\ May("record")
        /\ record' \in {record, guid}
        /\ d' = "up" /\ guid' = None
        /\ Accident("unowned", rules # {})
  /\ UNCHANGED <<rules, task, service, restart, refusal, retrying, stopping,
                 proxy, watchVars, tool, crashes, left>>

\* Mutant: no watchdog is spawned.
InstallUnwatched ==
  /\ d = "install"
  /\ d' = "up" /\ rules' = rules \cup {guid}
  /\ UNCHANGED <<record, task, service, restart, refusal, guid, retrying,
                 stopping, proxy, watchVars, tool, history>>

\* nrpt::install_rule creates the key and writes its values; it may fail
\* before the rule has its server, or on the comment, when the rule is live.
InstallRule ==
  /\ d = "install"
  /\ d' = "up"
  /\ \/ /\ rules' = rules \cup {guid}
        /\ w' = "watch" /\ strikes' = NoStrikes /\ tick' = 0
        /\ blocked' \in BOOLEAN /\ lost' = NoneLost
        /\ UNCHANGED <<guid, mishaps>>
     \/ /\ May("install")
        /\ rules' \in {rules, rules \cup {guid}}
        /\ guid' = None
        /\ Accident("unowned", rules' # {})
        /\ UNCHANGED watchVars
  /\ UNCHANGED <<record, task, service, restart, refusal, retrying, stopping,
                 proxy, tool, crashes, left>>

-----------------------------------------------------------------------------
(* The retry of a refused start, and the stop.                             *)

RetryFires ==
  /\ d = "up" /\ refusal = "transient" /\ ~stopping
  /\ d' = "start" /\ retrying' = TRUE
  /\ UNCHANGED <<persistent, restart, refusal, guid, stopping, proxy, watchVars,
                 tool, history>>

StopRequested ==
  /\ d # "down" /\ ~stopping
  /\ stopping' = TRUE
  /\ UNCHANGED <<persistent, restart, d, refusal, guid, retrying, proxy,
                 watchVars, tool, history>>

\* What the end of the process leaves of its volatile state.
ProcessEnds ==
  /\ d' = "down" /\ guid' = None /\ refusal' = "none"
  /\ retrying' = FALSE /\ stopping' = FALSE
  /\ proxy' = "none" /\ w' = "off" /\ strikes' = NoStrikes /\ tick' = 0
  /\ blocked' = FALSE /\ lost' = NoneLost

\* RetryGuard::shutdown aborts a retry that does not return: it waits for its
\* sockets or its self-test, and has not touched the rule.
RetryAborted ==
  /\ d = "start" /\ retrying /\ stopping
  /\ ProcessEnds
  /\ UNCHANGED <<persistent, restart, tool, history>>

\* stop(): the rule first ...
StopRemove ==
  /\ d = "up" /\ stopping
  /\ \/ /\ guid = None
        /\ d' = "stop_sockets" /\ RemovalHolds /\ UNCHANGED rules
     \/ /\ guid # None
        /\ rules' = rules \ {guid} /\ d' = "stop_clear" /\ RemovalHolds
     \/ /\ guid # None /\ May("remove")
        /\ d' = "stop_sockets" /\ RemovalFails /\ UNCHANGED rules
  /\ UNCHANGED <<record, task, service, restart, refusal, guid, retrying,
                 stopping, proxy, watchVars, tool, crashes>>

StopClear ==
  /\ d = "stop_clear"
  /\ ClearGuid
  /\ d' = "stop_sockets"
  /\ UNCHANGED <<rules, task, service, restart, refusal, guid, retrying, stopping,
                 proxy, watchVars, tool, history>>

\* ... the sockets, the watchdog and the refresher second; the process ends.
StopSockets ==
  /\ d = "stop_sockets"
  /\ ProcessEnds
  /\ UNCHANGED <<persistent, restart, tool, history>>

-----------------------------------------------------------------------------
(* The proxy and the watchdog.                                             *)

\* The serving task ends or hangs; the upstreams stop and start to answer.
ProxyChanges ==
  /\ proxy # "none"
  /\ proxy' \in IF proxy = "dead" THEN {"dead"} ELSE {"ok", "deaf", "dead"}
  /\ UNCHANGED <<persistent, restart, d, refusal, guid, retrying, stopping,
                 watchVars, tool, history>>

\* The lists of the filter are edited while it runs.
FilterChanges ==
  /\ w = "watch"
  /\ blocked' = ~blocked
  /\ UNCHANGED <<persistent, daemonVars, w, strikes, tick, lost, tool, history>>

\* Mutant: a canary that is shed is a strike.
ServingUnshed(canary, traffic) == canary

\* The canary is answered and counted, or it is not but the proxy has counted
\* other queries or shed some meanwhile: busy is not dead.
Serving(canary, traffic) == canary \/ traffic

\* The filter blocks the name, and the check is skipped as good; or the name is
\* resolved through the proxy. A busy proxy may shed this probe, and nothing
\* rescues it.
Resolving(resolved) == blocked \/ resolved

\* Strikes::record_*: a check that did not run leaves its counter alone.
Count(n, ran, good) == IF ~ran THEN n ELSE IF good THEN 0 ELSE n + 1

\* How long the row of lost checks is: one that found the proxy sick makes it
\* as long as can be.
CountLost(n, ran, good) ==
  IF ran /\ ~good /\ (proxy # "ok" \/ n = Strikes) THEN Strikes ELSE Count(n, ran, good)

\* A probe of a proxy that is well may be lost all the same: shed, timed out, or
\* without a socket to go out by.
Tick ==
  /\ w = "watch"
  /\ tick' = (tick + 1) % ReconcilerEvery
  /\ \E canary, traffic, resolved \in BOOLEAN :
       LET resolves == tick' % ResolveEvery = 0
       IN /\ canary \/ traffic => Answers
          /\ resolved => proxy = "ok"
          /\ strikes' =
               [serve |-> Count(strikes.serve, TRUE, Serving(canary, traffic)),
                resolve |-> Count(strikes.resolve, resolves, Resolving(resolved)),
                reconciler |-> Count(strikes.reconciler, tick' = 0, task)]
          /\ lost' =
               [serve |-> CountLost(lost.serve, TRUE, canary \/ traffic),
                resolve |-> CountLost(lost.resolve, resolves, blocked \/ resolved)]
  /\ w' = IF \E k \in DOMAIN strikes : strikes'[k] >= Strikes THEN "fire" ELSE "watch"
  /\ UNCHANGED <<persistent, daemonVars, blocked, tool, history>>

\* Mutant: the error of the removal is ignored and the record goes anyway.
FireRegardless ==
  /\ w = "fire" /\ w' = "clear"
  /\ rules' \in {rules, rules \ {guid}}
  /\ strikes' = NoStrikes /\ tick' = 0
  /\ blocked' = FALSE /\ lost' = NoneLost
  /\ UNCHANGED <<record, task, service, daemonVars, tool, history>>

\* The watchdog removes the rule of its daemon and returns, whatever comes of it.
Fire ==
  /\ w = "fire"
  /\ \/ /\ rules' = rules \ {guid} /\ w' = "clear" /\ RemovalHolds
     \/ /\ May("remove")
        /\ w' = "fired" /\ RemovalFails /\ UNCHANGED rules
  /\ strikes' = NoStrikes /\ tick' = 0
  /\ blocked' = FALSE /\ lost' = NoneLost
  /\ UNCHANGED <<record, task, service, daemonVars, tool, crashes>>

FireClear ==
  /\ w = "clear"
  /\ ClearGuid
  /\ w' = "fired"
  /\ UNCHANGED <<rules, task, service, daemonVars, strikes, tick, blocked, lost,
                 tool, history>>

-----------------------------------------------------------------------------
(* sentinella-dnsreconcile.                                                *)

\* The upgrade runs --remove; the uninstaller stops and deletes the service,
\* runs --remove and, if that exits with 0, --remove-task.
StartTool(m) ==
  /\ tool.at = "idle"
  /\ tool' = [NoTool EXCEPT !.at = "check", !.for = m]
  /\ IF m = "uninstall"
     THEN /\ service' = FALSE /\ restart' = FALSE
          /\ stopping' = (d # "down")
     ELSE UNCHANGED <<service, restart, stopping>>
  /\ UNCHANGED <<rules, record, task, d, refusal, guid, retrying, proxy,
                 watchVars, history>>

\* Exit 0 lets the uninstaller go on, unless the scan found an orphan (exit 3).
ToolDone(orphan) ==
  tool' = IF tool.for = "uninstall" /\ ~orphan THEN [tool EXCEPT !.at = "task"]
          ELSE NoTool

ToolSucceeds(orphan) == ToolDone(orphan) /\ RemovalHolds

\* Mutant: the uninstaller ignores the exit code.
ToolFailsUnseen == tool' = [tool EXCEPT !.at = "untask"] /\ RemovalFails

\* Exit 1: nothing more is done before the next boot.
ToolFails == tool' = NoTool /\ RemovalFails

ToolStep(at) == tool' = [tool EXCEPT !.at = at] /\ RemovalHolds

\* run: the orphan scan, then the record and the rule it names.
ToolCheck ==
  /\ tool.at = "check"
  /\ LET orphan == rules \ {record} # {}
         On(at) == /\ tool' = [tool EXCEPT !.at = at, !.seen = record, !.orphan = orphan]
                   /\ RemovalHolds
     IN \/ record = None /\ ToolSucceeds(orphan)
        \/ record # None /\ record \notin rules /\ On("clear")
        \/ record # None /\ May("exists") /\ ToolFails
        \/ record \in rules /\ On(IF tool.for = "boot" THEN "probe" ELSE "delete")
  /\ UNCHANGED <<persistent, daemonVars, watchVars, crashes>>

\* probe_is_ours: three canary queries; a loaded proxy may miss them all.
ToolProbe ==
  /\ tool.at = "probe"
  /\ \/ Answers /\ ToolSucceeds(tool.orphan)
     \/ ToolStep("delete")
  /\ UNCHANGED <<persistent, daemonVars, watchVars, crashes>>

ToolDelete ==
  /\ tool.at = "delete"
  /\ \/ rules' = rules \ {tool.seen} /\ ToolStep("clear")
     \/ May("remove") /\ ToolFails /\ UNCHANGED rules
  /\ UNCHANGED <<record, task, service, daemonVars, watchVars, crashes>>

ToolClear ==
  /\ tool.at = "clear"
  /\ ClearGuid
  /\ Accident("cleared", /\ record' = None /\ record # None
                         /\ record \in rules \/ d = "install")
  /\ ToolDone(tool.orphan)
  /\ UNCHANGED <<rules, task, service, daemonVars, watchVars, crashes, left>>

\* --remove-task refuses while a recorded rule is live or cannot be looked up.
ToolTask ==
  /\ tool.at = "task"
  /\ \/ record \notin rules /\ ToolStep("untask")
     \/ record # None /\ (record \in rules \/ May("exists")) /\ ToolFails
  /\ UNCHANGED <<persistent, daemonVars, watchVars, crashes>>

ToolUntask ==
  /\ tool.at = "untask"
  /\ tool' = NoTool /\ task' = FALSE
  /\ UNCHANGED <<rules, record, service, daemonVars, watchVars, history>>

\* The installer registers the service and the task, and starts the service.
Install ==
  /\ d = "down" /\ tool.at = "idle" /\ ~(service /\ task)
  /\ service' = TRUE /\ task' = TRUE /\ restart' = TRUE
  /\ UNCHANGED <<rules, record, d, refusal, guid, retrying, stopping, proxy,
                 watchVars, tool, history>>

-----------------------------------------------------------------------------
(* The machine.                                                            *)

\* Somebody deletes or disables the scheduled task.
TaskDeleted ==
  /\ task /\ tool.at = "idle"
  /\ task' = FALSE
  /\ Accident("unbacked", ~service /\ rules # {})
  /\ UNCHANGED <<rules, record, service, daemonVars, watchVars, tool, crashes,
                 left>>

\* The daemon is killed; the SCM restarts it while the service is registered.
Crash ==
  /\ d # "down" /\ crashes < MaxCrashes
  /\ crashes' = crashes + 1
  /\ restart' = service
  /\ Accident("killed_late", ~service)
  /\ ProcessEnds
  /\ UNCHANGED <<persistent, tool, left>>

\* Power loss or reboot: the boot task runs, if it is there, and the service
\* starts (delayed); what was left to the boot is due now.
Reboot ==
  /\ crashes < MaxCrashes
  /\ crashes' = crashes + 1
  /\ restart' = service
  /\ IF ~service /\ d # "down" THEN Accident("killed_late", TRUE)
     ELSE Accident("unfinished", ~(service \/ task \/ tool.at = "idle" \/ rules = {}))
  /\ left' = (left /\ ~task)
  /\ ProcessEnds
  /\ tool' = IF task THEN [NoTool EXCEPT !.at = "check"] ELSE NoTool
  /\ UNCHANGED persistent

Start == StartService \/ Serve \/ Gate \/ RecordGuid \/ InstallRule
         \/ \E k \in {"none", "config", "transient"} : Refuse(k)
Orphan == OrphanCheck \/ OrphanRemove \/ OrphanClear
Retry == RetryFires \/ RetryAborted
Stop == StopRemove \/ StopClear \/ StopSockets
Watchdog == Tick \/ Fire \/ FireClear
Tool == ToolCheck \/ ToolProbe \/ ToolDelete \/ ToolClear \/ ToolTask \/ ToolUntask
World == \/ StopRequested \/ ProxyChanges \/ FilterChanges \/ TaskDeleted \/ Crash
         \/ Reboot \/ Install
         \/ \E m \in {"remove", "uninstall"} : StartTool(m)

Next == Start \/ Orphan \/ Retry \/ Stop \/ Watchdog \/ Tool \/ World

\* The threads of the daemon and the tool run, the watchdog's timer fires, and
\* the SCM starts what it owes. Users, faults and reboots owe nothing.
Fairness ==
  /\ WF_vars(d # "down" /\ (Start \/ Orphan \/ RetryFires \/ Stop))
  /\ WF_vars(restart /\ StartService)
  /\ WF_vars(Watchdog)
  /\ WF_vars(Tool)

Spec == Init /\ [][Next]_vars /\ Fairness

-----------------------------------------------------------------------------
(* Properties.                                                             *)

\* The file names every live rule: install writes the record before the rule
\* and every removal takes the rule before the record, whoever is killed and
\* whatever fails in between. Only then can anybody ever name the rule.
LiveIsRecorded ==
  "cleared" \notin mishaps => rules \subseteq {record}

\* A stopped service (one the SCM does not owe a start) whose removals met no
\* failure has left no rule: the sockets close after the rule is gone.
StopLeavesNoRule ==
  (d = "down" /\ service /\ ~restart /\ ~left /\ mishaps = {}) => rules = {}

\* The boot task is the last remover: it goes only when no rule is left. A live
\* rule always has somebody who can take it away without being told: the daemon
\* that owns it, the boot task, a service that will start again, or an uninstall
\* under way; and so it is whatever removal fails, but for the accidents:
\* "unbacked" is the one an uninstall cannot make up for.
SomebodyCanRemove ==
  (rules # {} /\ mishaps = {}) => guid \in rules \/ task \/ service \/ tool.at # "idle"

\* The watchdog takes the rule of a proxy only when it does not answer, does
\* not resolve, or has lost the boot task. Load costs nothing by way of the
\* canary; only probes lost in a row, or after the proxy was found sick, do:
\* those of the canary in ticks without any traffic, those that resolve under
\* any load, for nothing rescues them.
FiresOnlyWhenSick ==
  [][w = "watch" /\ w' = "fire" =>
       proxy # "ok" \/ ~task \/ \E k \in DOMAIN lost : lost'[k] >= Strikes]_vars

\* A machine without DNS is noticed: a rule in front of a proxy that does not
\* resolve is removed, or the proxy resolves again, unless a removal failed
\* (then the next boot owes it), one of the accidents has happened, or the
\* filter blocks the name the watchdog resolves: it takes that for healthy.
DeadRule == rules # {} /\ proxy # "ok"
DeadRuleRemoved ==
  DeadRule ~> (~DeadRule \/ left \/ mishaps # {} \/ (blocked /\ proxy = "deaf"))

=============================================================================
