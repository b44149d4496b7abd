------------------------------- MODULE WebProofs -------------------------------
(***************************************************************************)
(* Proofs about the web protection service: the rule and its lifecycle     *)
(* (WebProtection), the proxy behind it (DnsProxy), and the task that      *)
(* keeps its upstreams those of the network (DnsUpstreams).                *)
(*                                                                         *)
(* The three share no variable: each part below has its own inductive      *)
(* invariant, WebInv, ProxyInv and TaskInv.                                *)
(*                                                                         *)
(*   1. The rule. WebInv says which rule everybody on the way to it means: *)
(*      what the daemon is at work on is recorded, whoever is about to     *)
(*      clear the record has seen the rule go, and once the service and    *)
(*      the boot task are gone a rule has its daemon, or a tool that has   *)
(*      yet to come to it; and a strike is a check that failed.            *)
(*   2. The proxy. QueryOK says what a query knows at each point of its    *)
(*      way; the cache is the set of its bytes, so that its total is a     *)
(*      cardinality, and so are the queries that no counter has yet.       *)
(*   3. The upstreams. Where neither a signal nor a missed change is owed  *)
(*      to the task, the list it holds or has set is that of the network.  *)
(***************************************************************************)
EXTENDS WebProtection, DnsProxy, DnsUpstreams, FiniteSetTheorems, TLAPS

-----------------------------------------------------------------------------
(* 1. The rule.                                                            *)

\* TypeOK by parts.
RegistryTypes ==
  /\ rules \subseteq Guids /\ record \in Guids \cup {None}
  /\ task \in BOOLEAN /\ service \in BOOLEAN
DaemonTypes ==
  /\ d \in DaemonPoints /\ refusal \in {"none", "config", "transient"}
  /\ guid \in Guids \cup {None} /\ proxy \in {"none", "ok", "deaf", "dead"}
  /\ restart \in BOOLEAN /\ retrying \in BOOLEAN /\ stopping \in BOOLEAN
WatchTypes ==
  /\ w \in {"off", "watch", "fire", "clear", "fired"}
  /\ strikes \in [{"serve", "resolve", "reconciler"} -> 0 .. Strikes]
  /\ tick \in 0 .. ReconcilerEvery - 1
  /\ blocked \in BOOLEAN
  /\ lost \in [{"serve", "resolve"} -> 0 .. Strikes]
ToolTypes ==
  tool \in [at : ToolPoints, for : {"boot", "remove", "uninstall"},
            seen : Guids \cup {None}, orphan : BOOLEAN]
HistoryTypes == crashes \in 0 .. MaxCrashes /\ left \in BOOLEAN /\ mishaps \subseteq Mishaps
Types == RegistryTypes /\ DaemonTypes /\ WatchTypes /\ ToolTypes /\ HistoryTypes

\* Where the daemon is at work on a rule, and that only a served start owns one.
AtWork ==
  /\ d \in {"down", "start", "orphan", "gate"} => guid = None
  /\ d \in {"orphan_remove", "record", "install"} => guid # None
  /\ d = "up" /\ refusal # "none" => guid = None
  /\ d \in {"gate", "record", "install"} => refusal = "none"
  /\ d = "down" => proxy = "none"

\* The rule the daemon is at work on, or owns, is the recorded one, while there
\* is a record.
Named == guid # None => record \in {guid, None}

\* The watchdog runs in front of an installed rule and fires at the strike; no
\* strike is one too many for the checks that failed.
Watching ==
  /\ w # "off" => d \in {"up", "stop_clear", "stop_sockets"} /\ guid # None
                  /\ refusal = "none"
  /\ w = "watch" => \A k \in DOMAIN strikes : strikes[k] < Strikes
  /\ w \in {"watch", "fire"} =>
       strikes.serve <= lost.serve /\ strikes.resolve <= lost.resolve

\* Whoever is about to clear the record has seen the rule go.
Recorded ==
  "cleared" \notin mishaps =>
    /\ rules \subseteq {record}
    /\ d = "install" => record = guid
    /\ d \in {"orphan_clear", "stop_clear"} \/ w = "clear" => rules = {}

\* A daemon on its way out leaves nothing, and one that is up owns all there is.
Clean ==
  ~left /\ mishaps = {} =>
    /\ d \in {"stop_clear", "stop_sockets"} => rules = {}
    /\ d = "up" => rules \subseteq {guid}
    /\ d = "start" /\ retrying => rules = {}
    /\ d = "down" /\ service /\ ~restart => rules = {}

\* The tool sees an orphan only after an accident; after a reboot without the
\* service it is alone with the record.
ToolAlone ==
  /\ tool.orphan => "cleared" \in mishaps
  /\ tool.for = "boot" /\ tool.at # "idle" /\ ~service =>
       /\ d = "down"
       /\ tool.at \in {"probe", "delete"} => record = tool.seen

\* The tool still has the rule before it.
Removing ==
  \/ tool.for = "uninstall" /\ tool.at \in {"check", "delete", "clear", "task"}
  \/ tool.for = "boot" /\ tool.at \in {"check", "probe", "delete"}

\* Once the service and its boot task are gone, or the task is as good as gone,
\* a rule has its daemon, which will yet remove it, or a tool on its way to it.
Uninstalled ==
  ~service /\ (~task \/ tool.at = "untask") /\ ~Removing /\ mishaps = {} =>
    rules = {} \/ (guid \in rules /\ d \notin {"stop_clear", "stop_sockets"})

\* The inductive invariant of the rule.
WebInv == Types /\ AtWork /\ Named /\ Watching /\ Recorded /\ Clean /\ ToolAlone /\ Uninstalled

\* The counters of a watchdog that has seen nothing, or is gone.
LEMMA FreshCounters ==
  /\ NoStrikes \in [{"serve", "resolve", "reconciler"} -> 0 .. Strikes]
  /\ NoneLost \in [{"serve", "resolve"} -> 0 .. Strikes]
  /\ 0 \in 0 .. ReconcilerEvery - 1
BY WebAssumption DEF NoStrikes, NoneLost

\* The tool's record keeps its type when it moves, ends or gives up.
LEMMA ToolMoves ==
  ASSUME Types
  PROVE  /\ \A at \in ToolPoints : ToolStep(at) => ToolTypes'
         /\ \A orphan \in BOOLEAN : ToolSucceeds(orphan) => ToolTypes'
         /\ ToolFails => ToolTypes'
<1>1. NoTool \in [at : ToolPoints, for : {"boot", "remove", "uninstall"},
                  seen : Guids \cup {None}, orphan : BOOLEAN]
  BY DEF NoTool, ToolPoints
<1>2. \A at \in ToolPoints :
        [tool EXCEPT !.at = at] \in [at : ToolPoints, for : {"boot", "remove", "uninstall"},
                                     seen : Guids \cup {None}, orphan : BOOLEAN]
  BY DEF Types, ToolTypes
<1>3. "task" \in ToolPoints
  BY DEF ToolPoints
<1> QED
  BY <1>1, <1>2, <1>3 DEF ToolTypes, ToolStep, ToolSucceeds, ToolFails, ToolDone,
     RemovalFails, RemovalHolds, Accident, Told

\* What the tool has read is in its record.
LEMMA ToolReads ==
  ASSUME Types, NEW at \in ToolPoints, NEW orphan \in BOOLEAN,
         tool' = [tool EXCEPT !.at = at, !.seen = record, !.orphan = orphan]
  PROVE  /\ ToolTypes'
         /\ tool'.at = at /\ tool'.for = tool.for
         /\ tool'.seen = record /\ tool'.orphan = orphan
BY DEF Types, ToolTypes, RegistryTypes

\* A tool that is done goes on to the task, or is gone.
LEMMA ToolEnds ==
  ASSUME Types, NEW orphan \in BOOLEAN, ToolSucceeds(orphan) \/ ToolFails
  PROVE  \/ tool' = NoTool
         \/ /\ tool'.at = "task" /\ tool.for = "uninstall" /\ tool'.for = "uninstall"
            /\ tool'.seen = tool.seen /\ tool'.orphan = tool.orphan
BY DEF Types, ToolTypes, ToolSucceeds, ToolFails, ToolDone, RemovalFails, RemovalHolds,
   Accident, Told

\* A start, from the first refusal to the installed rule.
LEMMA StartKeeps == ASSUME WebInv, Start PROVE WebInv'
<1> USE WebAssumption DEF WebInv, Types
<1>1. CASE StartService
  <2>1. RegistryTypes' /\ HistoryTypes'
    BY <1>1 DEF RegistryTypes, HistoryTypes, StartService, persistent, watchVars,
       history
  <2>2. DaemonTypes'
    BY <1>1 DEF DaemonTypes, RegistryTypes, DaemonPoints, StartService, persistent,
       watchVars, history
  <2>3. WatchTypes' /\ ToolTypes'
    BY <1>1 DEF WatchTypes, ToolTypes, RegistryTypes, ToolPoints, StartService,
       persistent, watchVars, history
  <2>4. /\ AtWork' /\ Named' /\ Watching' /\ Recorded' /\ Clean'
       /\ ToolAlone' /\ Uninstalled'
    BY <1>1 DEF RegistryTypes, DaemonTypes, WatchTypes, ToolTypes, HistoryTypes, AtWork,
       Named, Watching, Recorded, Clean, ToolAlone, Uninstalled, Removing, StartService,
       persistent, watchVars, history
  <2> QED
    BY <2>1, <2>2, <2>3, <2>4
<1>2. CASE Serve
  <2>1. RegistryTypes' /\ HistoryTypes'
    BY <1>2 DEF RegistryTypes, HistoryTypes, Serve, persistent, watchVars, history
  <2>2. DaemonTypes' /\ WatchTypes' /\ ToolTypes'
    <3>1. DaemonTypes'
      BY <1>2 DEF DaemonTypes, DaemonPoints, Serve
    <3>2. WatchTypes' /\ ToolTypes'
      BY <1>2 DEF WatchTypes, ToolTypes, Serve, watchVars
    <3> QED
      BY <3>1, <3>2
  <2>3. /\ AtWork' /\ Named' /\ Watching' /\ Recorded' /\ Clean'
       /\ ToolAlone' /\ Uninstalled'
    BY <1>2 DEF RegistryTypes, DaemonTypes, WatchTypes, ToolTypes, HistoryTypes, AtWork,
       Named, Watching, Recorded, Clean, ToolAlone, Uninstalled, Removing, Serve,
       persistent, watchVars, history
  <2> QED
    BY <2>1, <2>2, <2>3
<1>3. CASE Gate
  <2>1. RegistryTypes' /\ HistoryTypes'
    BY <1>3 DEF RegistryTypes, HistoryTypes, Mishaps, Gate, Accident, persistent,
       watchVars, Told
  <2>2. DaemonTypes' /\ WatchTypes' /\ ToolTypes'
    BY <1>3 DEF RegistryTypes, DaemonTypes, WatchTypes, ToolTypes, DaemonPoints,
       ToolPoints, Watching, Gate, Accident, persistent, watchVars, Told
  <2>3. /\ AtWork' /\ Named' /\ Watching' /\ Recorded' /\ Clean'
       /\ ToolAlone' /\ Uninstalled'
    BY <1>3 DEF RegistryTypes, DaemonTypes, WatchTypes, ToolTypes, HistoryTypes, AtWork,
       Named, Watching, Recorded, Clean, ToolAlone, Uninstalled, Removing, Gate,
       Accident, persistent, watchVars, Told
  <2> QED
    BY <2>1, <2>2, <2>3
<1>4. CASE RecordGuid
  <2>1. RegistryTypes' /\ HistoryTypes'
    BY <1>4 DEF RegistryTypes, HistoryTypes, DaemonTypes, AtWork, Mishaps, RecordGuid,
       Accident, May, watchVars, Told
  <2>2. DaemonTypes' /\ WatchTypes' /\ ToolTypes'
    BY <1>4 DEF RegistryTypes, DaemonTypes, WatchTypes, ToolTypes, DaemonPoints,
       ToolPoints, Watching, RecordGuid, Accident, May, watchVars, Told
  <2>3. /\ AtWork' /\ Named' /\ Watching' /\ Recorded' /\ Clean'
       /\ ToolAlone' /\ Uninstalled'
    BY <1>4 DEF RegistryTypes, DaemonTypes, WatchTypes, ToolTypes, HistoryTypes, AtWork,
       Named, Watching, Recorded, Clean, ToolAlone, Uninstalled, Removing, RecordGuid,
       Accident, May, watchVars, Told
  <2> QED
    BY <2>1, <2>2, <2>3
<1>5. CASE InstallRule
  <2>1. RegistryTypes' /\ HistoryTypes'
    BY <1>5 DEF RegistryTypes, HistoryTypes, DaemonTypes, AtWork, Mishaps, InstallRule,
       Accident, May, NoStrikes, watchVars, Told, NoneLost
  <2>2. DaemonTypes' /\ WatchTypes' /\ ToolTypes'
    BY <1>5, FreshCounters DEF RegistryTypes, DaemonTypes, WatchTypes, ToolTypes,
       DaemonPoints, ToolPoints, Watching, InstallRule, Accident, May, watchVars, Told
  <2>3. /\ AtWork' /\ Named' /\ Watching' /\ Recorded' /\ Clean'
       /\ ToolAlone' /\ Uninstalled'
    BY <1>5 DEF RegistryTypes, DaemonTypes, WatchTypes, ToolTypes, HistoryTypes, AtWork,
       Named, Watching, Recorded, Clean, ToolAlone, Uninstalled, Removing, InstallRule,
       Accident, May, NoStrikes, watchVars, Told, NoneLost
  <2> QED
    BY <2>1, <2>2, <2>3
<1>6. ASSUME NEW k \in {"none", "config", "transient"}, Refuse(k) PROVE WebInv'
  <2>1. RegistryTypes' /\ HistoryTypes'
    BY <1>6 DEF RegistryTypes, HistoryTypes, Refuse, persistent, watchVars, history
  <2>2. DaemonTypes'
    BY <1>6 DEF DaemonTypes, RegistryTypes, DaemonPoints, Refuse, persistent, watchVars,
       history
  <2>3. WatchTypes' /\ ToolTypes'
    BY <1>6 DEF WatchTypes, ToolTypes, RegistryTypes, ToolPoints, Refuse, persistent,
       watchVars, history
  <2>4. /\ AtWork' /\ Named' /\ Watching' /\ Recorded' /\ Clean'
       /\ ToolAlone' /\ Uninstalled'
    BY <1>6 DEF RegistryTypes, DaemonTypes, WatchTypes, ToolTypes, HistoryTypes, AtWork,
       Named, Watching, Recorded, Clean, ToolAlone, Uninstalled, Removing, Refuse,
       persistent, watchVars, history
  <2> QED
    BY <2>1, <2>2, <2>3, <2>4
<1> QED
  BY <1>1, <1>2, <1>3, <1>4, <1>5, <1>6 DEF Start

\* The rule a previous run left.
LEMMA OrphanKeeps == ASSUME WebInv, Orphan PROVE WebInv'
<1> USE WebAssumption DEF WebInv, Types
<1>1. CASE OrphanCheck
  <2>1. RegistryTypes' /\ HistoryTypes'
    BY <1>1 DEF RegistryTypes, HistoryTypes, Mishaps, OrphanCheck, May, persistent,
       watchVars, RemovalFails, RemovalHolds, Accident, Told
  <2>2. DaemonTypes' /\ WatchTypes' /\ ToolTypes'
    BY <1>1 DEF RegistryTypes, DaemonTypes, WatchTypes, ToolTypes, DaemonPoints,
       ToolPoints, Watching, OrphanCheck, May, persistent, watchVars, RemovalFails,
       RemovalHolds, Accident, Told
  <2>3. /\ AtWork' /\ Named' /\ Watching' /\ Recorded' /\ Clean'
       /\ ToolAlone' /\ Uninstalled'
    BY <1>1 DEF RegistryTypes, DaemonTypes, WatchTypes, ToolTypes, HistoryTypes, AtWork,
       Named, Watching, Recorded, Clean, ToolAlone, Uninstalled, Removing, OrphanCheck,
       May, persistent, watchVars, RemovalFails, RemovalHolds, Accident, Told
  <2> QED
    BY <2>1, <2>2, <2>3
<1>2. CASE OrphanRemove
  <2>1. RegistryTypes' /\ HistoryTypes'
    BY <1>2 DEF RegistryTypes, HistoryTypes, Mishaps, OrphanRemove, May, watchVars,
       RemovalFails, RemovalHolds, Accident, Told
  <2>2. DaemonTypes' /\ WatchTypes' /\ ToolTypes'
    BY <1>2 DEF RegistryTypes, DaemonTypes, WatchTypes, ToolTypes, DaemonPoints,
       ToolPoints, Watching, OrphanRemove, May, watchVars, RemovalFails, RemovalHolds,
       Accident, Told
  <2>3. /\ AtWork' /\ Named' /\ Watching' /\ Recorded' /\ Clean'
       /\ ToolAlone' /\ Uninstalled'
    BY <1>2 DEF RegistryTypes, DaemonTypes, WatchTypes, ToolTypes, HistoryTypes, AtWork,
       Named, Watching, Recorded, Clean, ToolAlone, Uninstalled, Removing, OrphanRemove,
       May, watchVars, RemovalFails, RemovalHolds, Accident, Told
  <2> QED
    BY <2>1, <2>2, <2>3
<1>3. CASE OrphanClear
  <2>1. RegistryTypes' /\ HistoryTypes'
    BY <1>3 DEF RegistryTypes, HistoryTypes, OrphanClear, ClearGuid, May, watchVars,
       history
  <2>2. DaemonTypes' /\ WatchTypes' /\ ToolTypes'
    BY <1>3 DEF RegistryTypes, DaemonTypes, WatchTypes, ToolTypes, DaemonPoints,
       ToolPoints, Watching, OrphanClear, ClearGuid, May, watchVars, history
  <2>3. /\ AtWork' /\ Named' /\ Watching' /\ Recorded' /\ Clean'
       /\ ToolAlone' /\ Uninstalled'
    BY <1>3 DEF RegistryTypes, DaemonTypes, WatchTypes, ToolTypes, HistoryTypes, AtWork,
       Named, Watching, Recorded, Clean, ToolAlone, Uninstalled, Removing, OrphanClear,
       ClearGuid, May, watchVars, history
  <2> QED
    BY <2>1, <2>2, <2>3
<1> QED
  BY <1>1, <1>2, <1>3 DEF Orphan

\* The retry of a refused start, and the stop.
LEMMA StopKeeps == ASSUME WebInv, Retry \/ Stop PROVE WebInv'
<1> USE WebAssumption DEF WebInv, Types
<1>1. CASE RetryFires
  <2>1. RegistryTypes' /\ HistoryTypes'
    BY <1>1 DEF RegistryTypes, HistoryTypes, RetryFires, persistent, watchVars, history
  <2>2. DaemonTypes' /\ WatchTypes' /\ ToolTypes'
    BY <1>1 DEF RegistryTypes, DaemonTypes, WatchTypes, ToolTypes, DaemonPoints,
       ToolPoints, Watching, RetryFires, persistent, watchVars, history
  <2>3. /\ AtWork' /\ Named' /\ Watching' /\ Recorded' /\ Clean'
       /\ ToolAlone' /\ Uninstalled'
    BY <1>1 DEF RegistryTypes, DaemonTypes, WatchTypes, ToolTypes, HistoryTypes, AtWork,
       Named, Watching, Recorded, Clean, ToolAlone, Uninstalled, Removing, RetryFires,
       persistent, watchVars, history
  <2> QED
    BY <2>1, <2>2, <2>3
<1>2. CASE RetryAborted
  <2>1. RegistryTypes' /\ HistoryTypes'
    BY <1>2 DEF RegistryTypes, HistoryTypes, RetryAborted, ProcessEnds, NoStrikes,
       persistent, history, NoneLost
  <2>2. DaemonTypes'
    BY <1>2 DEF DaemonTypes, RegistryTypes, DaemonPoints, RetryAborted, ProcessEnds,
       NoStrikes, persistent, history, NoneLost
  <2>3. WatchTypes' /\ ToolTypes'
    BY <1>2, FreshCounters DEF WatchTypes, ToolTypes, RegistryTypes, ToolPoints,
       RetryAborted, ProcessEnds, persistent, history
  <2>4. /\ AtWork' /\ Named' /\ Watching' /\ Recorded' /\ Clean'
       /\ ToolAlone' /\ Uninstalled'
    BY <1>2 DEF RegistryTypes, DaemonTypes, WatchTypes, ToolTypes, HistoryTypes, AtWork,
       Named, Watching, Recorded, Clean, ToolAlone, Uninstalled, Removing, RetryAborted,
       ProcessEnds, NoStrikes, persistent, history, NoneLost
  <2> QED
    BY <2>1, <2>2, <2>3, <2>4
<1>3. CASE StopRemove
  <2>1. RegistryTypes' /\ HistoryTypes'
    BY <1>3 DEF RegistryTypes, HistoryTypes, Mishaps, StopRemove, May, watchVars,
       RemovalFails, RemovalHolds, Accident, Told
  <2>2. DaemonTypes' /\ WatchTypes' /\ ToolTypes'
    BY <1>3 DEF RegistryTypes, DaemonTypes, WatchTypes, ToolTypes, DaemonPoints,
       ToolPoints, Watching, StopRemove, May, watchVars, RemovalFails, RemovalHolds,
       Accident, Told
  <2>3. /\ AtWork' /\ Named' /\ Watching' /\ Recorded' /\ Clean'
       /\ ToolAlone' /\ Uninstalled'
    BY <1>3 DEF RegistryTypes, DaemonTypes, WatchTypes, ToolTypes, HistoryTypes, AtWork,
       Named, Watching, Recorded, Clean, ToolAlone, Uninstalled, Removing, StopRemove,
       May, watchVars, RemovalFails, RemovalHolds, Accident, Told
  <2> QED
    BY <2>1, <2>2, <2>3
<1>4. CASE StopClear
  <2>1. RegistryTypes' /\ HistoryTypes'
    BY <1>4 DEF RegistryTypes, HistoryTypes, StopClear, ClearGuid, May, watchVars,
       history
  <2>2. DaemonTypes' /\ WatchTypes' /\ ToolTypes'
    BY <1>4 DEF RegistryTypes, DaemonTypes, WatchTypes, ToolTypes, DaemonPoints,
       ToolPoints, Watching, StopClear, ClearGuid, May, watchVars, history
  <2>3. /\ AtWork' /\ Named' /\ Watching' /\ Recorded' /\ Clean'
       /\ ToolAlone' /\ Uninstalled'
    BY <1>4 DEF RegistryTypes, DaemonTypes, WatchTypes, ToolTypes, HistoryTypes, AtWork,
       Named, Watching, Recorded, Clean, ToolAlone, Uninstalled, Removing, StopClear,
       ClearGuid, May, watchVars, history
  <2> QED
    BY <2>1, <2>2, <2>3
<1>5. CASE StopSockets
  <2>1. RegistryTypes' /\ HistoryTypes'
    BY <1>5 DEF RegistryTypes, HistoryTypes, StopSockets, ProcessEnds, NoStrikes,
       persistent, history, NoneLost
  <2>2. DaemonTypes'
    BY <1>5 DEF DaemonTypes, RegistryTypes, DaemonPoints, StopSockets, ProcessEnds,
       NoStrikes, persistent, history, NoneLost
  <2>3. WatchTypes' /\ ToolTypes'
    BY <1>5, FreshCounters DEF WatchTypes, ToolTypes, RegistryTypes, ToolPoints,
       StopSockets, ProcessEnds, persistent, history
  <2>4. /\ AtWork' /\ Named' /\ Watching' /\ Recorded' /\ Clean'
       /\ ToolAlone' /\ Uninstalled'
    BY <1>5 DEF RegistryTypes, DaemonTypes, WatchTypes, ToolTypes, HistoryTypes, AtWork,
       Named, Watching, Recorded, Clean, ToolAlone, Uninstalled, Removing, StopSockets,
       ProcessEnds, NoStrikes, persistent, history, NoneLost
  <2> QED
    BY <2>1, <2>2, <2>3, <2>4
<1> QED
  BY <1>1, <1>2, <1>3, <1>4, <1>5 DEF Retry, Stop

\* A strike is one more in the row of the checks that failed.
LEMMA StrikeIsLost ==
  ASSUME NEW n \in Nat, NEW m \in Nat, NEW ran, NEW good, n < Strikes, n <= m
  PROVE  Count(n, ran, good) \in Nat /\ Count(n, ran, good) <= CountLost(m, ran, good)
BY WebAssumption DEF Count, CountLost

\* The watchdog.
LEMMA WatchdogKeeps == ASSUME WebInv, Watchdog PROVE WebInv'
<1> USE WebAssumption DEF WebInv, Types
<1>1. CASE Tick
  <2>1. RegistryTypes' /\ HistoryTypes'
    BY <1>1 DEF RegistryTypes, HistoryTypes, Tick, Count, Serving, Answers, persistent,
       daemonVars, history, CountLost, Resolving
  <2>2. DaemonTypes' /\ WatchTypes' /\ ToolTypes'
    BY <1>1 DEF RegistryTypes, DaemonTypes, WatchTypes, ToolTypes, DaemonPoints,
       ToolPoints, Watching, Tick, Count, Serving, Answers, persistent, daemonVars,
       history, CountLost, Resolving
  <2>3. AtWork' /\ Named' /\ Recorded' /\ Clean' /\ ToolAlone' /\ Uninstalled'
    BY <1>1 DEF AtWork, Named, Watching, Recorded, Clean, ToolAlone, Uninstalled,
       Removing, Tick, persistent, daemonVars, history
  <2>4. Watching'
    <3>1. /\ d \in {"up", "stop_clear", "stop_sockets"} /\ guid # None /\ refusal = "none"
          /\ UNCHANGED <<d, guid, refusal>>
      BY <1>1 DEF Watching, Tick, daemonVars
    <3>2. w' = "watch" => \A k \in DOMAIN strikes : ~(strikes'[k] >= Strikes)
      BY <1>1 DEF Tick
    <3>3. w' = "watch" => \A k \in DOMAIN strikes' : strikes'[k] < Strikes
      BY <2>2, <3>2 DEF WatchTypes
    <3>4. strikes'.serve <= lost'.serve /\ strikes'.resolve <= lost'.resolve
      <4>1. /\ strikes.serve \in Nat /\ strikes.resolve \in Nat
            /\ lost.serve \in Nat /\ lost.resolve \in Nat
            /\ strikes.serve < Strikes /\ strikes.resolve < Strikes
            /\ strikes.serve <= lost.serve /\ strikes.resolve <= lost.resolve
        BY <1>1 DEF WatchTypes, Watching, Tick
      <4>2. PICK canary \in BOOLEAN, traffic \in BOOLEAN, resolved \in BOOLEAN :
              LET resolves == tick' % ResolveEvery = 0
              IN /\ canary \/ traffic => Answers
                 /\ resolved => proxy = "ok"
                 /\ strikes' =
                      [serve |-> Count(strikes.serve, TRUE, Serving(canary, traffic)),
                       resolve |-> Count(strikes.resolve, resolves, Resolving(resolved)),
                       reconciler |-> Count(strikes.reconciler, tick' = 0, task)]
                 /\ lost' =
                      [serve |-> CountLost(lost.serve, TRUE, canary \/ traffic),
                       resolve |-> CountLost(lost.resolve, resolves, blocked \/ resolved)]
        BY <1>1 DEF Tick
      <4> DEFINE resolves == tick' % ResolveEvery = 0
      <4>3. /\ strikes'.serve = Count(strikes.serve, TRUE, canary \/ traffic)
            /\ lost'.serve = CountLost(lost.serve, TRUE, canary \/ traffic)
        BY <4>2 DEF Serving
      <4>4. /\ strikes'.resolve = Count(strikes.resolve, resolves, blocked \/ resolved)
            /\ lost'.resolve = CountLost(lost.resolve, resolves, blocked \/ resolved)
        BY <4>2 DEF Resolving
      <4> HIDE DEF resolves
      <4>5. strikes'.serve <= lost'.serve
        BY <4>1, <4>3, StrikeIsLost
      <4>6. strikes'.resolve <= lost'.resolve
        BY <4>1, <4>4, StrikeIsLost
      <4> QED
        BY <4>5, <4>6
    <3> QED
      BY <3>1, <3>3, <3>4 DEF Watching
  <2> QED
    BY <2>1, <2>2, <2>3, <2>4
<1>2. CASE Fire
  <2>1. RegistryTypes' /\ HistoryTypes'
    BY <1>2 DEF RegistryTypes, HistoryTypes, Mishaps, Fire, May, NoStrikes, daemonVars,
       RemovalFails, RemovalHolds, Accident, Told, NoneLost
  <2>2. DaemonTypes' /\ WatchTypes' /\ ToolTypes'
    <3>1. UNCHANGED <<daemonVars, tool>> /\ w' \in {"clear", "fired"}
          /\ strikes' = NoStrikes /\ tick' = 0 /\ blocked' = FALSE /\ lost' = NoneLost
      BY <1>2 DEF Fire
    <3>2. DaemonTypes' /\ ToolTypes'
      BY <3>1 DEF DaemonTypes, ToolTypes, daemonVars
    <3>3. WatchTypes'
      BY <3>1, FreshCounters DEF WatchTypes
    <3> QED
      BY <3>2, <3>3
  <2>3. /\ AtWork' /\ Named' /\ Watching' /\ Recorded' /\ Clean'
       /\ ToolAlone' /\ Uninstalled'
    BY <1>2 DEF RegistryTypes, DaemonTypes, WatchTypes, ToolTypes, HistoryTypes, AtWork,
       Named, Watching, Recorded, Clean, ToolAlone, Uninstalled, Removing, Fire, May,
       NoStrikes, daemonVars, RemovalFails, RemovalHolds, Accident, Told, NoneLost
  <2> QED
    BY <2>1, <2>2, <2>3
<1>3. CASE FireClear
  <2>1. RegistryTypes' /\ HistoryTypes'
    BY <1>3 DEF RegistryTypes, HistoryTypes, FireClear, ClearGuid, May, daemonVars,
       history
  <2>2. DaemonTypes' /\ WatchTypes' /\ ToolTypes'
    BY <1>3 DEF RegistryTypes, DaemonTypes, WatchTypes, ToolTypes, DaemonPoints,
       ToolPoints, Watching, FireClear, ClearGuid, May, daemonVars, history
  <2>3. /\ AtWork' /\ Named' /\ Watching' /\ Recorded' /\ Clean'
       /\ ToolAlone' /\ Uninstalled'
    BY <1>3 DEF RegistryTypes, DaemonTypes, WatchTypes, ToolTypes, HistoryTypes, AtWork,
       Named, Watching, Recorded, Clean, ToolAlone, Uninstalled, Removing, FireClear,
       ClearGuid, May, daemonVars, history
  <2> QED
    BY <2>1, <2>2, <2>3
<1> QED
  BY <1>1, <1>2, <1>3 DEF Watchdog

\* sentinella-dnsreconcile.
LEMMA ToolKeeps == ASSUME WebInv, Tool PROVE WebInv'
<1> USE WebAssumption DEF WebInv, Types
<1>1. CASE ToolCheck
  <2>1. PICK orphan \in BOOLEAN : orphan = (rules \ {record} # {})
    OBVIOUS
  <2>2. orphan => "cleared" \in mishaps
    BY <2>1 DEF Recorded
  <2>3. rules = {} \/ record \in rules \/ "cleared" \in mishaps
    BY DEF Recorded, RegistryTypes
  <2> DEFINE Read(at) ==
        /\ tool' = [tool EXCEPT !.at = at, !.seen = record, !.orphan = orphan]
        /\ RemovalHolds
  <2>4. /\ tool.at = "check"
        /\ UNCHANGED <<persistent, daemonVars, watchVars, crashes>>
        /\ \/ record = None /\ ToolSucceeds(orphan)
           \/ record # None /\ ToolFails
           \/ record # None /\ record \notin rules /\ Read("clear")
           \/ tool.for = "boot" /\ Read("probe")
           \/ tool.for # "boot" /\ Read("delete")
    BY <1>1, <2>1 DEF ToolCheck, RegistryTypes
  <2>5. /\ RegistryTypes' /\ HistoryTypes' /\ DaemonTypes' /\ WatchTypes'
        /\ AtWork' /\ Named' /\ Watching' /\ Recorded' /\ Clean'
    <3>1. RemovalFails \/ RemovalHolds
      BY <2>4 DEF ToolSucceeds, ToolFails
    <3>2. /\ left' = left \/ left' = TRUE
          /\ mishaps' = mishaps \/ mishaps' = mishaps \cup {"unbacked"}
      BY <3>1 DEF RemovalFails, RemovalHolds, Accident
    <3>3. RegistryTypes' /\ HistoryTypes' /\ DaemonTypes' /\ WatchTypes'
      <4>1. RegistryTypes' /\ HistoryTypes'
        BY <2>4, <3>2 DEF RegistryTypes, HistoryTypes, Mishaps, persistent
      <4>2. DaemonTypes' /\ WatchTypes'
        BY <2>4 DEF DaemonTypes, WatchTypes, daemonVars, watchVars
      <4> QED
        BY <4>1, <4>2
    <3>4. UNCHANGED <<rules, record, service, restart, d, refusal, guid, retrying,
                      proxy, w, strikes, lost>>
      BY <2>4 DEF persistent, daemonVars, watchVars
    <3>5. AtWork' /\ Named' /\ Watching' /\ Recorded' /\ Clean'
      BY <3>2, <3>4 DEF HistoryTypes, AtWork, Named, Watching, Recorded, Clean
    <3> QED
      BY <3>3, <3>5
  <2>6. CASE (record = None /\ ToolSucceeds(orphan)) \/ ToolFails
    <3>1. ToolTypes'
      BY <2>6, ToolMoves
    <3>2. \/ tool' = NoTool
          \/ /\ tool'.at = "task" /\ tool.for = "uninstall" /\ tool'.for = "uninstall"
             /\ tool'.seen = tool.seen /\ tool'.orphan = tool.orphan
      BY <2>6, ToolEnds
    <3>3. \/ RemovalHolds /\ (tool' # NoTool \/ rules = {} \/ "cleared" \in mishaps)
          \/ RemovalFails /\ tool' = NoTool
      BY <2>3, <2>6 DEF RegistryTypes, ToolSucceeds, ToolFails
    <3>4. \/ mishaps' = mishaps
          \/ mishaps' = mishaps \cup {"unbacked"}
      BY <3>3 DEF RemovalFails, RemovalHolds, Accident
    <3>5. tool' = NoTool => \/ rules = {} \/ mishaps' # {} \/ task \/ service
      BY <2>4, <3>3 DEF RemovalFails, RemovalHolds, Accident, Told
    <3>6. ToolAlone'
      BY <2>4, <3>2, <3>4 DEF ToolAlone, NoTool, persistent, daemonVars
    <3>7. Uninstalled'
      BY <2>4, <3>2, <3>5 DEF Uninstalled, Removing, NoTool, persistent, daemonVars
    <3> QED
      BY <2>5, <3>1, <3>6, <3>7
  <2>7. ASSUME NEW at \in {"clear", "probe", "delete"}, Read(at),
               at = "clear" => record \notin rules,
               at = "probe" => tool.for = "boot",
               at = "delete" => tool.for # "boot"
        PROVE  WebInv'
    <3>1. /\ ToolTypes'
          /\ tool'.at = at /\ tool'.for = tool.for
          /\ tool'.seen = record /\ tool'.orphan = orphan
      <4>1. at \in ToolPoints
        BY DEF ToolPoints
      <4> QED
        BY <2>7, <4>1, ToolReads
    <3>2. tool.for \in {"boot", "remove", "uninstall"}
      BY DEF ToolTypes
    <3>3. ToolAlone'
      BY <2>2, <2>4, <2>7, <3>1 DEF ToolAlone, RemovalHolds, persistent, daemonVars
    <3>4. Uninstalled'
      BY <2>3, <2>4, <2>7, <3>1, <3>2 DEF Uninstalled, Removing, RemovalHolds,
         persistent, daemonVars
    <3> QED
      BY <2>5, <3>1, <3>3, <3>4
  <2> QED
    BY <2>4, <2>6, <2>7
<1>2. CASE ToolProbe
  <2>1. RegistryTypes' /\ HistoryTypes'
    BY <1>2 DEF RegistryTypes, HistoryTypes, DaemonTypes, Mishaps, ToolProbe,
       ToolSucceeds, ToolStep, persistent, daemonVars, watchVars, ToolDone,
       RemovalFails, RemovalHolds, Accident, Told
  <2>2. DaemonTypes' /\ WatchTypes'
    BY <1>2 DEF DaemonTypes, WatchTypes, ToolProbe, persistent, daemonVars, watchVars,
       ToolDone, RemovalFails, RemovalHolds, Accident, Told
  <2>3. ToolTypes'
    <3>1. {"probe", "delete", "clear", "untask"} \subseteq ToolPoints
      BY DEF ToolPoints
    <3> QED
      BY <1>2, <3>1, ToolMoves DEF ToolProbe, ToolTypes, ToolDone, RemovalFails,
         RemovalHolds, Accident, Told
  <2>4. /\ AtWork' /\ Named' /\ Watching' /\ Recorded' /\ Clean'
       /\ ToolAlone' /\ Uninstalled'
    BY <1>2 DEF RegistryTypes, DaemonTypes, WatchTypes, ToolTypes, HistoryTypes, AtWork,
       Named, Watching, Recorded, Clean, ToolAlone, Uninstalled, Removing, ToolProbe,
       Answers, ToolSucceeds, ToolStep, NoTool, persistent, daemonVars, watchVars,
       ToolDone, RemovalFails, RemovalHolds, Accident, Told
  <2> QED
    BY <2>1, <2>2, <2>3, <2>4
<1>3. CASE ToolDelete
  <2>1. RegistryTypes' /\ HistoryTypes'
    BY <1>3 DEF RegistryTypes, HistoryTypes, DaemonTypes, Mishaps, ToolDelete,
       ToolFails, ToolStep, daemonVars, watchVars, ToolDone, RemovalFails, RemovalHolds,
       Accident, Told
  <2>2. DaemonTypes' /\ WatchTypes'
    BY <1>3 DEF DaemonTypes, WatchTypes, ToolDelete, daemonVars, watchVars, ToolDone,
       RemovalFails, RemovalHolds, Accident, Told
  <2>3. ToolTypes'
    <3>1. {"probe", "delete", "clear", "untask"} \subseteq ToolPoints
      BY DEF ToolPoints
    <3> QED
      BY <1>3, <3>1, ToolMoves DEF ToolDelete, ToolDone, RemovalFails, RemovalHolds,
         Accident, Told
  <2>4. /\ AtWork' /\ Named' /\ Watching' /\ Recorded' /\ Clean'
       /\ ToolAlone' /\ Uninstalled'
    BY <1>3 DEF RegistryTypes, DaemonTypes, WatchTypes, ToolTypes, HistoryTypes, AtWork,
       Named, Watching, Recorded, Clean, ToolAlone, Uninstalled, Removing, ToolDelete,
       ToolFails, ToolStep, NoTool, May, daemonVars, watchVars, ToolDone, RemovalFails,
       RemovalHolds, Accident, Told
  <2> QED
    BY <2>1, <2>2, <2>3, <2>4
<1>4. CASE ToolClear
  <2>1. RegistryTypes' /\ HistoryTypes'
    BY <1>4 DEF RegistryTypes, HistoryTypes, Mishaps, ToolClear, ClearGuid, Accident,
       ToolSucceeds, May, NoTool, daemonVars, watchVars, ToolDone, RemovalFails,
       RemovalHolds, Told
  <2>2. DaemonTypes' /\ WatchTypes' /\ ToolTypes'
    BY <1>4 DEF RegistryTypes, DaemonTypes, WatchTypes, ToolTypes, DaemonPoints,
       ToolPoints, Watching, ToolClear, ClearGuid, Accident, ToolSucceeds, May, NoTool,
       daemonVars, watchVars, ToolDone, RemovalFails, RemovalHolds, Told
  <2>3. /\ AtWork' /\ Named' /\ Watching' /\ Recorded' /\ Clean'
       /\ ToolAlone' /\ Uninstalled'
    BY <1>4 DEF RegistryTypes, DaemonTypes, WatchTypes, ToolTypes, HistoryTypes, AtWork,
       Named, Watching, Recorded, Clean, ToolAlone, Uninstalled, Removing, ToolClear,
       ClearGuid, Accident, ToolSucceeds, May, NoTool, daemonVars, watchVars, ToolDone,
       RemovalFails, RemovalHolds, Told
  <2> QED
    BY <2>1, <2>2, <2>3
<1>5. CASE ToolTask
  <2>1. RegistryTypes' /\ HistoryTypes'
    BY <1>5 DEF RegistryTypes, HistoryTypes, DaemonTypes, Mishaps, ToolTask, ToolFails,
       ToolStep, persistent, daemonVars, watchVars, ToolDone, RemovalFails,
       RemovalHolds, Accident, Told
  <2>2. DaemonTypes' /\ WatchTypes'
    BY <1>5 DEF DaemonTypes, WatchTypes, ToolTask, persistent, daemonVars, watchVars,
       ToolDone, RemovalFails, RemovalHolds, Accident, Told
  <2>3. ToolTypes'
    <3>1. {"probe", "delete", "clear", "untask"} \subseteq ToolPoints
      BY DEF ToolPoints
    <3> QED
      BY <1>5, <3>1, ToolMoves DEF ToolTask, ToolDone, RemovalFails, RemovalHolds,
         Accident, Told
  <2>4. AtWork' /\ Named' /\ Watching' /\ Recorded' /\ Clean'
    BY <1>5 DEF HistoryTypes, AtWork, Named, Watching, Recorded, Clean, ToolTask,
       ToolFails, ToolStep, persistent, daemonVars, watchVars, RemovalFails,
       RemovalHolds, Accident, Told
  <2>5. ToolAlone'
    BY <1>5 DEF ToolTypes, ToolAlone, ToolTask, ToolFails, ToolStep, NoTool, persistent,
       daemonVars, RemovalFails, RemovalHolds, Accident, Told
  <2>6. Uninstalled'
    <3>1. CASE record \notin rules /\ ToolStep("untask")
      <4>1. rules = {} \/ mishaps' # {}
        BY <1>5, <3>1 DEF RegistryTypes, Recorded, ToolStep, RemovalHolds
      <4> QED
        BY <1>5, <4>1 DEF Uninstalled, ToolTask, persistent
    <3>2. CASE ToolFails
      <4>1. /\ ~tool'.at = "untask" /\ UNCHANGED <<task, service>>
            /\ task \/ service \/ mishaps' # {}
        BY <1>5, <3>2 DEF ToolTask, ToolFails, NoTool, RemovalFails, Accident, Told,
           persistent
      <4> QED
        BY <4>1 DEF Uninstalled
    <3> QED
      BY <1>5, <3>1, <3>2 DEF ToolTask
  <2> QED
    BY <2>1, <2>2, <2>3, <2>4, <2>5, <2>6
<1>6. CASE ToolUntask
  <2>1. RegistryTypes' /\ HistoryTypes'
    BY <1>6 DEF RegistryTypes, HistoryTypes, ToolUntask, NoTool, daemonVars, watchVars,
       history
  <2>2. DaemonTypes' /\ WatchTypes' /\ ToolTypes'
    BY <1>6 DEF RegistryTypes, DaemonTypes, WatchTypes, ToolTypes, DaemonPoints,
       ToolPoints, Watching, ToolUntask, NoTool, daemonVars, watchVars, history
  <2>3. /\ AtWork' /\ Named' /\ Watching' /\ Recorded' /\ Clean'
       /\ ToolAlone' /\ Uninstalled'
    BY <1>6 DEF RegistryTypes, DaemonTypes, WatchTypes, ToolTypes, HistoryTypes, AtWork,
       Named, Watching, Recorded, Clean, ToolAlone, Uninstalled, Removing, ToolUntask,
       NoTool, daemonVars, watchVars, history
  <2> QED
    BY <2>1, <2>2, <2>3
<1> QED
  BY <1>1, <1>2, <1>3, <1>4, <1>5, <1>6 DEF Tool

\* Users, the SCM, the installer, kills and reboots.
LEMMA WorldKeeps == ASSUME WebInv, World PROVE WebInv'
<1> USE WebAssumption DEF WebInv, Types
<1>1. CASE StopRequested
  <2>1. RegistryTypes' /\ HistoryTypes'
    BY <1>1 DEF RegistryTypes, HistoryTypes, StopRequested, persistent, watchVars,
       history
  <2>2. DaemonTypes' /\ WatchTypes' /\ ToolTypes'
    BY <1>1 DEF RegistryTypes, DaemonTypes, WatchTypes, ToolTypes, DaemonPoints,
       ToolPoints, Watching, StopRequested, persistent, watchVars, history
  <2>3. /\ AtWork' /\ Named' /\ Watching' /\ Recorded' /\ Clean'
       /\ ToolAlone' /\ Uninstalled'
    BY <1>1 DEF RegistryTypes, DaemonTypes, WatchTypes, ToolTypes, HistoryTypes, AtWork,
       Named, Watching, Recorded, Clean, ToolAlone, Uninstalled, Removing,
       StopRequested, persistent, watchVars, history
  <2> QED
    BY <2>1, <2>2, <2>3
<1>2. CASE ProxyChanges
  <2>1. RegistryTypes' /\ HistoryTypes'
    BY <1>2 DEF RegistryTypes, HistoryTypes, ProxyChanges, persistent, watchVars,
       history
  <2>2. DaemonTypes' /\ WatchTypes' /\ ToolTypes'
    BY <1>2 DEF RegistryTypes, DaemonTypes, WatchTypes, ToolTypes, DaemonPoints,
       ToolPoints, Watching, ProxyChanges, persistent, watchVars, history
  <2>3. /\ AtWork' /\ Named' /\ Watching' /\ Recorded' /\ Clean'
       /\ ToolAlone' /\ Uninstalled'
    BY <1>2 DEF RegistryTypes, DaemonTypes, WatchTypes, ToolTypes, HistoryTypes, AtWork,
       Named, Watching, Recorded, Clean, ToolAlone, Uninstalled, Removing, ProxyChanges,
       persistent, watchVars, history
  <2> QED
    BY <2>1, <2>2, <2>3
<1>8. CASE FilterChanges
  <2>1. RegistryTypes' /\ HistoryTypes'
    BY <1>8 DEF RegistryTypes, HistoryTypes, FilterChanges, persistent, history
  <2>2. DaemonTypes' /\ WatchTypes' /\ ToolTypes'
    BY <1>8 DEF RegistryTypes, DaemonTypes, WatchTypes, ToolTypes, DaemonPoints,
       ToolPoints, FilterChanges, persistent, daemonVars
  <2>3. /\ AtWork' /\ Named' /\ Watching' /\ Recorded' /\ Clean'
       /\ ToolAlone' /\ Uninstalled'
    BY <1>8 DEF RegistryTypes, DaemonTypes, WatchTypes, ToolTypes, HistoryTypes, AtWork,
       Named, Watching, Recorded, Clean, ToolAlone, Uninstalled, Removing,
       FilterChanges, persistent, daemonVars, history
  <2> QED
    BY <2>1, <2>2, <2>3
<1>3. CASE TaskDeleted
  <2>1. RegistryTypes' /\ HistoryTypes'
    BY <1>3 DEF RegistryTypes, HistoryTypes, Mishaps, TaskDeleted, daemonVars,
       watchVars, history, Accident, Told
  <2>2. DaemonTypes' /\ WatchTypes' /\ ToolTypes'
    BY <1>3 DEF RegistryTypes, DaemonTypes, WatchTypes, ToolTypes, DaemonPoints,
       ToolPoints, Watching, TaskDeleted, daemonVars, watchVars, history, Accident, Told
  <2>3. /\ AtWork' /\ Named' /\ Watching' /\ Recorded' /\ Clean'
       /\ ToolAlone' /\ Uninstalled'
    BY <1>3 DEF RegistryTypes, DaemonTypes, WatchTypes, ToolTypes, HistoryTypes, AtWork,
       Named, Watching, Recorded, Clean, ToolAlone, Uninstalled, Removing, TaskDeleted,
       daemonVars, watchVars, history, Accident, Told
  <2> QED
    BY <2>1, <2>2, <2>3
<1>4. CASE Crash
  <2>1. RegistryTypes' /\ HistoryTypes'
    BY <1>4 DEF RegistryTypes, HistoryTypes, Mishaps, Crash, ProcessEnds, Accident,
       NoStrikes, persistent, Told, NoneLost
  <2>2. DaemonTypes'
    BY <1>4 DEF DaemonTypes, RegistryTypes, DaemonPoints, Crash, ProcessEnds, Accident,
       NoStrikes, persistent, Told, NoneLost
  <2>3. WatchTypes' /\ ToolTypes'
    BY <1>4, FreshCounters DEF WatchTypes, ToolTypes, RegistryTypes, ToolPoints, Crash,
       ProcessEnds, Accident, persistent, Told
  <2>4. /\ AtWork' /\ Named' /\ Watching' /\ Recorded' /\ Clean'
       /\ ToolAlone' /\ Uninstalled'
    BY <1>4 DEF RegistryTypes, DaemonTypes, WatchTypes, ToolTypes, HistoryTypes, AtWork,
       Named, Watching, Recorded, Clean, ToolAlone, Uninstalled, Removing, Crash,
       ProcessEnds, Accident, NoStrikes, persistent, Told, NoneLost
  <2> QED
    BY <2>1, <2>2, <2>3, <2>4
<1>5. CASE Reboot
  <2>1. RegistryTypes' /\ HistoryTypes'
    BY <1>5 DEF RegistryTypes, HistoryTypes, Mishaps, Reboot, ProcessEnds, NoStrikes,
       NoTool, persistent, Accident, Told, NoneLost
  <2>2. DaemonTypes'
    BY <1>5 DEF DaemonTypes, RegistryTypes, DaemonPoints, Reboot, ProcessEnds,
       NoStrikes, NoTool, persistent, Accident, Told, NoneLost
  <2>3. WatchTypes'
    BY <1>5, FreshCounters DEF WatchTypes, Reboot, ProcessEnds, NoTool, persistent,
       Accident, Told
  <2>4. ToolTypes'
    BY <1>5 DEF ToolTypes, ToolPoints, Reboot, ProcessEnds, NoStrikes, NoTool,
       persistent, Accident, Told, NoneLost
  <2>5. /\ AtWork' /\ Named' /\ Watching' /\ Recorded' /\ Clean'
       /\ ToolAlone' /\ Uninstalled'
    <3>1. /\ UNCHANGED persistent /\ d' = "down" /\ guid' = None /\ refusal' = "none"
          /\ retrying' = FALSE /\ proxy' = "none" /\ w' = "off" /\ restart' = service
          /\ left' = (left /\ ~task)
      BY <1>5 DEF Reboot, ProcessEnds
    <3>2. /\ mishaps \subseteq mishaps' /\ ("cleared" \in mishaps' => "cleared" \in mishaps)
          /\ ~service /\ d # "down" => mishaps' # {}
          /\ ~service /\ ~task /\ tool.at # "idle" /\ rules # {} => mishaps' # {}
      BY <1>5 DEF Reboot, Accident, Told
    <3>3. /\ task => tool'.at = "check" /\ tool'.for = "boot" /\ ~tool'.orphan
          /\ ~task => tool' = NoTool
      BY <1>5 DEF Reboot, NoTool
    <3>4. AtWork' /\ Named' /\ Watching' /\ Recorded' /\ Clean'
      BY <3>1, <3>2 DEF AtWork, Named, Watching, Recorded, Clean, persistent
    <3>5. ToolAlone' /\ Uninstalled'
      BY <3>1, <3>2, <3>3 DEF AtWork, ToolAlone, Uninstalled, Removing, NoTool,
         RegistryTypes, persistent
    <3> QED
      BY <3>4, <3>5
  <2> QED
    BY <2>1, <2>2, <2>3, <2>4, <2>5
<1>6. CASE Install
  <2>1. RegistryTypes' /\ HistoryTypes'
    BY <1>6 DEF RegistryTypes, HistoryTypes, Install, watchVars, history
  <2>2. DaemonTypes' /\ WatchTypes' /\ ToolTypes'
    BY <1>6 DEF RegistryTypes, DaemonTypes, WatchTypes, ToolTypes, DaemonPoints,
       ToolPoints, Watching, Install, watchVars, history
  <2>3. /\ AtWork' /\ Named' /\ Watching' /\ Recorded' /\ Clean'
       /\ ToolAlone' /\ Uninstalled'
    BY <1>6 DEF RegistryTypes, DaemonTypes, WatchTypes, ToolTypes, HistoryTypes, AtWork,
       Named, Watching, Recorded, Clean, ToolAlone, Uninstalled, Removing, Install,
       watchVars, history
  <2> QED
    BY <2>1, <2>2, <2>3
<1>7. ASSUME NEW k \in {"remove", "uninstall"}, StartTool(k) PROVE WebInv'
  <2>1. RegistryTypes' /\ HistoryTypes'
    BY <1>7 DEF RegistryTypes, HistoryTypes, StartTool, NoTool, watchVars, history
  <2>2. DaemonTypes'
    BY <1>7 DEF DaemonTypes, RegistryTypes, DaemonPoints, StartTool, NoTool, watchVars,
       history
  <2>3. WatchTypes' /\ ToolTypes'
    BY <1>7 DEF WatchTypes, ToolTypes, RegistryTypes, ToolPoints, StartTool, NoTool,
       watchVars, history
  <2>4. /\ AtWork' /\ Named' /\ Watching' /\ Recorded' /\ Clean'
       /\ ToolAlone' /\ Uninstalled'
    BY <1>7 DEF RegistryTypes, DaemonTypes, WatchTypes, ToolTypes, HistoryTypes, AtWork,
       Named, Watching, Recorded, Clean, ToolAlone, Uninstalled, Removing, StartTool,
       NoTool, watchVars, history
  <2> QED
    BY <2>1, <2>2, <2>3, <2>4
<1> QED
  BY <1>1, <1>2, <1>3, <1>4, <1>5, <1>6, <1>7, <1>8 DEF World

\* Initially there is no rule and nobody is at work.
LEMMA WebInvInit == Init => WebInv
<1> SUFFICES ASSUME Init PROVE WebInv
  OBVIOUS
<1>1. strikes \in [{"serve", "resolve", "reconciler"} -> 0 .. Strikes]
  BY WebAssumption DEF Init, NoStrikes, NoneLost
<1>2. tick \in 0 .. ReconcilerEvery - 1
      /\ lost \in [{"serve", "resolve"} -> 0 .. Strikes] /\ blocked \in BOOLEAN
  BY WebAssumption, FreshCounters DEF Init
<1>3. ToolTypes
  BY DEF Init, ToolTypes, NoTool, ToolPoints
<1>4. RegistryTypes /\ DaemonTypes /\ WatchTypes /\ HistoryTypes
  <2>1. RegistryTypes /\ HistoryTypes
    <3>1. MaxCrashes \in Nat /\ crashes = 0
      BY WebAssumption DEF Init
    <3>2. crashes \in 0 .. MaxCrashes
      BY <3>1
    <3>3. left \in BOOLEAN /\ mishaps \subseteq Mishaps
      BY DEF Init
    <3>4. RegistryTypes
      BY DEF Init, RegistryTypes
    <3> QED
      BY <3>2, <3>3, <3>4 DEF HistoryTypes
  <2>2. DaemonTypes
    BY DEF Init, DaemonTypes, DaemonPoints
  <2>3. WatchTypes
    BY <1>1, <1>2 DEF Init, WatchTypes
  <2> QED
    BY <2>1, <2>2, <2>3
<1>5. AtWork /\ Named /\ Watching /\ Recorded /\ Clean /\ ToolAlone /\ Uninstalled
  BY DEF Init, NoTool, AtWork, Named, Watching, Recorded, Clean, ToolAlone, Uninstalled
<1> QED
  BY <1>3, <1>4, <1>5 DEF WebInv, Types

\* Every step preserves it, by the six groups of the actions.
LEMMA WebInvStep == WebInv /\ [Next]_vars => WebInv'
<1> SUFFICES ASSUME WebInv, [Next]_vars PROVE WebInv'
  OBVIOUS
<1>1. CASE UNCHANGED vars
  BY <1>1 DEF WebInv, Types, RegistryTypes, DaemonTypes, WatchTypes, ToolTypes,
     HistoryTypes, AtWork, Named, Watching, Recorded, Clean, ToolAlone, Uninstalled,
     Removing, vars, persistent, daemonVars, watchVars, history
<1> QED
  BY <1>1, StartKeeps, OrphanKeeps, StopKeeps, WatchdogKeeps, ToolKeeps, WorldKeeps DEF
     Next

\* The strengthened invariant holds in every reachable state.
THEOREM WebInvariant == Spec => []WebInv
BY WebInvInit, WebInvStep, PTL DEF Spec

\* The registry, the record, the daemon with its watchdog, and the tool keep
\* their types.
THEOREM WebTypeCorrect == Spec => []TypeOK
<1>1. Types => TypeOK
  BY DEF Types, RegistryTypes, DaemonTypes, WatchTypes, ToolTypes, HistoryTypes, TypeOK
<1> QED
  BY <1>1, WebInvariant, PTL DEF WebInv

\* But for the accident it names, every live rule is the recorded one: whoever
\* is killed, however often, and whatever call fails in between.
THEOREM LiveIsRecordedHolds == Spec => []LiveIsRecorded
<1>1. Recorded => LiveIsRecorded
  BY DEF Recorded, LiveIsRecorded
<1> QED
  BY <1>1, WebInvariant, PTL DEF WebInv

\* A service that has stopped in order leaves no rule in front of closed sockets.
THEOREM StopLeavesNoRuleHolds == Spec => []StopLeavesNoRule
<1>1. Clean => StopLeavesNoRule
  BY DEF Clean, StopLeavesNoRule
<1> QED
  BY <1>1, WebInvariant, PTL DEF WebInv

\* A live rule always has somebody who can take it away without being told,
\* whatever removal has failed, but for the accidents the property names.
THEOREM SomebodyCanRemoveHolds == Spec => []SomebodyCanRemove
<1>1. Types /\ Uninstalled => SomebodyCanRemove
  BY DEF Types, RegistryTypes, Uninstalled, Removing, SomebodyCanRemove
<1> QED
  BY <1>1, WebInvariant, PTL DEF WebInv

\* The watchdog fires in front of a proxy that is well only if the boot task is
\* gone, or as many probes in a row were lost, or the proxy was sick in that row:
\* a strike is never counted for anything else.
THEOREM FiresOnlyWhenSickHolds == Spec => FiresOnlyWhenSick
<1>1. WebInv /\ [Next]_vars =>
        [w = "watch" /\ w' = "fire" =>
           proxy # "ok" \/ ~task \/ \E k \in DOMAIN lost : lost'[k] >= Strikes]_vars
  <2> SUFFICES ASSUME WebInv, Next, w = "watch", w' = "fire", proxy = "ok", task
               PROVE  \E k \in DOMAIN lost : lost'[k] >= Strikes
    OBVIOUS
  <2>1. Tick
    BY DEF Next, Start, Orphan, Retry, Stop, Watchdog, Tool, World, StartService, Serve,
       Gate, RecordGuid, InstallRule, Refuse, OrphanCheck, OrphanRemove, OrphanClear,
       RetryFires, RetryAborted, StopRemove, StopClear, StopSockets, Fire, FireClear,
       ToolCheck, ToolProbe, ToolDelete, ToolClear, ToolTask, ToolUntask, StopRequested,
       ProxyChanges, FilterChanges, TaskDeleted, Crash, Reboot, Install, StartTool,
       ProcessEnds, persistent, daemonVars, watchVars, history
  <2>2. WebInv'
    BY WebInvStep
  <2>3. /\ strikes'.serve <= lost'.serve /\ strikes'.resolve <= lost'.resolve
        /\ strikes'.serve \in Nat /\ strikes'.resolve \in Nat
        /\ lost'.serve \in Nat /\ lost'.resolve \in Nat
        /\ DOMAIN lost = {"serve", "resolve"} /\ Strikes \in Nat \ {0}
    BY <2>2, WebAssumption DEF WebInv, Types, WatchTypes, Watching
  <2>4. \/ strikes'.serve >= Strikes
        \/ strikes'.resolve >= Strikes
        \/ strikes'.reconciler >= Strikes
    BY <2>1 DEF Tick, WebInv, Types, WatchTypes
  <2>5. ~(strikes'.reconciler >= Strikes)
    <3>1. strikes.reconciler \in Nat /\ strikes.reconciler < Strikes
      BY WebAssumption DEF WebInv, Types, WatchTypes, Watching
    <3>2. strikes'.reconciler = Count(strikes.reconciler, tick' = 0, task)
      BY <2>1 DEF Tick
    <3>3. strikes'.reconciler \in {0, strikes.reconciler}
      BY <3>2 DEF Count
    <3> QED
      BY <2>3, <3>1, <3>3
  <2> QED
    BY <2>3, <2>4, <2>5
<1> QED
  BY <1>1, WebInvariant, PTL DEF Spec, FiresOnlyWhenSick

-----------------------------------------------------------------------------
(* 2. The proxy.                                                           *)

\* A query on its way: it has a name from the filter on; what the filter barred
\* throughout is not looked up; an answer has the posture of the exchange, and a
\* hit that of the query; only an answer ends it.
QueryOK(x) ==
  /\ x \in Query
  /\ x.at \in {"queue", "parse"} /\ x.kind = "name" => x.name \in Names
  /\ x.at \in {"decide", "lookup", "udp", "tcp", "store"} => x.name \in Names
  /\ x.barred => x.name \in filter
  /\ x.at \in {"lookup", "udp", "tcp", "store"} => ~x.barred
  /\ x.at = "reply" /\ x.end \in {"data", "hit"} => ~x.barred
  /\ x.at = "store" => x.ans.do = (x.do /\ ~x.plain) /\ x.ans.cd = x.cd
  /\ x.at = "reply" /\ x.end = "hit" => x.ans.do = x.do /\ x.ans.cd = x.cd
  /\ x.at \notin {"reply", "done"} => x.end = "none"

\* All queries are in order.
QueriesOK == q \in [Queries -> Query] /\ \A i \in Queries : QueryOK(q[i])

\* Every entry lies in the slot of the posture it was fetched with.
EntriesOK ==
  /\ DOMAIN cache \subseteq Keys /\ IsFiniteSet(DOMAIN cache) /\ IsFiniteSet(Bytes(cache))
  /\ \A k \in DOMAIN cache :
       cache[k] \in Answer /\ cache[k].do = k[2] /\ cache[k].cd = k[3]

\* A query that is counted and in no other counter: it is under way, or it was
\* refused or cut off.
Due(x) == x.at \in {"decide", "lookup", "udp", "tcp"} \/ x.end \in {"refused", "cut"}
Owed == {i \in Queries : Due(q[i])}

\* The counters that say how a query ended.
Others == {"blocked", "hits", "forwarded", "errors", "shed"}
Balanced ==
  /\ IsFiniteSet(Owed)
  /\ counters["queries"] =
       counters["blocked"] + counters["hits"] + counters["forwarded"]
       + counters["errors"] + counters["shed"] + Cardinality(Owed)

\* What the handling of a query can disturb, and what the cache's own steps can.
Clients == /\ QueriesOK /\ Balanced /\ counters \in [Counted -> Nat]
           /\ filter \subseteq Names /\ changes \in 0 .. MaxChanges
Stored == EntriesOK /\ CacheBounded /\ bytes \in Nat

\* The inductive invariant of the proxy.
ProxyInv == Clients /\ Stored

-----------------------------------------------------------------------------
(* The bytes of a cache.                                                   *)

\* A slot holds as many bytes as its answer is long.
LEMMA SlotBytes ==
  ASSUME NEW k, NEW n \in Nat
  PROVE  IsFiniteSet({k} \X (1 .. n)) /\ Cardinality({k} \X (1 .. n)) = n
<1>1. IsFiniteSet({k}) /\ Cardinality({k}) = 1
  BY FS_Singleton
<1>2. IsFiniteSet(1 .. n) /\ Cardinality(1 .. n) = n
  BY FS_Interval
<1>3. /\ IsFiniteSet({k} \X (1 .. n))
      /\ Cardinality({k} \X (1 .. n)) = Cardinality({k}) * Cardinality(1 .. n)
  BY <1>1, <1>2, FS_Product
<1> QED
  BY <1>1, <1>2, <1>3

\* Without the entry k the bytes of k are gone and the others are there.
LEMMA BytesWithout ==
  ASSUME NEW c, NEW k \in DOMAIN c
  PROVE  LET rest == Restrict(c, DOMAIN c \ {k})
         IN /\ Bytes(c) = Bytes(rest) \cup ({k} \X (1 .. c[k].size))
            /\ Bytes(rest) \cap ({k} \X (1 .. c[k].size)) = {}
<1> DEFINE rest == Restrict(c, DOMAIN c \ {k})
<1>1. DOMAIN rest = DOMAIN c \ {k} /\ \A x \in DOMAIN rest : rest[x] = c[x]
  BY DEF Restrict
<1>2. \A b : b \in Bytes(c) <=> \E x \in DOMAIN c : b \in {x} \X (1 .. c[x].size)
  BY DEF Bytes
<1>3. \A b : b \in Bytes(rest) <=> \E x \in DOMAIN c \ {k} : b \in {x} \X (1 .. c[x].size)
  BY <1>1 DEF Bytes
<1> HIDE DEF rest
<1>4. Bytes(c) = Bytes(rest) \cup ({k} \X (1 .. c[k].size))
  BY <1>2, <1>3
<1>5. Bytes(rest) \cap ({k} \X (1 .. c[k].size)) = {}
  BY <1>3
<1> QED
  BY <1>4, <1>5 DEF rest

\* The totals of two disjoint parts add up.
LEMMA TotalOfParts ==
  ASSUME NEW A, NEW B, A \cap B = {}, IsFiniteSet(A), IsFiniteSet(B)
  PROVE  /\ IsFiniteSet(A \cup B)
         /\ Cardinality(A \cup B) \in Nat /\ Cardinality(A) \in Nat /\ Cardinality(B) \in Nat
         /\ Cardinality(A \cup B) = Cardinality(A) + Cardinality(B)
<1>1. /\ IsFiniteSet(A \cup B)
      /\ Cardinality(A \cup B) = Cardinality(A) + Cardinality(B) - Cardinality({})
  BY FS_Union
<1>2. Cardinality({}) = 0
  BY FS_EmptySet
<1>3. Cardinality(A \cup B) \in Nat /\ Cardinality(A) \in Nat /\ Cardinality(B) \in Nat
  BY <1>1, FS_CardinalityType
<1> QED
  BY <1>1, <1>2, <1>3

\* What a removal takes from the total.
LEMMA TotalWithout ==
  ASSUME NEW c, NEW k \in DOMAIN c, c[k].size \in Nat, IsFiniteSet(Bytes(c)),
         IsFiniteSet(DOMAIN c), NEW rest, rest = Restrict(c, DOMAIN c \ {k})
  PROVE  /\ DOMAIN rest = DOMAIN c \ {k} /\ IsFiniteSet(DOMAIN rest)
         /\ Cardinality(DOMAIN rest) <= Cardinality(DOMAIN c)
         /\ IsFiniteSet(Bytes(rest))
         /\ Total(c) \in Nat /\ Total(rest) \in Nat
         /\ Total(c) = Total(rest) + c[k].size
<1> DEFINE slot == {k} \X (1 .. c[k].size)
<1>1. Bytes(c) = Bytes(rest) \cup slot /\ Bytes(rest) \cap slot = {}
  BY BytesWithout
<1>2. IsFiniteSet(slot) /\ Cardinality(slot) = c[k].size
  BY SlotBytes
<1>3. IsFiniteSet(Bytes(rest))
  <2>1. Bytes(rest) \in SUBSET Bytes(c)
    BY <1>1
  <2> QED
    BY <2>1, FS_Subset
<1>4. /\ Cardinality(Bytes(c)) \in Nat /\ Cardinality(Bytes(rest)) \in Nat
      /\ Cardinality(Bytes(c)) = Cardinality(Bytes(rest)) + Cardinality(slot)
  <2>1. PICK S, A, B : S = Bytes(c) /\ A = Bytes(rest) /\ B = slot
    OBVIOUS
  <2>2. S = A \cup B /\ A \cap B = {} /\ IsFiniteSet(A) /\ IsFiniteSet(B)
    BY <1>1, <1>2, <1>3, <2>1
  <2> QED
    BY <2>1, <2>2, TotalOfParts
<1>5. DOMAIN rest = DOMAIN c \ {k}
  BY DEF Restrict
<1>6. IsFiniteSet(DOMAIN rest) /\ Cardinality(DOMAIN rest) <= Cardinality(DOMAIN c)
  BY <1>5, FS_Subset
<1> QED
  BY <1>2, <1>3, <1>4, <1>5, <1>6 DEF Total

\* What an insertion adds to it: the answer, less what the slot held.
LEMMA TotalWith ==
  ASSUME NEW c, NEW k, NEW ans, ans.size \in Nat, IsFiniteSet(Bytes(c)),
         IsFiniteSet(DOMAIN c), SizeAt(c, k) \in Nat,
         NEW over, DOMAIN over = DOMAIN c \cup {k}, over[k] = ans,
         \A x \in DOMAIN c \ {k} : over[x] = c[x]
  PROVE  /\ IsFiniteSet(DOMAIN over) /\ IsFiniteSet(Bytes(over))
         /\ Cardinality(DOMAIN c) \in Nat /\ Cardinality(DOMAIN over) \in Nat
         /\ Cardinality(DOMAIN over) <= Cardinality(DOMAIN c) + 1
         /\ Total(over) \in Nat /\ Total(c) \in Nat /\ SizeAt(c, k) \in Nat
         /\ SizeAt(c, k) <= Total(c)
         /\ Total(over) = Total(c) + ans.size - SizeAt(c, k)
<1>1. DOMAIN over = DOMAIN c \cup {k} /\ over[k] = ans
      /\ \A x \in DOMAIN c \ {k} : over[x] = c[x]
  OBVIOUS
<1>2. /\ IsFiniteSet(DOMAIN over)
      /\ Cardinality(DOMAIN c) \in Nat /\ Cardinality(DOMAIN over) \in Nat
      /\ Cardinality(DOMAIN over) <= Cardinality(DOMAIN c) + 1
  <2>1. Cardinality(DOMAIN c) \in Nat
    BY FS_CardinalityType
  <2>2. /\ IsFiniteSet(DOMAIN over)
        /\ \/ Cardinality(DOMAIN over) = Cardinality(DOMAIN c)
           \/ Cardinality(DOMAIN over) = Cardinality(DOMAIN c) + 1
    BY <1>1, FS_AddElement
  <2> QED
    BY <2>1, <2>2
<1>3. PICK rest : rest = Restrict(over, DOMAIN over \ {k})
  OBVIOUS
<1>4. IsFiniteSet(Bytes(rest)) /\ Total(rest) \in Nat /\ Total(c) \in Nat
      /\ SizeAt(c, k) \in Nat /\ Total(c) = Total(rest) + SizeAt(c, k)
  <2>1. CASE k \in DOMAIN c
    <3>1. rest = Restrict(c, DOMAIN c \ {k})
      BY <1>1, <1>3 DEF Restrict
    <3> QED
      BY <2>1, <3>1, TotalWithout DEF SizeAt
  <2>2. CASE k \notin DOMAIN c
    <3>1. DOMAIN rest = DOMAIN c /\ \A x \in DOMAIN c : rest[x] = c[x]
      BY <1>1, <1>3, <2>2 DEF Restrict
    <3>2. Bytes(rest) = Bytes(c)
      BY <3>1 DEF Bytes
    <3>3. Cardinality(Bytes(c)) \in Nat
      BY FS_CardinalityType
    <3> QED
      BY <2>2, <3>2, <3>3 DEF SizeAt, Total
  <2> QED
    BY <2>1, <2>2
<1>5. IsFiniteSet(Bytes(over)) /\ Total(over) \in Nat /\ Total(over) = Total(rest) + ans.size
  <2> DEFINE slot == {k} \X (1 .. ans.size)
  <2>1. Bytes(over) = Bytes(rest) \cup slot /\ Bytes(rest) \cap slot = {}
    BY <1>1, <1>3, BytesWithout
  <2>2. IsFiniteSet(slot) /\ Cardinality(slot) = ans.size
    BY SlotBytes
  <2>3. PICK S, A, B : S = Bytes(over) /\ A = Bytes(rest) /\ B = slot
    OBVIOUS
  <2>4. S = A \cup B /\ A \cap B = {} /\ IsFiniteSet(A) /\ IsFiniteSet(B)
    BY <1>4, <2>1, <2>2, <2>3
  <2>5. /\ IsFiniteSet(S) /\ Cardinality(S) \in Nat
        /\ Cardinality(S) = Cardinality(A) + Cardinality(B)
    BY <2>4, TotalOfParts
  <2> QED
    BY <2>2, <2>3, <2>5 DEF Total
<1> QED
  <2>1. PICK a \in Nat, b \in Nat, s \in Nat, t \in Nat, n \in Nat :
          /\ a = Total(over) /\ b = Total(c) /\ s = SizeAt(c, k)
          /\ t = Total(rest) /\ n = ans.size
    BY <1>4, <1>5
  <2>2. b = t + s /\ a = t + n
    BY <1>4, <1>5, <2>1
  <2>3. s <= b /\ a = b + n - s
    BY <2>2
  <2> QED
    BY <1>2, <1>5, <2>1, <2>3

\* A purge takes the bytes of the expired entries and no other.
LEMMA TotalPurged ==
  ASSUME IsFiniteSet(Bytes(cache)), IsFiniteSet(DOMAIN cache)
  PROVE  /\ IsFiniteSet(DOMAIN Purged) /\ IsFiniteSet(Bytes(Purged))
         /\ DOMAIN Purged \subseteq DOMAIN cache
         /\ \A k \in DOMAIN Purged : Purged[k] = cache[k]
         /\ Cardinality(DOMAIN Purged) \in Nat /\ Cardinality(DOMAIN cache) \in Nat
         /\ Cardinality(DOMAIN Purged) <= Cardinality(DOMAIN cache)
         /\ Total(Purged) \in Nat /\ Total(Expired) \in Nat /\ Total(cache) \in Nat
         /\ Total(cache) = Total(Purged) + Total(Expired)
<1>1. /\ DOMAIN Purged = {k \in DOMAIN cache : cache[k].fresh}
      /\ \A k \in DOMAIN Purged : Purged[k] = cache[k]
  BY DEF Purged, Restrict
<1>2. /\ DOMAIN Expired = {k \in DOMAIN cache : ~cache[k].fresh}
      /\ \A k \in DOMAIN Expired : Expired[k] = cache[k]
  BY DEF Expired, Restrict
<1>3. \A b : b \in Bytes(cache) <=>
               \E k \in DOMAIN cache : b \in {k} \X (1 .. cache[k].size)
  BY DEF Bytes
<1>4. \A b : b \in Bytes(Purged) <=>
               \E k \in DOMAIN Purged : b \in {k} \X (1 .. cache[k].size)
  BY <1>1 DEF Bytes
<1>5. \A b : b \in Bytes(Expired) <=>
               \E k \in DOMAIN Expired : b \in {k} \X (1 .. cache[k].size)
  BY <1>2 DEF Bytes
<1>6. /\ DOMAIN cache = DOMAIN Purged \cup DOMAIN Expired
      /\ DOMAIN Purged \cap DOMAIN Expired = {}
  BY <1>1, <1>2
<1>7. Bytes(cache) = Bytes(Purged) \cup Bytes(Expired)
  BY <1>3, <1>4, <1>5, <1>6
<1>8. Bytes(Purged) \cap Bytes(Expired) = {}
  BY <1>4, <1>5, <1>6
<1>9. IsFiniteSet(Bytes(Purged)) /\ IsFiniteSet(Bytes(Expired))
  BY <1>7, FS_Subset
<1>10. /\ IsFiniteSet(DOMAIN Purged)
       /\ Cardinality(DOMAIN Purged) <= Cardinality(DOMAIN cache)
  BY <1>6, FS_Subset
<1>11. Cardinality(DOMAIN Purged) \in Nat /\ Cardinality(DOMAIN cache) \in Nat
  BY <1>10, FS_CardinalityType
<1> QED
  BY <1>1, <1>6, <1>7, <1>8, <1>9, <1>10, <1>11, TotalOfParts DEF Total

-----------------------------------------------------------------------------
(* One query at a time.                                                    *)

\* A query that is over, or just asked, is in order.
LEMMA OverOK ==
  ASSUME NEW end \in Ends
  PROVE  QueryOK(Over(end)) /\ Over(end).at = "done" /\ Over(end).end = end
<1>1. Over(end) \in Query
  BY DEF Over, Fresh, Query, Points
<1>2. Over(end).at = "done" /\ Over(end).end = end /\ ~Over(end).barred
  BY DEF Over, Fresh
<1> HIDE DEF Over
<1> QED
  BY <1>1, <1>2 DEF QueryOK

\* The record of a query that has not come, or is over.
LEMMA FreshQuery ==
  Fresh \in Query /\ Fresh.end = "none" /\ Fresh.kind = "name" /\ ~Fresh.barred
BY DEF Fresh, Query, Points, Ends

\* A query for a name is barred only by the filter of the moment.
LEMMA NameAskedOK ==
  ASSUME NEW tcp \in BOOLEAN, NEW n \in Names, NEW p \in Postures
  PROVE  LET ask == NameAsked(tcp, n, p)
         IN /\ ask \in Query /\ ask.end = "none" /\ ask.name \in Names
            /\ ask.barred => ask.name \in filter
<1>1. PICK e \in BOOLEAN, s \in BOOLEAN, c \in BOOLEAN :
        e = p.edns /\ s = p.do /\ c = p.cd
  BY DnsAssumption
<1>2. (n \in filter) \in BOOLEAN
  OBVIOUS
<1>3. PICK b \in BOOLEAN : b = (n \in filter)
  BY <1>2
<1>4. PICK x \in Query : x = [Fresh EXCEPT !.via_tcp = tcp, !.name = n]
  BY FreshQuery DEF Query
<1>5. PICK y \in Query : y = [x EXCEPT !.edns = e, !.do = s]
  BY DEF Query
<1>6. PICK z : z = [y EXCEPT !.cd = c, !.barred = b]
  OBVIOUS
<1>7. NameAsked(tcp, n, p) = z
  BY <1>1, <1>3, <1>4, <1>5, <1>6 DEF NameAsked
<1>8. z \in Query
  BY <1>6 DEF Query
<1>9. z.end = "none" /\ z.name = n /\ z.barred = b
  BY <1>4, <1>5, <1>6, FreshQuery DEF Query
<1>10. z.barred => z.name \in filter
  BY <1>3, <1>9
<1> QED
  BY <1>7, <1>8, <1>9, <1>10

\* A query that has just come is in order, permit or not.
LEMMA AskedOK ==
  ASSUME NEW tcp \in BOOLEAN, NEW at \in {"parse", "queue"}, NEW ask \in Asked(tcp)
  PROVE  LET new == [ask EXCEPT !.at = at]
         IN QueryOK(new) /\ new.at = at /\ new.end = "none"
<1> DEFINE new == [ask EXCEPT !.at = at]
<1>1. Fresh \in Query /\ Fresh.end = "none" /\ Fresh.kind = "name" /\ ~Fresh.barred
  BY DEF Fresh, Query, Points, Ends
<1>2. ASSUME NEW n \in Names, NEW p \in Postures, ask = NameAsked(tcp, n, p)
      PROVE  ask \in Query /\ ask.end = "none" /\ ask.name \in Names
             /\ (ask.barred => ask.name \in filter)
  BY <1>2, NameAskedOK
<1>3. ASSUME NEW k \in {"canary", "refused"}, ask = OtherAsked(tcp, k)
      PROVE  ask \in Query /\ ask.end = "none" /\ ask.kind # "name" /\ ~ask.barred
  BY <1>1, <1>3 DEF OtherAsked, Query
<1>4. /\ ask \in Query /\ ask.end = "none"
      /\ ask.kind = "name" => ask.name \in Names
      /\ ask.barred => ask.name \in filter
  BY <1>2, <1>3 DEF Asked
<1>5. /\ new \in Query /\ new.at = at /\ new.end = ask.end /\ new.kind = ask.kind
      /\ new.name = ask.name /\ new.barred = ask.barred
  BY <1>4 DEF Query, Points
<1> HIDE DEF new
<1>6. QueryOK(new)
  BY <1>4, <1>5 DEF QueryOK
<1> QED
  BY <1>4, <1>5, <1>6 DEF new

\* What one query does leaves the others in order.
LEMMA OneQuery ==
  ASSUME QueriesOK, NEW i \in Queries, NEW new, QueryOK(new),
         q' = [q EXCEPT ![i] = new], filter' = filter
  PROVE  QueriesOK'
<1>1. new \in Query /\ q \in [Queries -> Query]
  BY DEF QueriesOK, QueryOK
<1>2. q' \in [Queries -> Query]
  BY <1>1
<1>3. ASSUME NEW j \in Queries PROVE QueryOK(q[j])'
  <2>1. PICK x : x = q'[j] /\ QueryOK(x)
    BY <1>1 DEF QueriesOK
  <2> QED
    BY <2>1 DEF QueryOK
<1> QED
  BY <1>2, <1>3 DEF QueriesOK

\* How one query moves the count.
LEMMA OwedMoves ==
  ASSUME q \in [Queries -> Query], NEW i \in Queries, NEW new, IsFiniteSet(Owed),
         q' = [q EXCEPT ![i] = new]
  PROVE  /\ IsFiniteSet(Owed')
         /\ Cardinality(Owed) \in Nat /\ Cardinality(Owed') \in Nat
         /\ (Due(new) <=> Due(q[i])) => Cardinality(Owed') = Cardinality(Owed)
         /\ Due(new) /\ ~Due(q[i]) => Cardinality(Owed') = Cardinality(Owed) + 1
         /\ ~Due(new) /\ Due(q[i]) => Cardinality(Owed') = Cardinality(Owed) - 1
<1>1. \A j \in Queries : q'[j] = IF j = i THEN new ELSE q[j]
  OBVIOUS
<1>2. /\ Owed' = {j \in Queries : q'[j].at \in {"decide", "lookup", "udp", "tcp"}
                                  \/ q'[j].end \in {"refused", "cut"}}
      /\ Owed = {j \in Queries : q[j].at \in {"decide", "lookup", "udp", "tcp"}
                                 \/ q[j].end \in {"refused", "cut"}}
  BY DEF Owed, Due
<1>3. CASE Due(new) <=> Due(q[i])
  <2>1. Owed' = Owed
    BY <1>1, <1>2, <1>3 DEF Due
  <2> QED
    BY <1>3, <2>1, FS_CardinalityType
<1>4. CASE Due(new) /\ ~Due(q[i])
  <2>1. Owed' = Owed \cup {i} /\ i \notin Owed
    BY <1>1, <1>2, <1>4 DEF Due
  <2>2. IsFiniteSet(Owed') /\ Cardinality(Owed') = Cardinality(Owed) + 1
    BY <2>1, FS_AddElement
  <2> QED
    BY <1>4, <2>2, FS_CardinalityType
<1>5. CASE ~Due(new) /\ Due(q[i])
  <2>1. Owed' = Owed \ {i} /\ i \in Owed
    BY <1>1, <1>2, <1>5 DEF Due
  <2>2. IsFiniteSet(Owed') /\ Cardinality(Owed') = Cardinality(Owed) - 1
    BY <2>1, FS_RemoveElement
  <2> QED
    BY <1>5, <2>2, FS_CardinalityType
<1> QED
  BY <1>3, <1>4, <1>5

\* A counter that is not named does not move.
Moves(names) ==
  /\ counters' \in [Counted -> Nat]
  /\ \A c \in Counted : /\ c \in names => counters'[c] = counters[c] + 1
                        /\ c \notin names => counters'[c] = counters[c]

\* A step moves the counters it names, or none.
LEMMA BumpMoves ==
  ASSUME counters \in [Counted -> Nat], NEW names, Bump(names)
  PROVE  Moves(names)
BY DEF Bump, Moves

LEMMA StillMoves == counters \in [Counted -> Nat] /\ UNCHANGED counters => Moves({})
BY DEF Moves

\* A query that moves on, or is answered, keeps everything else it carries.
LEMMA Moved ==
  ASSUME NEW x \in Query, NEW at \in Points
  PROVE  LET new == [x EXCEPT !.at = at]
         IN /\ new \in Query /\ new.at = at /\ new.kind = x.kind /\ new.name = x.name
            /\ new.do = x.do /\ new.cd = x.cd /\ new.plain = x.plain /\ new.barred = x.barred
            /\ new.ans = x.ans /\ new.end = x.end
BY DEF Query

\* A query that gets its answer keeps the rest.
LEMMA Replied ==
  ASSUME NEW x \in Query, NEW end \in Ends
  PROVE  LET new == [x EXCEPT !.at = "reply", !.end = end]
         IN /\ new \in Query /\ new.at = "reply" /\ new.name = x.name
            /\ new.do = x.do /\ new.cd = x.cd /\ new.plain = x.plain /\ new.barred = x.barred
            /\ new.ans = x.ans /\ new.end = end
BY DEF Query, Points

\* A query on its way that gets its answer is in order.
LEMMA ReplyOK ==
  ASSUME NEW x, QueryOK(x), NEW end \in Ends \ {"none"},
         end \in {"data", "hit"} => ~x.barred,
         end = "hit" => x.ans.do = x.do /\ x.ans.cd = x.cd
  PROVE  QueryOK([x EXCEPT !.at = "reply", !.end = end])
<1>1. x \in Query /\ (x.barred => x.name \in filter)
  BY DEF QueryOK
<1>2. PICK new : new = [x EXCEPT !.at = "reply", !.end = end]
  OBVIOUS
<1>3. /\ new \in Query /\ new.at = "reply" /\ new.name = x.name
      /\ new.do = x.do /\ new.cd = x.cd /\ new.plain = x.plain /\ new.barred = x.barred
      /\ new.ans = x.ans /\ new.end = end
  BY <1>1, <1>2, Replied
<1> QED
  BY <1>1, <1>2, <1>3 DEF QueryOK

\* A query is served by a step that counts it: not at all, when it stays what it
\* is to the count; as a query, when it joins; as one of the others, when it
\* leaves; as both at once.
LEMMA Served ==
  ASSUME Clients, NEW i \in Queries, NEW new, QueryOK(new), q' = [q EXCEPT ![i] = new],
         filter' = filter, changes' = changes, NEW names, Moves(names),
         \/ /\ names \cap (Others \cup {"queries"}) = {} /\ (Due(new) <=> Due(q[i]))
         \/ /\ names \cap (Others \cup {"queries"}) = {"queries"} /\ Due(new) /\ ~Due(q[i])
         \/ /\ \E c \in Others : names \cap (Others \cup {"queries"}) = {c}
            /\ ~Due(new) /\ Due(q[i])
         \/ /\ \E c \in Others : names \cap (Others \cup {"queries"}) = {c, "queries"}
            /\ (Due(new) <=> Due(q[i]))
  PROVE  Clients'
<1>1. QueriesOK'
  BY OneQuery DEF Clients
<1>2. q \in [Queries -> Query] /\ IsFiniteSet(Owed) /\ counters \in [Counted -> Nat]
      /\ counters' \in [Counted -> Nat]
  BY DEF Clients, QueriesOK, Balanced, Moves
<1>3. PICK a \in Nat, b \in Nat :
        a = Cardinality(Owed) /\ b = Cardinality(Owed')
  BY <1>2, OwedMoves
<1>4. /\ IsFiniteSet(Owed')
      /\ (Due(new) <=> Due(q[i])) => b = a
      /\ Due(new) /\ ~Due(q[i]) => b = a + 1
      /\ ~Due(new) /\ Due(q[i]) => b = a - 1
  BY <1>2, <1>3, OwedMoves
<1>5. PICK n0 \in Nat, n1 \in Nat, b0 \in Nat, b1 \in Nat, h0 \in Nat, h1 \in Nat, f0 \in Nat,
           f1 \in Nat, e0 \in Nat, e1 \in Nat, s0 \in Nat, s1 \in Nat :
        /\ n0 = counters["queries"] /\ n1 = counters'["queries"]
        /\ b0 = counters["blocked"] /\ b1 = counters'["blocked"]
        /\ h0 = counters["hits"] /\ h1 = counters'["hits"]
        /\ f0 = counters["forwarded"] /\ f1 = counters'["forwarded"]
        /\ e0 = counters["errors"] /\ e1 = counters'["errors"]
        /\ s0 = counters["shed"] /\ s1 = counters'["shed"]
  BY <1>2 DEF Counted
<1>6. n0 = b0 + h0 + f0 + e0 + s0 + a
  BY <1>3, <1>5 DEF Clients, Balanced
<1>7. n1 = b1 + h1 + f1 + e1 + s1 + b
  <2>1. \A c \in Counted : /\ c \in names => counters'[c] = counters[c] + 1
                           /\ c \notin names => counters'[c] = counters[c]
    BY DEF Moves
  <2>2. /\ "queries" \in names => n1 = n0 + 1
        /\ "queries" \notin names => n1 = n0
        /\ "blocked" \in names => b1 = b0 + 1
        /\ "blocked" \notin names => b1 = b0
        /\ "hits" \in names => h1 = h0 + 1
        /\ "hits" \notin names => h1 = h0
        /\ "forwarded" \in names => f1 = f0 + 1
        /\ "forwarded" \notin names => f1 = f0
        /\ "errors" \in names => e1 = e0 + 1
        /\ "errors" \notin names => e1 = e0
        /\ "shed" \in names => s1 = s0 + 1
        /\ "shed" \notin names => s1 = s0
    BY <1>5, <2>1 DEF Counted
  <2>3. CASE names \cap (Others \cup {"queries"}) = {} /\ (Due(new) <=> Due(q[i]))
    BY <1>4, <1>6, <2>2, <2>3 DEF Others
  <2>4. CASE names \cap (Others \cup {"queries"}) = {"queries"} /\ Due(new) /\ ~Due(q[i])
    BY <1>4, <1>6, <2>2, <2>4 DEF Others
  <2>5. ASSUME NEW c \in Others, names \cap (Others \cup {"queries"}) = {c},
               ~Due(new), Due(q[i])
        PROVE  n1 = b1 + h1 + f1 + e1 + s1 + b
    BY <1>4, <1>6, <2>2, <2>5 DEF Others
  <2>6. ASSUME NEW c \in Others, names \cap (Others \cup {"queries"}) = {c, "queries"},
               Due(new) <=> Due(q[i])
        PROVE  n1 = b1 + h1 + f1 + e1 + s1 + b
    BY <1>4, <1>6, <2>2, <2>6 DEF Others
  <2> QED
    BY <2>3, <2>4, <2>5, <2>6
<1>8. Balanced'
  BY <1>3, <1>4, <1>5, <1>7 DEF Balanced
<1> QED
  BY <1>1, <1>2, <1>8 DEF Clients

-----------------------------------------------------------------------------
(* The listeners.                                                          *)

\* udp_loop: a permit, or shed at once.
LEMMA RecvUdpServed ==
  ASSUME Clients, NEW i \in Queries, RecvUdp(i) PROVE Clients'
<1>0. q[i].at = "idle" /\ ~Due(q[i]) /\ counters \in [Counted -> Nat]
  BY DEF RecvUdp, Clients, QueriesOK, QueryOK, Due
<1>1. filter' = filter /\ changes' = changes
  BY DEF RecvUdp
<1>2. PICK ask \in Asked(FALSE) :
        \/ q' = [q EXCEPT ![i] = [ask EXCEPT !.at = "parse"]] /\ UNCHANGED counters
        \/ q' = [q EXCEPT ![i] = Over("shed")] /\ Bump({"shed", "queries"})
  BY DEF RecvUdp
<1>3. CASE q' = [q EXCEPT ![i] = [ask EXCEPT !.at = "parse"]] /\ UNCHANGED counters
  <2>1. PICK new : new = [ask EXCEPT !.at = "parse"]
    OBVIOUS
  <2>2. QueryOK(new) /\ new.at = "parse" /\ new.end = "none"
    BY <2>1, AskedOK
  <2>3. Moves({}) /\ ~Due(new)
    BY <1>0, <1>3, <2>2, StillMoves DEF Due
  <2> QED
    BY <1>0, <1>1, <1>3, <2>1, <2>2, <2>3, Served
<1>4. CASE q' = [q EXCEPT ![i] = Over("shed")] /\ Bump({"shed", "queries"})
  <2>1. PICK new : new = Over("shed")
    OBVIOUS
  <2>2. QueryOK(new) /\ ~Due(new)
    BY <2>1, OverOK DEF Ends, Due
  <2>3. Moves({"shed", "queries"})
    BY <1>0, <1>4, BumpMoves
  <2>4. /\ "shed" \in Others
        /\ {"shed", "queries"} \cap (Others \cup {"queries"}) = {"shed", "queries"}
    BY DEF Others
  <2> QED
    BY <1>0, <1>1, <1>4, <2>1, <2>2, <2>3, <2>4, Served
<1> QED
  BY <1>2, <1>3, <1>4

\* tcp_loop: a queue slot, or closed.
LEMMA AcceptServed ==
  ASSUME Clients, NEW i \in Queries, Accept(i) PROVE Clients'
<1>0. q[i].at = "idle" /\ ~Due(q[i]) /\ counters \in [Counted -> Nat]
  BY DEF Accept, Clients, QueriesOK, QueryOK, Due
<1>1. filter' = filter /\ changes' = changes
  BY DEF Accept
<1>2. PICK ask \in Asked(TRUE) :
        \/ q' = [q EXCEPT ![i] = [ask EXCEPT !.at = "queue"]] /\ UNCHANGED counters
        \/ q' = [q EXCEPT ![i] = Over("closed")] /\ Bump({"pool_full"})
  BY DEF Accept
<1>3. CASE q' = [q EXCEPT ![i] = [ask EXCEPT !.at = "queue"]] /\ UNCHANGED counters
  <2>1. PICK new : new = [ask EXCEPT !.at = "queue"]
    OBVIOUS
  <2>2. QueryOK(new) /\ new.at = "queue" /\ new.end = "none"
    BY <2>1, AskedOK
  <2>3. Moves({}) /\ ~Due(new)
    BY <1>0, <1>3, <2>2, StillMoves DEF Due
  <2> QED
    BY <1>0, <1>1, <1>3, <2>1, <2>2, <2>3, Served
<1>4. CASE q' = [q EXCEPT ![i] = Over("closed")] /\ Bump({"pool_full"})
  <2>1. PICK new : new = Over("closed")
    OBVIOUS
  <2>2. QueryOK(new) /\ ~Due(new)
    BY <2>1, OverOK DEF Ends, Due
  <2>3. Moves({"pool_full"}) /\ {"pool_full"} \cap (Others \cup {"queries"}) = {}
    BY <1>0, <1>4, BumpMoves DEF Others
  <2> QED
    BY <1>0, <1>1, <1>4, <2>1, <2>2, <2>3, Served
<1> QED
  BY <1>2, <1>3, <1>4

\* The end of the wait for a connection's permit.
LEMMA WaitingServed ==
  ASSUME Clients, NEW i \in Queries, Admit(i) \/ QueueTimeout(i) \/ Overflow(i) PROVE Clients'
<1>0. /\ QueryOK(q[i]) /\ q[i] \in Query /\ filter \subseteq Names
      /\ counters \in [Counted -> Nat] /\ q \in [Queries -> Query]
  BY DEF Clients, QueriesOK, QueryOK
<1>1. filter' = filter /\ changes' = changes
  BY DEF Admit, QueueTimeout, Overflow
<1>2. CASE Admit(i)
  <2>1. (q[i].name \in filter) \in BOOLEAN
    OBVIOUS
  <2>2. PICK b \in BOOLEAN : b = (q[i].name \in filter)
    BY <2>1
  <2>3. PICK new : new = [q[i] EXCEPT !.at = "parse", !.barred = b]
    OBVIOUS
  <2>4. q' = [q EXCEPT ![i] = new] /\ q[i].at = "queue" /\ UNCHANGED counters
    BY <1>2, <2>2, <2>3 DEF Admit
  <2>5. /\ new \in Query /\ new.at = "parse" /\ new.kind = q[i].kind /\ new.name = q[i].name
        /\ new.barred = b /\ new.end = q[i].end
    BY <1>0, <2>3 DEF Query, Points
  <2>6. QueryOK(new) /\ ~Due(new) /\ ~Due(q[i])
    BY <1>0, <2>2, <2>4, <2>5 DEF QueryOK, Due
  <2> QED
    BY <1>0, <1>1, <2>4, <2>6, StillMoves, Served
<1>3. CASE QueueTimeout(i)
  <2>1. PICK new : new = [q[i] EXCEPT !.at = "overflow"]
    OBVIOUS
  <2>2. q' = [q EXCEPT ![i] = new] /\ q[i].at = "queue" /\ Bump({"pool_full"})
    BY <1>3, <2>1 DEF QueueTimeout
  <2>3. /\ new \in Query /\ new.at = "overflow" /\ new.name = q[i].name
        /\ new.barred = q[i].barred /\ new.end = q[i].end
    BY <1>0, <2>1 DEF Query, Points
  <2>4. QueryOK(new) /\ ~Due(new) /\ ~Due(q[i])
    BY <1>0, <2>2, <2>3 DEF QueryOK, Due
  <2>5. Moves({"pool_full"}) /\ {"pool_full"} \cap (Others \cup {"queries"}) = {}
    BY <1>0, <2>2, BumpMoves DEF Others
  <2> QED
    BY <1>1, <2>2, <2>4, <2>5, Served
<1>4. CASE Overflow(i)
  <2>1. PICK new : new = Over("full")
    OBVIOUS
  <2>2. q' = [q EXCEPT ![i] = new] /\ q[i].at = "overflow" /\ UNCHANGED counters
    BY <1>4, <2>1 DEF Overflow, Finish
  <2>3. QueryOK(new) /\ ~Due(new) /\ ~Due(q[i])
    BY <1>0, <2>1, <2>2, OverOK DEF Ends, Due, QueryOK
  <2> QED
    BY <1>0, <1>1, <2>2, <2>3, StillMoves, Served
<1> QED
  BY <1>2, <1>3, <1>4

\* A connection that is cut off during an exchange.
LEMMA CutServed ==
  ASSUME Clients, NEW i \in Queries, Cut(i) PROVE Clients'
<1>0. /\ QueryOK(q[i]) /\ counters \in [Counted -> Nat]
  BY DEF Clients, QueriesOK
<1>1. PICK new : new = Over("cut")
  OBVIOUS
<1>2. /\ q' = [q EXCEPT ![i] = new] /\ q[i].at \in {"udp", "tcp"}
      /\ UNCHANGED counters /\ filter' = filter /\ changes' = changes
  BY <1>1 DEF Cut, Finish
<1>3. QueryOK(new) /\ Due(new) /\ Due(q[i])
  BY <1>1, <1>2, OverOK DEF Ends, Due
<1> QED
  BY <1>0, <1>2, <1>3, StillMoves, Served

-----------------------------------------------------------------------------
(* handle_query.                                                           *)

\* A query that is answered by one of the counted others leaves the count.
LEMMA ReplyServed ==
  ASSUME Clients, NEW i \in Queries, NEW end \in Ends \ {"none", "refused", "cut"},
         Reply(i, end), Due(q[i]), q[i].end = "none", NEW c \in Others, Bump({c}),
         end \in {"data", "hit"} => ~q[i].barred, end # "hit",
         filter' = filter, changes' = changes
  PROVE  Clients'
<1>1. QueryOK(q[i]) /\ q[i] \in Query /\ counters \in [Counted -> Nat]
  BY DEF Clients, QueriesOK, QueryOK
<1>2. PICK new : new = [q[i] EXCEPT !.at = "reply", !.end = end]
  OBVIOUS
<1>3. q' = [q EXCEPT ![i] = new]
  BY <1>2 DEF Reply
<1>4. QueryOK(new) /\ new.at = "reply" /\ new.end = end
  BY <1>1, <1>2, ReplyOK, Replied
<1>5. ~Due(new)
  BY <1>4 DEF Due
<1>6. Moves({c}) /\ {c} \cap (Others \cup {"queries"}) = {c}
  BY <1>1, BumpMoves
<1> QED
  BY <1>3, <1>4, <1>5, <1>6, Served

\* The canary, a query that is refused, and the count of the others.
LEMMA ParseServed ==
  ASSUME Clients, NEW i \in Queries, Parse(i) PROVE Clients'
<1>0. /\ QueryOK(q[i]) /\ q[i] \in Query /\ counters \in [Counted -> Nat]
      /\ q[i].at = "parse" /\ filter' = filter /\ changes' = changes
  BY DEF Parse, Clients, QueriesOK, QueryOK
<1>1. ~Due(q[i]) /\ q[i].end = "none"
  BY <1>0 DEF Due, QueryOK
<1>2. ASSUME NEW end \in {"refused", "canary"}, NEW names,
             Reply(i, end), Bump(names),
             names = IF end = "refused" THEN {"queries"} ELSE {"canary"}
      PROVE  Clients'
  <2>1. PICK new : new = [q[i] EXCEPT !.at = "reply", !.end = end]
    OBVIOUS
  <2>2. q' = [q EXCEPT ![i] = new]
    BY <1>2, <2>1 DEF Reply
  <2>3. QueryOK(new) /\ new.at = "reply" /\ new.end = end
    <3>1. end \in Ends \ {"none"} /\ end \notin {"data", "hit"}
      BY DEF Ends
    <3> QED
      BY <1>0, <2>1, <3>1, ReplyOK, Replied
  <2>4. Moves(names)
    BY <1>0, <1>2, BumpMoves
  <2>5. CASE end = "refused"
    <3>1. Due(new) /\ names \cap (Others \cup {"queries"}) = {"queries"}
      BY <1>2, <2>3, <2>5 DEF Due
    <3> QED
      BY <1>0, <1>1, <2>2, <2>3, <2>4, <3>1, Served
  <2>6. CASE end = "canary"
    <3>1. ~Due(new) /\ names \cap (Others \cup {"queries"}) = {}
      BY <1>2, <2>3, <2>6 DEF Due, Others
    <3> QED
      BY <1>0, <1>1, <2>2, <2>3, <2>4, <3>1, Served
  <2> QED
    BY <2>5, <2>6
<1>3. CASE q[i].kind = "name" /\ Bump({"queries"}) /\ q' = [q EXCEPT ![i].at = "decide"]
  <2>1. PICK new : new = [q[i] EXCEPT !.at = "decide"]
    OBVIOUS
  <2>2. q' = [q EXCEPT ![i] = new]
    BY <1>3, <2>1
  <2>3. /\ new \in Query /\ new.at = "decide" /\ new.name = q[i].name
        /\ new.barred = q[i].barred /\ new.end = q[i].end
    BY <1>0, <2>1, Moved DEF Points
  <2>4. QueryOK(new) /\ Due(new)
    BY <1>0, <1>1, <1>3, <2>3 DEF QueryOK, Due
  <2>5. Moves({"queries"}) /\ {"queries"} \cap (Others \cup {"queries"}) = {"queries"}
    <3>1. Moves({"queries"})
      BY <1>0, <1>3, BumpMoves
    <3>2. {"queries"} \cap (Others \cup {"queries"}) = {"queries"}
      OBVIOUS
    <3> QED
      BY <3>1, <3>2
  <2> QED
    BY <1>0, <1>1, <2>2, <2>4, <2>5, Served
<1> QED
  BY <1>2, <1>3 DEF Parse

\* The filter, before the cache.
LEMMA DecideServed ==
  ASSUME Clients, NEW i \in Queries, Decide(i) PROVE Clients'
<1>0. /\ QueryOK(q[i]) /\ q[i] \in Query /\ counters \in [Counted -> Nat]
      /\ q[i].at = "decide" /\ filter' = filter /\ changes' = changes
  BY DEF Decide, Clients, QueriesOK, QueryOK
<1>1. Due(q[i]) /\ q[i].end = "none"
  BY <1>0 DEF Due, QueryOK
<1>2. CASE Bump({"blocked"}) /\ Reply(i, "blocked")
  BY <1>0, <1>1, <1>2, ReplyServed DEF Ends, Others
<1>3. CASE q[i].name \notin filter /\ UNCHANGED counters /\ q' = [q EXCEPT ![i].at = "lookup"]
  <2>1. PICK new : new = [q[i] EXCEPT !.at = "lookup"]
    OBVIOUS
  <2>2. q' = [q EXCEPT ![i] = new]
    BY <1>3, <2>1
  <2>3. /\ new \in Query /\ new.at = "lookup" /\ new.name = q[i].name
        /\ new.barred = q[i].barred /\ new.end = q[i].end
    BY <1>0, <2>1, Moved DEF Points
  <2>4. QueryOK(new) /\ Due(new)
    BY <1>0, <1>1, <1>3, <2>3 DEF QueryOK, Due
  <2> QED
    BY <1>0, <1>1, <1>3, <2>2, <2>4, StillMoves, Served
<1> QED
  BY <1>2, <1>3 DEF Decide

\* The first exchange, when the cache has nothing to say.
LEMMA ExchangeServed ==
  ASSUME Clients, NEW i \in Queries, q[i].at = "lookup",
         q' = [q EXCEPT ![i] = Exchange(@)], UNCHANGED counters,
         filter' = filter, changes' = changes
  PROVE  Clients'
<1>0. QueryOK(q[i]) /\ q[i] \in Query /\ counters \in [Counted -> Nat]
  BY DEF Clients, QueriesOK, QueryOK
<1>1. PICK at \in {"udp", "tcp"} : at = IF q[i].via_tcp THEN "tcp" ELSE "udp"
  OBVIOUS
<1>2. PICK new : new = [q[i] EXCEPT !.at = at]
  OBVIOUS
<1>3. q' = [q EXCEPT ![i] = new]
  BY <1>1, <1>2 DEF Exchange
<1>4. /\ new \in Query /\ new.at = at /\ new.name = q[i].name
      /\ new.barred = q[i].barred /\ new.end = q[i].end
  <2>1. at \in Points
    BY DEF Points
  <2> QED
    BY <1>0, <1>2, <2>1, Moved
<1>5. QueryOK(new) /\ Due(new) /\ Due(q[i])
  BY <1>0, <1>4 DEF QueryOK, Due
<1> QED
  BY <1>0, <1>3, <1>5, StillMoves, Served

\* A hit, or on to the upstreams.
LEMMA LookupServed ==
  ASSUME Clients, EntriesOK, NEW i \in Queries, Lookup(i) PROVE Clients'
<1>0. /\ QueryOK(q[i]) /\ q[i] \in Query /\ counters \in [Counted -> Nat]
      /\ q[i].at = "lookup" /\ filter' = filter /\ changes' = changes
  BY DEF Lookup, Clients, QueriesOK, QueryOK
<1>1. PICK k : k = <<q[i].name, q[i].do, q[i].cd>>
  OBVIOUS
<1>2. CASE /\ k \in DOMAIN cache /\ Bump({"hits"})
           /\ q' = [q EXCEPT ![i].at = "reply", ![i].end = "hit", ![i].ans = cache[k]]
  <2>1. PICK x, a : x = q[i] /\ a = cache[k]
    OBVIOUS
  <2>2. a \in Answer /\ a.do = x.do /\ a.cd = x.cd
    BY <1>1, <1>2, <2>1 DEF EntriesOK
  <2>3. PICK new : new = [x EXCEPT !.at = "reply", !.end = "hit", !.ans = a]
    OBVIOUS
  <2>4. q' = [q EXCEPT ![i] = new]
    BY <1>2, <2>1, <2>3
  <2>5. /\ new \in Query /\ new.at = "reply" /\ new.end = "hit" /\ new.ans = a
        /\ new.name = x.name /\ new.do = x.do /\ new.cd = x.cd /\ new.barred = x.barred
    BY <1>0, <2>1, <2>2, <2>3 DEF Query, Points, Ends
  <2>6. QueryOK(new) /\ ~Due(new) /\ Due(q[i])
    BY <1>0, <2>1, <2>2, <2>5 DEF QueryOK, Due
  <2>7. /\ "hits" \in Others /\ Moves({"hits"})
        /\ {"hits"} \cap (Others \cup {"queries"}) = {"hits"}
    BY <1>0, <1>2, BumpMoves DEF Others
  <2> QED
    BY <1>0, <2>4, <2>6, <2>7, Served
<1>3. CASE UNCHANGED counters /\ q' = [q EXCEPT ![i] = Exchange(@)]
  BY <1>0, <1>3, ExchangeServed
<1> QED
  BY <1>1, <1>2, <1>3 DEF Lookup

\* The exchanges and their fallbacks.
LEMMA ExchangesServed ==
  ASSUME Clients, NEW i \in Queries, ExchangeFails(i) \/ AgainPlain(i) \/ AgainTcp(i)
  PROVE  Clients'
<1>0. /\ QueryOK(q[i]) /\ q[i] \in Query /\ counters \in [Counted -> Nat]
      /\ q[i].at \in {"udp", "tcp"} /\ filter' = filter /\ changes' = changes
  BY DEF ExchangeFails, AgainPlain, AgainTcp, Clients, QueriesOK, QueryOK
<1>1. Due(q[i]) /\ q[i].end = "none"
  BY <1>0 DEF Due, QueryOK
<1>2. CASE ExchangeFails(i)
  BY <1>0, <1>1, <1>2, ReplyServed DEF Ends, Others, ExchangeFails
<1>3. CASE AgainPlain(i)
  <2>1. PICK new : new = [q[i] EXCEPT !.plain = TRUE]
    OBVIOUS
  <2>2. q' = [q EXCEPT ![i] = new] /\ UNCHANGED counters
    BY <1>3, <2>1 DEF AgainPlain
  <2>3. /\ new \in Query /\ new.at = q[i].at /\ new.name = q[i].name
        /\ new.barred = q[i].barred /\ new.end = q[i].end
    BY <1>0, <2>1 DEF Query
  <2>4. QueryOK(new) /\ Due(new)
    BY <1>0, <1>1, <2>3 DEF QueryOK, Due
  <2> QED
    BY <1>0, <1>1, <2>2, <2>4, StillMoves, Served
<1>4. CASE AgainTcp(i)
  <2>1. PICK new : new = [q[i] EXCEPT !.at = "tcp"]
    OBVIOUS
  <2>2. q' = [q EXCEPT ![i] = new] /\ UNCHANGED counters
    BY <1>4, <2>1 DEF AgainTcp
  <2>3. /\ new \in Query /\ new.at = "tcp" /\ new.name = q[i].name
        /\ new.barred = q[i].barred /\ new.end = q[i].end
    BY <1>0, <2>1, Moved DEF Points
  <2>4. QueryOK(new) /\ Due(new)
    BY <1>0, <1>1, <2>3 DEF QueryOK, Due
  <2> QED
    BY <1>0, <1>1, <2>2, <2>4, StillMoves, Served
<1> QED
  BY <1>2, <1>3, <1>4

\* An answer of an upstream, kept or not.
LEMMA AnsweredServed ==
  ASSUME Clients, NEW i \in Queries, Answered(i) PROVE Clients'
<1>0. /\ QueryOK(q[i]) /\ q[i] \in Query /\ counters \in [Counted -> Nat]
      /\ q[i].at \in {"udp", "tcp"} /\ filter' = filter /\ changes' = changes
      /\ Bump({"forwarded"})
  BY DEF Answered, Clients, QueriesOK, QueryOK
<1>1. PICK x : x = q[i]
  OBVIOUS
<1>2. PICK n \in Sizes, fr \in BOOLEAN, o \in BOOLEAN, c \in BOOLEAN :
        /\ o = (x.do /\ ~x.plain) /\ c = x.cd
        /\ q' = [q EXCEPT ![i].at = "store",
                          ![i].ans = [do |-> o, cd |-> c, size |-> n, fresh |-> fr]]
  <2>1. PICK n \in Sizes, fr \in BOOLEAN :
          q' = [q EXCEPT ![i].at = "store", ![i].ans =
                  [do |-> q[i].do /\ ~q[i].plain, cd |-> q[i].cd, size |-> n, fresh |-> fr]]
    BY DEF Answered
  <2>2. (x.do /\ ~x.plain) \in BOOLEAN /\ x.cd \in BOOLEAN
    BY <1>0, <1>1 DEF Query
  <2> QED
    BY <1>1, <2>1, <2>2
<1>3. PICK a : a = [do |-> o, cd |-> c, size |-> n, fresh |-> fr]
  OBVIOUS
<1>4. a \in Answer /\ a.do = o /\ a.cd = c
  BY <1>3 DEF Answer
<1>5. PICK new : new = [x EXCEPT !.at = "store", !.ans = a]
  OBVIOUS
<1>6. q' = [q EXCEPT ![i] = new]
  BY <1>1, <1>2, <1>3, <1>5
<1>7. /\ new \in Query /\ new.at = "store" /\ new.ans = a /\ new.end = x.end
      /\ new.name = x.name /\ new.do = x.do /\ new.cd = x.cd /\ new.plain = x.plain
      /\ new.barred = x.barred
  BY <1>0, <1>1, <1>4, <1>5 DEF Query, Points
<1>8. QueryOK(new) /\ ~Due(new) /\ Due(q[i])
  BY <1>0, <1>1, <1>2, <1>4, <1>7 DEF QueryOK, Due
<1>9. /\ "forwarded" \in Others /\ Moves({"forwarded"})
      /\ {"forwarded"} \cap (Others \cup {"queries"}) = {"forwarded"}
  BY <1>0, BumpMoves DEF Others
<1> QED
  BY <1>0, <1>6, <1>8, <1>9, Served

\* Storing and sending count nothing.
LEMMA SentServed ==
  ASSUME Clients, NEW i \in Queries, CacheStore(i) \/ Send(i) PROVE Clients'
<1>0. /\ QueryOK(q[i]) /\ q[i] \in Query /\ counters \in [Counted -> Nat]
      /\ filter' = filter /\ changes' = changes /\ UNCHANGED counters
  BY DEF CacheStore, Send, Clients, QueriesOK, QueryOK
<1>1. CASE CacheStore(i)
  <2>1. PICK new : new = [q[i] EXCEPT !.at = "reply", !.end = "data"]
    OBVIOUS
  <2>2. q' = [q EXCEPT ![i] = new] /\ q[i].at = "store"
    BY <1>1, <2>1 DEF CacheStore, Reply
  <2>3. QueryOK(new) /\ new.at = "reply" /\ new.end = "data"
    <3>1. ~q[i].barred
      BY <1>0, <2>2 DEF QueryOK
    <3>2. "data" \in Ends \ {"none"}
      BY DEF Ends
    <3> QED
      BY <1>0, <2>1, <3>1, <3>2, ReplyOK, Replied
  <2>4. ~Due(new) /\ ~Due(q[i])
    BY <1>0, <2>2, <2>3 DEF QueryOK, Due
  <2> QED
    BY <1>0, <2>2, <2>3, <2>4, StillMoves, Served
<1>2. CASE Send(i)
  <2>1. PICK end \in Ends : end = q[i].end
    BY <1>0 DEF Query
  <2>2. PICK new : new = Over(end)
    OBVIOUS
  <2>3. q' = [q EXCEPT ![i] = new] /\ q[i].at = "reply"
    BY <1>2, <2>1, <2>2 DEF Send, Finish
  <2>4. QueryOK(new) /\ (Due(new) <=> Due(q[i]))
    BY <2>1, <2>2, <2>3, OverOK DEF Due
  <2> QED
    BY <1>0, <2>3, <2>4, StillMoves, Served
<1> QED
  BY <1>1, <1>2

\* A new filter lifts bars and raises none.
LEMMA UpdateServed == ASSUME Clients, UpdateFilter PROVE Clients'
<1>0. /\ \A i \in Queries : QueryOK(q[i])
      /\ q \in [Queries -> Query] /\ changes \in 0 .. MaxChanges
  BY DEF Clients, QueriesOK
<1>1. PICK barring \in SUBSET Names :
        /\ filter' = barring
        /\ q' = [i \in Queries |-> [q[i] EXCEPT !.barred = @ /\ q[i].name \in barring]]
  BY DEF UpdateFilter
<1>2. changes' = changes + 1 /\ changes < MaxChanges /\ counters' = counters
  BY DEF UpdateFilter
<1>3. ASSUME NEW i \in Queries
      PROVE  /\ q'[i] \in Query /\ QueryOK(q[i])'
             /\ q'[i].at = q[i].at /\ q'[i].end = q[i].end
  <2>1. PICK x : x = q[i] /\ x \in Query /\ QueryOK(x)
    BY <1>0
  <2>2. (x.barred /\ x.name \in barring) \in BOOLEAN
    OBVIOUS
  <2>3. PICK b \in BOOLEAN : b = (x.barred /\ x.name \in barring)
    BY <2>2
  <2>4. PICK new : new = [x EXCEPT !.barred = b]
    OBVIOUS
  <2>5. q'[i] = new
    BY <1>1, <2>1, <2>3, <2>4
  <2>6. /\ new \in Query /\ new.at = x.at /\ new.kind = x.kind /\ new.name = x.name
        /\ new.do = x.do /\ new.cd = x.cd /\ new.plain = x.plain /\ new.barred = b
        /\ new.ans = x.ans /\ new.end = x.end
    BY <2>1, <2>4 DEF Query
  <2>7. (b => x.barred /\ x.name \in filter') /\ (x.barred \in BOOLEAN)
    BY <1>1, <2>1, <2>3 DEF Query
  <2>8. QueryOK(q[i])'
    BY <2>1, <2>5, <2>6, <2>7 DEF QueryOK
  <2> QED
    BY <2>1, <2>5, <2>6, <2>8
<1>4. QueriesOK'
  <2>1. q' \in [Queries -> Query]
    BY <1>1, <1>3
  <2> QED
    BY <1>3, <2>1 DEF QueriesOK
<1>5. Owed' = Owed
  BY <1>3 DEF Owed, Due
<1> QED
  BY <1>0, <1>1, <1>2, <1>4, <1>5, DnsAssumption DEF Clients, Balanced

-----------------------------------------------------------------------------
(* The cache.                                                              *)

\* An insertion that fits keeps the totals and both bounds.
LEMMA InsertTotal ==
  ASSUME NEW c, NEW k, NEW ans, ans.size \in Nat, SizeAt(c, k) \in Nat,
         IsFiniteSet(DOMAIN c), IsFiniteSet(Bytes(c)),
         Fits(c, Total(c), k, ans.size), Insert(c, Total(c), k, ans)
  PROVE  /\ DOMAIN cache' = DOMAIN c \cup {k} /\ cache'[k] = ans
         /\ \A x \in DOMAIN c \ {k} : cache'[x] = c[x]
         /\ IsFiniteSet(DOMAIN cache') /\ IsFiniteSet(Bytes(cache)')
         /\ CacheBounded' /\ bytes' \in Nat
<1>1. PICK over : over = cache'
  OBVIOUS
<1>2. /\ DOMAIN over = DOMAIN c \cup {k} /\ over[k] = ans
      /\ \A x \in DOMAIN c \ {k} : over[x] = c[x]
  BY <1>1 DEF Insert
<1>3. /\ IsFiniteSet(DOMAIN over) /\ IsFiniteSet(Bytes(over))
      /\ Cardinality(DOMAIN c) \in Nat /\ Cardinality(DOMAIN over) \in Nat
      /\ Cardinality(DOMAIN over) <= Cardinality(DOMAIN c) + 1
      /\ Total(over) \in Nat /\ Total(c) \in Nat /\ SizeAt(c, k) \in Nat
      /\ SizeAt(c, k) <= Total(c)
      /\ Total(over) = Total(c) + ans.size - SizeAt(c, k)
  BY <1>2, TotalWith
<1>4. bytes' = Total(over) /\ bytes' \in Nat
  BY <1>3 DEF Insert
<1>5. Cardinality(DOMAIN over) <= Capacity
  <2>1. PICK m \in Nat, n \in Nat : m = Cardinality(DOMAIN c) /\ n = Cardinality(DOMAIN over)
    BY <1>3
  <2>2. m < Capacity /\ n <= m + 1 /\ Capacity \in Nat
    BY <1>3, <2>1, DnsAssumption DEF Fits
  <2>3. n <= Capacity
    BY <2>2
  <2> QED
    BY <2>1, <2>3
<1>6. bytes' <= MaxBytes
  <2>1. PICK t \in Nat, s \in Nat, a \in Nat : t = Total(c) /\ s = SizeAt(c, k) /\ a = ans.size
    BY <1>3
  <2>2. t - s + a <= MaxBytes /\ bytes' = t + a - s /\ MaxBytes \in Nat
    BY <2>1, DnsAssumption DEF Fits, Insert
  <2> QED
    BY <2>2
<1>7. CacheBounded'
  BY <1>1, <1>4, <1>5, <1>6 DEF CacheBounded, Total, Bytes
<1>8. Bytes(cache)' = Bytes(over)
  BY <1>1 DEF Bytes
<1> QED
  BY <1>1, <1>2, <1>3, <1>4, <1>7, <1>8

\* And the entries in their slots.
LEMMA InsertKeeps ==
  ASSUME NEW c, NEW k \in Keys, NEW ans \in Answer,
         ans.do = k[2], ans.cd = k[3],
         DOMAIN c \subseteq Keys, IsFiniteSet(DOMAIN c), IsFiniteSet(Bytes(c)),
         \A x \in DOMAIN c : c[x] \in Answer /\ c[x].do = x[2] /\ c[x].cd = x[3],
         Fits(c, Total(c), k, ans.size), Insert(c, Total(c), k, ans)
  PROVE  Stored'
<1>1. ans.size \in Nat /\ SizeAt(c, k) \in Nat
  BY DnsAssumption DEF Answer, SizeAt
<1>2. /\ DOMAIN cache' = DOMAIN c \cup {k} /\ cache'[k] = ans
      /\ \A x \in DOMAIN c \ {k} : cache'[x] = c[x]
      /\ IsFiniteSet(DOMAIN cache') /\ IsFiniteSet(Bytes(cache)')
      /\ CacheBounded' /\ bytes' \in Nat
  BY <1>1, InsertTotal
<1>3. EntriesOK'
  BY <1>2 DEF EntriesOK
<1> QED
  BY <1>2, <1>3 DEF Stored

\* Most steps leave the cache alone.
LEMMA UnchangedStored == Stored /\ UNCHANGED store => Stored'
BY DEF Stored, store, EntriesOK, CacheBounded, Total, Bytes

\* A removed entry gives its bytes back.
LEMMA LookupStored ==
  ASSUME Stored, NEW i \in Queries, Lookup(i) PROVE Stored'
<1>1. CASE UNCHANGED store
  BY <1>1, UnchangedStored
<1>2. ASSUME NEW k \in DOMAIN cache, cache' = Restrict(cache, DOMAIN cache \ {k}),
             bytes' = bytes - cache[k].size
      PROVE  Stored'
  <2>1. cache[k].size \in Nat /\ IsFiniteSet(DOMAIN cache) /\ IsFiniteSet(Bytes(cache))
    BY DnsAssumption DEF Stored, EntriesOK, Answer
  <2>2. PICK rest : rest = cache'
    OBVIOUS
  <2>3. /\ DOMAIN rest = DOMAIN cache \ {k} /\ IsFiniteSet(DOMAIN rest)
        /\ Cardinality(DOMAIN rest) <= Cardinality(DOMAIN cache)
        /\ IsFiniteSet(Bytes(rest))
        /\ Total(cache) \in Nat /\ Total(rest) \in Nat
        /\ Total(cache) = Total(rest) + cache[k].size
    BY <1>2, <2>1, <2>2, TotalWithout
  <2>4. PICK t \in Nat, s \in Nat, n \in Nat :
          t = Total(cache) /\ s = Total(rest) /\ n = cache[k].size
    BY <2>1, <2>3
  <2>5. bytes' = t - n /\ t = s + n /\ t <= MaxBytes /\ MaxBytes \in Nat
    BY <1>2, <2>3, <2>4, DnsAssumption DEF Stored, CacheBounded
  <2>6. bytes' = s /\ s <= MaxBytes
    BY <2>5
  <2>7. Cardinality(DOMAIN rest) <= Capacity
    <3>1. PICK a \in Nat, b \in Nat :
            a = Cardinality(DOMAIN rest) /\ b = Cardinality(DOMAIN cache)
      BY <2>1, <2>3, FS_CardinalityType
    <3>2. a <= b /\ b <= Capacity /\ Capacity \in Nat
      BY <2>3, <3>1, DnsAssumption DEF Stored, CacheBounded
    <3>3. a <= Capacity
      BY <3>2
    <3> QED
      BY <3>1, <3>3
  <2>8. \A x \in DOMAIN rest : rest[x] = cache[x]
    BY <1>2, <2>2 DEF Restrict
  <2>9. EntriesOK'
    BY <2>2, <2>3, <2>8 DEF Stored, EntriesOK, Bytes
  <2>10. CacheBounded'
    BY <2>2, <2>4, <2>6, <2>7 DEF CacheBounded, Total, Bytes
  <2> QED
    BY <2>4, <2>6, <2>9, <2>10 DEF Stored
<1> QED
  BY <1>1, <1>2 DEF Lookup

\* The answer is kept where it fits, after a purge where it must be; a purge
\* that makes no room stands.
LEMMA StoreStored ==
  ASSUME Clients, Stored, NEW i \in Queries, CacheStore(i) PROVE Stored'
<1>1. PICK k, a : k = Slot(i) /\ a = q[i].ans
  OBVIOUS
<1>2. QueryOK(q[i]) /\ q[i] \in Query /\ q[i].at = "store"
  BY DEF CacheStore, Clients, QueriesOK, QueryOK
<1>3. a.fresh => a \in Answer
  BY <1>1, <1>2 DEF Query, NoAnswer
<1>4. k \in Keys /\ a.do = k[2] /\ a.cd = k[3]
  <2>1. PICK n \in Names, o \in BOOLEAN, c \in BOOLEAN :
          n = q[i].name /\ o = (q[i].do /\ ~q[i].plain) /\ c = q[i].cd
    <3>1. (q[i].do /\ ~q[i].plain) \in BOOLEAN /\ q[i].cd \in BOOLEAN /\ q[i].name \in Names
      BY <1>2 DEF QueryOK, Query
    <3> QED
      BY <3>1
  <2>2. k = <<n, o, c>>
    BY <1>1, <2>1 DEF Slot
  <2>3. a.do = o /\ a.cd = c
    BY <1>1, <1>2, <2>1 DEF QueryOK
  <2> QED
    BY <2>2, <2>3 DEF Keys
<1>5. /\ IsFiniteSet(Bytes(cache)) /\ IsFiniteSet(DOMAIN cache) /\ DOMAIN cache \subseteq Keys
      /\ \A x \in DOMAIN cache :
           cache[x] \in Answer /\ cache[x].do = x[2] /\ cache[x].cd = x[3]
      /\ bytes = Total(cache) /\ bytes \in Nat /\ bytes <= MaxBytes
      /\ Cardinality(DOMAIN cache) <= Capacity
  BY DEF Stored, EntriesOK, CacheBounded
<1>6. CASE UNCHANGED store
  BY <1>6, UnchangedStored
<1>7. CASE a.fresh /\ Fits(cache, bytes, k, a.size) /\ Insert(cache, bytes, k, a)
  BY <1>3, <1>4, <1>5, <1>7, InsertKeeps
<1>8. PICK kept : kept = Purged
  OBVIOUS
<1>9. /\ IsFiniteSet(DOMAIN kept) /\ IsFiniteSet(Bytes(kept))
      /\ DOMAIN kept \subseteq DOMAIN cache
      /\ \A x \in DOMAIN kept : kept[x] = cache[x]
      /\ Cardinality(DOMAIN kept) \in Nat /\ Cardinality(DOMAIN cache) \in Nat
      /\ Cardinality(DOMAIN kept) <= Cardinality(DOMAIN cache)
      /\ Total(kept) \in Nat /\ Total(Expired) \in Nat /\ Total(cache) \in Nat
      /\ Total(cache) = Total(kept) + Total(Expired)
  BY <1>5, <1>8, TotalPurged
<1>10. PurgedBytes = Total(kept) /\ Total(kept) <= MaxBytes
  <2>1. PICK t \in Nat, p \in Nat, x \in Nat :
          t = Total(cache) /\ p = Total(kept) /\ x = Total(Expired)
    BY <1>9
  <2>2. PurgedBytes = t - x /\ t = p + x /\ t <= MaxBytes /\ MaxBytes \in Nat
    BY <1>5, <1>9, <2>1, DnsAssumption DEF PurgedBytes
  <2>3. PurgedBytes = p /\ p <= MaxBytes
    BY <2>2
  <2> QED
    BY <2>1, <2>3
<1>11. CASE /\ a.fresh /\ Fits(Purged, PurgedBytes, k, a.size)
            /\ Insert(Purged, PurgedBytes, k, a)
  <2>1. Fits(kept, Total(kept), k, a.size) /\ Insert(kept, Total(kept), k, a)
    BY <1>8, <1>10, <1>11
  <2>2. \A x \in DOMAIN kept : kept[x] \in Answer /\ kept[x].do = x[2] /\ kept[x].cd = x[3]
    BY <1>5, <1>9
  <2>3. DOMAIN kept \subseteq Keys
    BY <1>5, <1>9
  <2> QED
    BY <1>3, <1>4, <1>9, <1>11, <2>1, <2>2, <2>3, InsertKeeps
<1>12. CASE cache' = Purged /\ bytes' = PurgedBytes
  <2>1. cache' = kept /\ bytes' = Total(kept)
    BY <1>8, <1>10, <1>12
  <2>2. Cardinality(DOMAIN kept) <= Capacity
    <3>1. PICK m \in Nat, n \in Nat :
            m = Cardinality(DOMAIN kept) /\ n = Cardinality(DOMAIN cache)
      BY <1>9
    <3>2. m <= n /\ n <= Capacity /\ Capacity \in Nat
      BY <1>5, <1>9, <3>1, DnsAssumption
    <3>3. m <= Capacity
      BY <3>2
    <3> QED
      BY <3>1, <3>3
  <2>3. EntriesOK'
    BY <1>5, <1>9, <2>1 DEF EntriesOK, Bytes
  <2>4. CacheBounded' /\ bytes' \in Nat
    BY <1>9, <1>10, <2>1, <2>2 DEF CacheBounded, Total, Bytes
  <2> QED
    BY <2>3, <2>4 DEF Stored
<1> QED
  BY <1>1, <1>6, <1>7, <1>11, <1>12 DEF CacheStore

\* An entry that expires keeps its bytes until it is taken.
LEMMA ExpireStored ==
  ASSUME Stored, NEW k \in Keys, Expire(k) PROVE Stored'
<1>1. PICK dim : dim = cache'
  OBVIOUS
<1>2. k \in DOMAIN cache /\ dim = [cache EXCEPT ![k].fresh = FALSE] /\ bytes' = bytes
  BY <1>1 DEF Expire
<1>3. /\ DOMAIN dim = DOMAIN cache
      /\ \A x \in DOMAIN cache :
           /\ dim[x] \in Answer /\ dim[x].size = cache[x].size
           /\ dim[x].do = cache[x].do /\ dim[x].cd = cache[x].cd
  <2>1. PICK a : a = cache[k] /\ a \in Answer
    BY <1>2 DEF Stored, EntriesOK
  <2>2. PICK b : b = [a EXCEPT !.fresh = FALSE]
    OBVIOUS
  <2>3. b \in Answer /\ b.size = a.size /\ b.do = a.do /\ b.cd = a.cd
    BY <2>1, <2>2 DEF Answer
  <2>4. /\ DOMAIN dim = DOMAIN cache
        /\ \A x \in DOMAIN cache : dim[x] = IF x = k THEN b ELSE cache[x]
    BY <1>2, <2>1, <2>2
  <2> QED
    BY <2>1, <2>3, <2>4 DEF Stored, EntriesOK
<1>4. Bytes(dim) = Bytes(cache)
  BY <1>3 DEF Bytes
<1>5. EntriesOK'
  <2>1. Bytes(cache)' = Bytes(cache)
    BY <1>1, <1>4 DEF Bytes
  <2> QED
    BY <1>1, <1>3, <2>1 DEF Stored, EntriesOK
<1>6. CacheBounded'
  BY <1>1, <1>2, <1>3, <1>4 DEF Stored, CacheBounded, Total, Bytes
<1> QED
  BY <1>2, <1>5, <1>6 DEF Stored

-----------------------------------------------------------------------------
(* The invariant of the proxy.                                             *)

\* Initially, with or without an entry of an earlier query.
LEMMA ProxyInvInit == ProxyInit => ProxyInv
<1> SUFFICES ASSUME ProxyInit PROVE ProxyInv
  OBVIOUS
<1>1. Fresh \in Query /\ Fresh.at = "idle" /\ Fresh.end = "none" /\ ~Fresh.barred
  BY DEF Fresh, Query, Points, Ends
<1>2. q = [i \in Queries |-> Fresh] /\ filter = {} /\ changes = 0
      /\ counters = [c \in Counted |-> 0]
  BY DEF ProxyInit
<1>3. QueryOK(Fresh)
  BY <1>1 DEF QueryOK
<1>4. QueriesOK
  <2> HIDE DEF Fresh
  <2> QED
    BY <1>1, <1>2, <1>3 DEF QueriesOK
<1>5. Balanced
  <2>1. Owed = {}
    BY <1>1, <1>2 DEF Owed, Due
  <2>2. \A c \in Counted : counters[c] = 0
    BY <1>2
  <2> QED
    BY <2>1, <2>2, FS_EmptySet DEF Balanced, Counted
<1>6. Clients
  BY <1>2, <1>4, <1>5, DnsAssumption DEF Clients
<1>7. CASE cache = << >> /\ bytes = 0
  <2>1. DOMAIN cache = {} /\ Bytes(cache) = {}
    BY <1>7 DEF Bytes
  <2>2. IsFiniteSet({}) /\ Cardinality({}) = 0
    BY FS_EmptySet
  <2>3. EntriesOK
    BY <2>1, <2>2 DEF EntriesOK
  <2>4. CacheBounded
    <3>1. Total(cache) = 0 /\ Cardinality(DOMAIN cache) = 0
      BY <2>1, <2>2 DEF Total
    <3>2. 0 <= Capacity /\ 0 <= MaxBytes
      BY DnsAssumption
    <3> QED
      BY <1>7, <3>1, <3>2 DEF CacheBounded
  <2> QED
    BY <1>6, <1>7, <2>3, <2>4 DEF ProxyInv, Stored
<1>8. ASSUME NEW n \in Names, NEW p \in Postures, NEW s \in Sizes,
             cache = [k \in {<<n, p.do, p.cd>>} |->
                        [do |-> p.do, cd |-> p.cd, size |-> s, fresh |-> TRUE]],
             bytes = s, s <= MaxBytes, Capacity # 0
      PROVE  ProxyInv
  <2>1. PICK o \in BOOLEAN, c \in BOOLEAN : o = p.do /\ c = p.cd
    BY DnsAssumption
  <2>2. PICK k, a : k = <<n, o, c>> /\ a = [do |-> o, cd |-> c, size |-> s, fresh |-> TRUE]
    OBVIOUS
  <2>3. /\ k \in Keys /\ k[2] = o /\ k[3] = c
        /\ a \in Answer /\ a.do = o /\ a.cd = c /\ a.size = s /\ s \in Nat
    BY <2>2, DnsAssumption DEF Keys, Answer
  <2>4. DOMAIN cache = {k} /\ cache[k] = a
    BY <1>8, <2>1, <2>2
  <2>5. Bytes(cache) = {k} \X (1 .. s)
    BY <2>3, <2>4 DEF Bytes
  <2>6. IsFiniteSet({k} \X (1 .. s)) /\ Cardinality({k} \X (1 .. s)) = s
    BY <2>3, SlotBytes
  <2>7. IsFiniteSet({k}) /\ Cardinality({k}) = 1
    BY FS_Singleton
  <2>8. EntriesOK
    BY <2>3, <2>4, <2>5, <2>6, <2>7 DEF EntriesOK
  <2>9. 1 <= Capacity
    BY <1>8, DnsAssumption
  <2>10. CacheBounded
    BY <1>8, <2>4, <2>5, <2>6, <2>7, <2>9 DEF CacheBounded, Total
  <2> QED
    BY <1>6, <1>8, <2>3, <2>8, <2>10 DEF ProxyInv, Stored
<1> QED
  BY <1>7, <1>8 DEF ProxyInit

\* Every step preserves it: the queries' part and the cache's.
LEMMA ProxyInvStep == ProxyInv /\ [ProxyNext]_proxyVars => ProxyInv'
<1> SUFFICES ASSUME ProxyInv, [ProxyNext]_proxyVars PROVE ProxyInv'
  OBVIOUS
<1>0. Clients /\ Stored /\ EntriesOK
  BY DEF ProxyInv, Stored
<1>1. ASSUME NEW i \in Queries, RecvUdp(i) \/ Accept(i) \/ Handle(i) \/ Remote(i)
      PROVE  ProxyInv'
  <2>1. Clients'
    BY <1>0, <1>1, RecvUdpServed, AcceptServed, WaitingServed, CutServed, ParseServed,
       DecideServed, LookupServed, ExchangesServed, AnsweredServed, SentServed DEF
       Handle, Remote
  <2>2. CASE Lookup(i)
    BY <1>0, <2>1, <2>2, LookupStored DEF ProxyInv
  <2>3. CASE CacheStore(i)
    BY <1>0, <2>1, <2>3, StoreStored DEF ProxyInv
  <2>4. CASE ~Lookup(i) /\ ~CacheStore(i)
    <3>1. UNCHANGED store
      BY <1>1, <2>4 DEF Handle, Remote, RecvUdp, Accept, Admit, QueueTimeout, Overflow,
         Parse, Decide, ExchangeFails, Send, AgainPlain, AgainTcp, Answered, Cut
    <3> QED
      BY <1>0, <2>1, <3>1, UnchangedStored DEF ProxyInv
  <2> QED
    BY <2>2, <2>3, <2>4
<1>2. ASSUME Clients, UNCHANGED <<client, filter, changes>> PROVE Clients'
  BY <1>2 DEF Clients, client, QueriesOK, QueryOK, Balanced, Owed, Due
<1>3. ASSUME NEW k \in Keys, Expire(k) PROVE ProxyInv'
  <2>1. UNCHANGED <<client, filter, changes>>
    BY <1>3 DEF Expire
  <2> QED
    BY <1>0, <1>2, <1>3, <2>1, ExpireStored DEF ProxyInv
<1>4. CASE UpdateFilter
  <2>1. UNCHANGED store
    BY <1>4 DEF UpdateFilter
  <2> QED
    BY <1>0, <1>4, <2>1, UpdateServed, UnchangedStored DEF ProxyInv
<1>5. CASE UNCHANGED proxyVars
  <2>1. UNCHANGED store /\ UNCHANGED <<client, filter, changes>>
    BY <1>5 DEF proxyVars
  <2> QED
    BY <1>0, <1>2, <2>1, UnchangedStored DEF ProxyInv
<1> QED
  BY <1>1, <1>3, <1>4, <1>5 DEF ProxyNext

\* The strengthened invariant holds in every reachable state.
THEOREM ProxyInvariant == ProxySpec => []ProxyInv
BY ProxyInvInit, ProxyInvStep, PTL DEF ProxySpec

\* Queries, filter, cache and counters keep their types.
THEOREM ProxyTypeCorrect == ProxySpec => []ProxyTypeOK
<1>1. ProxyInv => ProxyTypeOK
  BY DEF ProxyInv, Clients, Stored, QueriesOK, EntriesOK, ProxyTypeOK
<1> QED
  BY <1>1, ProxyInvariant, PTL

\* No name that has been blocked since its query came is answered with data,
\* for any number of queries, filters and cached answers.
THEOREM BlockedIsNotServedHolds == ProxySpec => []BlockedIsNotServed
<1>1. ProxyInv => BlockedIsNotServed
  BY DEF ProxyInv, Clients, QueriesOK, QueryOK, BlockedIsNotServed
<1> QED
  BY <1>1, ProxyInvariant, PTL

\* A hit has the posture of the query it answers.
THEOREM ServedAsAskedHolds == ProxySpec => []ServedAsAsked
<1>1. ProxyInv => ServedAsAsked
  BY DEF ProxyInv, Clients, QueriesOK, QueryOK, ServedAsAsked
<1> QED
  BY <1>1, ProxyInvariant, PTL

\* The running total is the size of the entries, and both bounds of the cache
\* hold, for any sizes, bounds and number of entries.
THEOREM CacheBoundedHolds == ProxySpec => []CacheBounded
<1>1. ProxyInv => CacheBounded
  BY DEF ProxyInv, Stored
<1> QED
  BY <1>1, ProxyInvariant, PTL

\* No query is lost from the counters, however many are under way.
THEOREM AccountedHolds == ProxySpec => []Accounted
<1>1. ProxyInv => Accounted
  <2> SUFFICES ASSUME ProxyInv PROVE Accounted
    OBVIOUS
  <2> DEFINE here == {i \in Queries : q[i].at \in {"decide", "lookup", "udp", "tcp"}}
             ended == {i \in Queries : q[i].end \in {"refused", "cut"}}
  <2>1. Owed = ended \cup here
    BY DEF Owed, Due
  <2>2. ended \cap here = {}
    BY DEF ProxyInv, Clients, QueriesOK, QueryOK
  <2>3. IsFiniteSet(Owed)
    BY DEF ProxyInv, Clients, Balanced
  <2>4. IsFiniteSet(ended) /\ IsFiniteSet(here)
    BY <2>1, <2>3, FS_Subset
  <2>5. /\ Cardinality(Owed) \in Nat /\ Cardinality(ended) \in Nat /\ Cardinality(here) \in Nat
        /\ Cardinality(Owed) = Cardinality(ended) + Cardinality(here)
    <3> HIDE DEF here, ended
    <3> QED
      BY <2>1, <2>2, <2>4, TotalOfParts
  <2>6. counters["queries"] =
          counters["blocked"] + counters["hits"] + counters["forwarded"]
          + counters["errors"] + counters["shed"] + Cardinality(ended) + Cardinality(here)
    <3>1. counters \in [Counted -> Nat]
      BY DEF ProxyInv, Clients
    <3>2. PICK a \in Nat, b \in Nat : a = Cardinality(ended) /\ b = Cardinality(here)
      BY <2>5
    <3>3. Cardinality(Owed) = a + b
      BY <2>5, <3>2
    <3>4. PICK n \in Nat : n = counters["blocked"] + counters["hits"] + counters["forwarded"]
                               + counters["errors"] + counters["shed"]
      BY <3>1 DEF Counted
    <3>5. counters["queries"] = n + (a + b)
      BY <3>3, <3>4 DEF ProxyInv, Clients, Balanced
    <3>6. counters["queries"] = (n + a) + b
      BY <3>5
    <3> QED
      BY <3>2, <3>4, <3>6
  <2> QED
    BY <2>6 DEF Accounted
<1> QED
  BY <1>1, ProxyInvariant, PTL

-----------------------------------------------------------------------------
(* 3. The upstreams.                                                       *)

\* What the task has set is what the proxy uses.
SetIsUsed == current = {} \/ upstreams = current

\* Where nothing is owed to the task (no signal, no missed change) the list it
\* holds or has set is that of the network.
Known ==
  ~signal /\ ~missed /\ Usable(net) # {} =>
    /\ r.at \in {"start", "wait"} => upstreams = Usable(net)
    /\ r.at = "set" => r.found = Usable(net)

\* What is about to be set can be used.
FoundUsable == r.at = "set" => r.found \subseteq Servers /\ r.found # {}

\* Before the task has subscribed there is no signal.
NoSignalBefore == ~subscribed => ~signal
StartUnsubscribed == r.at = "start" => ~subscribed

\* The inductive invariant of the upstreams and their task.
TaskInv ==
  /\ UpstreamsTypeOK /\ FoundUsable /\ SetIsUsed /\ Known
  /\ NoSignalBefore /\ StartUnsubscribed

\* What can be used of a list is servers only.
LEMMA UsableServers ==
  ASSUME NEW list \in Lists PROVE Usable(list) \subseteq Servers /\ Usable(list) \in Lists
BY DEF Usable, Lists

\* Initially the list has been read, and the task has not subscribed.
LEMMA TaskInvInit == UpstreamsInit => TaskInv
<1> SUFFICES ASSUME UpstreamsInit PROVE TaskInv
  OBVIOUS
<1>1. net \in Lists /\ Usable(net) # {}
  BY DEF UpstreamsInit
<1>2. upstreams \subseteq Servers /\ upstreams # {}
  BY <1>1, UsableServers DEF UpstreamsInit
<1>3. r \in [at : {"start", "wait", "settle", "resolve", "set"}, found : Lists]
  <2>1. {} \in Lists
    BY DEF Lists
  <2> QED
    BY <2>1 DEF UpstreamsInit
<1>4. UpstreamsTypeOK
  <2>1. netChanges \in 0 .. MaxNetChanges /\ failures \in 0 .. MaxFailures
    BY UpstreamsAssumption DEF UpstreamsInit
  <2>2. current \subseteq Servers /\ subscribed \in BOOLEAN /\ signal \in BOOLEAN
        /\ missed \in BOOLEAN
    BY DEF UpstreamsInit
  <2> QED
    BY <1>1, <1>2, <1>3, <2>1, <2>2 DEF UpstreamsTypeOK
<1>5. FoundUsable /\ SetIsUsed /\ Known /\ NoSignalBefore /\ StartUnsubscribed
  BY DEF UpstreamsInit, FoundUsable, SetIsUsed, Known, NoSignalBefore, StartUnsubscribed
<1> QED
  BY <1>4, <1>5 DEF TaskInv

\* Every step preserves it.
LEMMA TaskInvStep == TaskInv /\ [UpstreamsNext]_upstreamsVars => TaskInv'
<1> SUFFICES ASSUME TaskInv, [UpstreamsNext]_upstreamsVars PROVE TaskInv'
  OBVIOUS
<1>0. /\ UpstreamsTypeOK /\ FoundUsable /\ SetIsUsed /\ Known
      /\ NoSignalBefore /\ StartUnsubscribed
  BY DEF TaskInv
<1>1. CASE NetChanges
  <2>1. PICK n \in Lists \ {net} : net' = n
    BY <1>1 DEF NetChanges
  <2>2. /\ \/ subscribed /\ signal' = TRUE /\ missed' = missed
           \/ missed' = TRUE /\ signal' = signal
        /\ netChanges' = netChanges + 1
        /\ netChanges < MaxNetChanges
        /\ UNCHANGED <<upstreams, r, current, subscribed, failures>>
    BY <1>1 DEF NetChanges
  <2>3. UpstreamsTypeOK'
    <3>1. subscribed' \in BOOLEAN /\ signal' \in BOOLEAN /\ missed' \in BOOLEAN
      BY <1>0, <2>2 DEF UpstreamsTypeOK
    <3>2. netChanges' \in 0 .. MaxNetChanges
      BY UpstreamsAssumption, <1>0, <2>2 DEF UpstreamsTypeOK
    <3> QED
      BY <1>0, <2>1, <2>2, <3>1, <3>2 DEF UpstreamsTypeOK
  <2>4. FoundUsable' /\ SetIsUsed' /\ NoSignalBefore' /\ StartUnsubscribed'
    BY <1>0, <2>2 DEF FoundUsable, SetIsUsed, NoSignalBefore, StartUnsubscribed
  <2>5. Known'
    BY <2>2 DEF Known
  <2> QED
    BY <2>3, <2>4, <2>5 DEF TaskInv
<1>2. CASE Subscribe
  <2>1. UpstreamsTypeOK'
    BY <1>0, <1>2 DEF UpstreamsTypeOK, Subscribe
  <2>2. FoundUsable' /\ SetIsUsed' /\ Known' /\ NoSignalBefore' /\ StartUnsubscribed'
    BY <1>0, <1>2 DEF UpstreamsTypeOK, Subscribe, FoundUsable, SetIsUsed, Known,
       NoSignalBefore, StartUnsubscribed, Usable
  <2> QED
    BY <2>1, <2>2 DEF TaskInv
<1>3. CASE Signalled \/ Settled
  <2>1. UpstreamsTypeOK'
    BY <1>0, <1>3 DEF UpstreamsTypeOK, Signalled, Settled
  <2>2. FoundUsable' /\ SetIsUsed' /\ Known' /\ NoSignalBefore' /\ StartUnsubscribed'
    BY <1>0, <1>3 DEF UpstreamsTypeOK, Signalled, Settled, FoundUsable, SetIsUsed,
       Known, NoSignalBefore, StartUnsubscribed
  <2> QED
    BY <2>1, <2>2 DEF TaskInv
<1>4. CASE Poll
  <2>1. UpstreamsTypeOK'
    BY <1>0, <1>4 DEF UpstreamsTypeOK, Poll
  <2>2. FoundUsable' /\ SetIsUsed' /\ Known' /\ NoSignalBefore' /\ StartUnsubscribed'
    BY <1>0, <1>4 DEF UpstreamsTypeOK, Poll, FoundUsable, SetIsUsed, Known,
       NoSignalBefore, StartUnsubscribed
  <2> QED
    BY <2>1, <2>2 DEF TaskInv
<1>5. CASE Resolve
  <2>0. UNCHANGED <<net, upstreams, current, subscribed, signal, netChanges>>
    BY <1>5 DEF Resolve
  <2>1. Usable(net) \subseteq Servers /\ Usable(net) \in Lists
    BY <1>0, UsableServers DEF UpstreamsTypeOK
  <2>2. \/ r' = [r EXCEPT !.at = "wait"] /\ missed' = TRUE
           /\ failures' \in 0 .. MaxFailures
        \/ r' = [r EXCEPT !.at = "wait"] /\ missed' = FALSE /\ failures' = failures
           /\ Usable(net) # {} /\ Usable(net) = current
        \/ r' = [at |-> "set", found |-> Usable(net)] /\ missed' = FALSE
           /\ failures' = failures /\ Usable(net) # {}
    BY UpstreamsAssumption, <1>0, <1>5 DEF Resolve, UpstreamsTypeOK
  <2>3. r' \in [at : {"start", "wait", "settle", "resolve", "set"}, found : Lists]
    BY <1>0, <2>1, <2>2 DEF UpstreamsTypeOK
  <2>4. UpstreamsTypeOK'
    BY <1>0, <2>0, <2>2, <2>3 DEF UpstreamsTypeOK
  <2>5. FoundUsable' /\ SetIsUsed' /\ NoSignalBefore' /\ StartUnsubscribed'
    BY <1>0, <2>0, <2>1, <2>2 DEF UpstreamsTypeOK, FoundUsable, SetIsUsed,
       NoSignalBefore, StartUnsubscribed
  <2>6. Known'
    BY <1>0, <2>0, <2>1, <2>2 DEF UpstreamsTypeOK, Known, SetIsUsed, Usable
  <2> QED
    BY <2>4, <2>5, <2>6 DEF TaskInv
<1>6. CASE SetUpstreams
  <2>1. UpstreamsTypeOK'
    BY <1>0, <1>6 DEF UpstreamsTypeOK, SetUpstreams, FoundUsable, Lists
  <2>2. FoundUsable' /\ SetIsUsed' /\ Known' /\ NoSignalBefore' /\ StartUnsubscribed'
    BY <1>0, <1>6 DEF UpstreamsTypeOK, SetUpstreams, FoundUsable, SetIsUsed, Known,
       NoSignalBefore, StartUnsubscribed, Usable
  <2> QED
    BY <2>1, <2>2 DEF TaskInv
<1>7. CASE UNCHANGED upstreamsVars
  BY <1>0, <1>7 DEF TaskInv, UpstreamsTypeOK, FoundUsable, SetIsUsed, Known,
     NoSignalBefore, StartUnsubscribed, Usable, upstreamsVars
<1> QED
  BY <1>1, <1>2, <1>3, <1>4, <1>5, <1>6, <1>7 DEF UpstreamsNext, Task

\* The strengthened invariant holds in every reachable state.
THEOREM TaskInvariant == UpstreamsSpec => []TaskInv
BY TaskInvInit, TaskInvStep, PTL DEF UpstreamsSpec

\* The list, the task and its channel keep their types; the proxy is never its
\* own upstream and never without one.
THEOREM UpstreamsTypeCorrect == UpstreamsSpec => []UpstreamsTypeOK
<1>1. TaskInv => UpstreamsTypeOK
  BY DEF TaskInv
<1> QED
  BY <1>1, TaskInvariant, PTL

\* No wakeup of the refresh task is lost, for any servers, changes and failures.
THEOREM AsleepIsCurrentHolds == UpstreamsSpec => []AsleepIsCurrent
<1>1. TaskInv => AsleepIsCurrent
  BY DEF TaskInv, Known, AsleepIsCurrent
<1> QED
  BY <1>1, TaskInvariant, PTL

=============================================================================
