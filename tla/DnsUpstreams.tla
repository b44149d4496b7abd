------------------------------ MODULE DnsUpstreams ------------------------------
(***************************************************************************)
(* The upstream list of the DNS proxy and the task of the web protection   *)
(* service that keeps it equal to what the network adapters report.        *)
(*                                                                         *)
(* The list is discovered once when the service starts, the self-test runs *)
(* over it, and only then does the task subscribe to interface changes. A  *)
(* change is a signal on a channel of one; the task waits for the burst to *)
(* settle, drains the channel, discovers and sets. A poll backs it up.     *)
(***************************************************************************)
EXTENDS Naturals

CONSTANTS
  Servers,       \* resolvers of the adapters
  Self,          \* the address the proxy listens on
  MaxNetChanges, \* bound on changes of the network
  MaxFailures    \* bound on failed enumerations of the adapters

ASSUME UpstreamsAssumption ==
  Self \notin Servers /\ MaxNetChanges \in Nat /\ MaxFailures \in Nat

VARIABLES
  net,        \* the resolvers the adapters report
  upstreams,  \* State.upstreams of the proxy
  r,          \* the task: where it is, what it discovered
  current,    \* the list the task set last
  subscribed, \* interface changes are delivered
  signal,     \* the channel holds a signal
  missed,     \* a change nobody was told of, or a discovery that failed, since
              \* the last one that succeeded (history)
  netChanges, failures

upstreamsVars == <<net, upstreams, r, current, subscribed, signal, missed, netChanges,
                   failures>>

Lists == SUBSET (Servers \cup {Self})

UpstreamsTypeOK ==
  /\ net \in Lists
  /\ upstreams \subseteq Servers /\ upstreams # {}
  /\ r \in [at : {"start", "wait", "settle", "resolve", "set"}, found : Lists]
  /\ current \subseteq Servers
  /\ subscribed \in BOOLEAN /\ signal \in BOOLEAN /\ missed \in BOOLEAN
  /\ netChanges \in 0 .. MaxNetChanges /\ failures \in 0 .. MaxFailures

\* is_self_referential: the proxy never forwards to itself.
Usable(list) == list \ {Self}

\* The service has discovered its upstreams and bound the proxy.
UpstreamsInit ==
  /\ net \in {n \in Lists : Usable(n) # {}} /\ upstreams = Usable(net)
  /\ r = [at |-> "start", found |-> {}] /\ current = {}
  /\ subscribed = FALSE /\ signal = FALSE /\ missed = FALSE
  /\ netChanges = 0 /\ failures = 0

\* The interface that changed is told of by on_interface_change: try_send; a full
\* channel already holds the signal. Nobody is told before the subscription, nor
\* of a rewrite of the DNS servers alone, which changes no interface.
NetChanges ==
  /\ netChanges < MaxNetChanges /\ netChanges' = netChanges + 1
  /\ \E n \in Lists \ {net} : net' = n
  /\ \/ subscribed /\ signal' = TRUE /\ UNCHANGED missed
     \/ missed' = TRUE /\ UNCHANGED signal
  /\ UNCHANGED <<upstreams, r, current, subscribed, failures>>

\* The task starts after the self-test; without a subscription it only polls.
Subscribe ==
  /\ r.at = "start"
  /\ r' = [r EXCEPT !.at = "wait"]
  /\ subscribed' \in BOOLEAN
  /\ UNCHANGED <<net, upstreams, current, signal, missed, netChanges, failures>>

Signalled ==
  /\ r.at = "wait" /\ signal
  /\ signal' = FALSE /\ r' = [r EXCEPT !.at = "settle"]
  /\ UNCHANGED <<net, upstreams, current, subscribed, missed, netChanges, failures>>

\* CHANGE_SETTLE is over: what came meanwhile is part of the burst.
Settled ==
  /\ r.at = "settle"
  /\ signal' = FALSE /\ r' = [r EXCEPT !.at = "resolve"]
  /\ UNCHANGED <<net, upstreams, current, subscribed, missed, netChanges, failures>>

\* FALLBACK_REFRESH_INTERVAL.
Poll ==
  /\ r.at = "wait"
  /\ r' = [r EXCEPT !.at = "resolve"]
  /\ UNCHANGED <<net, upstreams, current, subscribed, signal, missed, netChanges, failures>>

\* resolve: a failure, or nothing but the proxy, keeps the list; so does a list
\* equal to the one set last.
Resolve ==
  /\ r.at = "resolve"
  /\ \/ /\ failures < MaxFailures /\ failures' = failures + 1
        /\ r' = [r EXCEPT !.at = "wait"] /\ missed' = TRUE
     \/ /\ Usable(net) = {}
        /\ r' = [r EXCEPT !.at = "wait"] /\ missed' = TRUE /\ UNCHANGED failures
     \/ /\ Usable(net) # {} /\ Usable(net) = current
        /\ r' = [r EXCEPT !.at = "wait"] /\ missed' = FALSE /\ UNCHANGED failures
     \/ /\ Usable(net) \notin {{}, current}
        /\ r' = [at |-> "set", found |-> Usable(net)]
        /\ missed' = FALSE /\ UNCHANGED failures
  /\ UNCHANGED <<net, upstreams, current, subscribed, signal, netChanges>>

\* Mutant: the signals are drained with the list in hand.
SetThenDrain ==
  /\ r.at = "set"
  /\ upstreams' = r.found /\ current' = r.found /\ signal' = FALSE
  /\ r' = [at |-> "wait", found |-> {}]
  /\ UNCHANGED <<net, subscribed, missed, netChanges, failures>>

\* Mutant: the discovered servers are added to the list.
SetExtends ==
  /\ r.at = "set"
  /\ upstreams' = upstreams \cup r.found /\ current' = r.found
  /\ r' = [at |-> "wait", found |-> {}]
  /\ UNCHANGED <<net, subscribed, signal, missed, netChanges, failures>>

\* UpstreamsHandle::set.
SetUpstreams ==
  /\ r.at = "set"
  /\ upstreams' = r.found /\ current' = r.found
  /\ r' = [at |-> "wait", found |-> {}]
  /\ UNCHANGED <<net, subscribed, signal, missed, netChanges, failures>>

Task == Subscribe \/ Signalled \/ Settled \/ Poll \/ Resolve \/ SetUpstreams

UpstreamsNext == NetChanges \/ Task

\* The task runs, its sleep and its poll end; the network owes no change.
UpstreamsSpec == UpstreamsInit /\ [][UpstreamsNext]_upstreamsVars /\ WF_upstreamsVars(Task)

-----------------------------------------------------------------------------
(* Properties.                                                             *)

\* No wakeup is lost: while the task sleeps with an empty channel, the list is
\* that of the network, whatever changed during the settling, the discovery and
\* the update; but for a change before the subscription, a rewrite of the DNS
\* servers alone and a discovery that failed or found nothing to use, which wait
\* for the poll.
AsleepIsCurrent ==
  r.at = "wait" /\ subscribed /\ ~signal /\ ~missed /\ Usable(net) # {} =>
    upstreams = Usable(net)

\* And these too are made good: once the network is quiet the proxy asks its
\* resolvers and no other.
UpstreamsFollow ==
  <>[](Usable(net) # {} => upstreams = Usable(net))

=============================================================================
