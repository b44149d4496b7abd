-------------------------------- MODULE DnsProxy --------------------------------
(***************************************************************************)
(* The DNS proxy of dnsguard: every query of the machine goes through it.  *)
(*                                                                         *)
(*   - udp_loop and tcp_loop with their permits, and what they do when     *)
(*     there is none: shed over UDP, queue and then SERVFAIL over TCP;     *)
(*   - handle_query: the canary, the filter, the cache, the upstream       *)
(*     exchanges with their fallbacks (without EDNS, over TCP), the store; *)
(*   - the filter engine, replaced while queries run.                      *)
(*                                                                         *)
(* A query is served by a task of its own, on any thread; the filter and   *)
(* the cache each have a lock, held for one step here. A connection may    *)
(* carry more queries, one after the other: the model follows one. An      *)
(* answer is what the cache and the client tell apart of it.               *)
(***************************************************************************)
EXTENDS Naturals, FiniteSets, Functions

CONSTANTS
  Queries,      \* the queries, each asked at most once
  Names,        \* the names they ask for
  Postures,     \* [edns, do, cd] of a query
  Sizes,        \* sizes of the answers
  MaxInFlight,  \* max_in_flight, the UDP permits
  MaxConns,     \* tcp_max_connections
  MaxQueued,    \* tcp_max_queued
  Capacity,     \* cache_capacity
  MaxBytes,     \* CACHE_MAX_BYTES
  MaxChanges,   \* bound on updates of the filter
  NoName

ASSUME DnsAssumption ==
  /\ Postures \subseteq [edns : BOOLEAN, do : BOOLEAN, cd : BOOLEAN]
  /\ \A p \in Postures : p.do => p.edns
  /\ Sizes \subseteq Nat \ {0}
  /\ {MaxInFlight, MaxConns, MaxQueued, Capacity, MaxBytes, MaxChanges} \subseteq Nat
  /\ NoName \notin Names

VARIABLES
  q,        \* the queries
  filter,   \* the names the engine blocks
  cache,    \* the answers kept, by name and posture bits
  bytes,    \* the running total of their sizes
  counters, \* Counters
  changes   \* updates of the filter so far

client == <<q, counters>>
store == <<cache, bytes>>
proxyVars == <<client, store, filter, changes>>

Keys == Names \X BOOLEAN \X BOOLEAN       \* name, DO, CD
Answer == [do : BOOLEAN, cd : BOOLEAN, size : Sizes, fresh : BOOLEAN]
NoAnswer == [do |-> FALSE, cd |-> FALSE, size |-> 0, fresh |-> FALSE]
Counted == {"queries", "blocked", "hits", "forwarded", "errors", "shed",
            "canary", "pool_full"}

Points == {"idle", "queue", "overflow", "parse", "decide", "lookup",
           "udp", "tcp", "store", "reply", "done"}
\* How a query was answered, or left without an answer.
Ends == {"none", "data", "hit", "blocked", "canary", "refused", "servfail", "shed",
         "full", "closed", "cut"}

\* barred: the name has been blocked ever since the query came.
\* plain: the exchange under way carries no OPT.
Query == [at : Points, via_tcp : BOOLEAN, kind : {"name", "canary", "refused"},
          name : Names \cup {NoName}, edns : BOOLEAN, do : BOOLEAN, cd : BOOLEAN,
          barred : BOOLEAN, plain : BOOLEAN,
          ans : Answer \cup {NoAnswer}, end : Ends]
Fresh == [at |-> "idle", via_tcp |-> FALSE, kind |-> "name", name |-> NoName,
          edns |-> FALSE, do |-> FALSE, cd |-> FALSE, barred |-> FALSE,
          plain |-> FALSE, ans |-> NoAnswer, end |-> "none"]

ProxyTypeOK ==
  /\ q \in [Queries -> Query]
  /\ filter \subseteq Names
  /\ DOMAIN cache \subseteq Keys /\ \A k \in DOMAIN cache : cache[k] \in Answer
  /\ bytes \in Nat
  /\ counters \in [Counted -> Nat]
  /\ changes \in 0 .. MaxChanges

\* Earlier queries may have left an entry.
ProxyInit ==
  /\ q = [i \in Queries |-> Fresh]
  /\ filter = {}
  /\ \/ cache = << >> /\ bytes = 0
     \/ \E n \in Names, p \in Postures, s \in Sizes :
          /\ cache = [k \in {<<n, p.do, p.cd>>} |->
                        [do |-> p.do, cd |-> p.cd, size |-> s, fresh |-> TRUE]]
          /\ bytes = s /\ s <= MaxBytes /\ Capacity # 0
  /\ counters = [c \in Counted |-> 0]
  /\ changes = 0

-----------------------------------------------------------------------------
(* Permits.                                                                *)

Permitted == {"parse", "decide", "lookup", "udp", "tcp", "store", "reply"}
InFlight == {i \in Queries : q[i].at \in Permitted /\ ~q[i].via_tcp}
Conns == {i \in Queries : q[i].at \in Permitted /\ q[i].via_tcp}

\* The queue slot is given back when the permit is acquired.
Waiters == {i \in Queries : q[i].at = "queue"}

Bump(names) ==
  counters' = [c \in Counted |-> counters[c] + (IF c \in names THEN 1 ELSE 0)]

\* A query that is answered or given up here goes no further: only its end is kept.
Over(end) == [Fresh EXCEPT !.at = "done", !.end = end]
Finish(i, end) == q' = [q EXCEPT ![i] = Over(end)]
Reply(i, end) == q' = [q EXCEPT ![i].at = "reply", ![i].end = end]

-----------------------------------------------------------------------------
(* The listeners.                                                          *)

\* A query of one of the three kinds handle_query tells apart comes in.
NameAsked(tcp, n, p) ==
  [Fresh EXCEPT !.via_tcp = tcp, !.name = n, !.edns = p.edns, !.do = p.do, !.cd = p.cd,
                !.barred = n \in filter]
OtherAsked(tcp, k) == [Fresh EXCEPT !.via_tcp = tcp, !.kind = k]
Asked(tcp) == {NameAsked(tcp, n, p) : n \in Names, p \in Postures}
              \cup {OtherAsked(tcp, k) : k \in {"canary", "refused"}}

\* udp_loop: a permit, or SERVFAIL at once. Both counters move, the canary's
\* query included.
RecvUdp(i) ==
  /\ q[i].at = "idle"
  /\ \E new \in Asked(FALSE) :
       \/ /\ Cardinality(InFlight) < MaxInFlight
          /\ q' = [q EXCEPT ![i] = [new EXCEPT !.at = "parse"]]
          /\ UNCHANGED counters
       \/ /\ Cardinality(InFlight) >= MaxInFlight
          /\ q' = [q EXCEPT ![i] = Over("shed")]
          /\ Bump({"shed", "queries"})
  /\ UNCHANGED <<store, filter, changes>>

\* tcp_loop: a slot of the queue, or the connection is closed and counted.
Accept(i) ==
  /\ q[i].at = "idle"
  /\ \E new \in Asked(TRUE) :
       \/ /\ Cardinality(Waiters) < MaxQueued
          /\ q' = [q EXCEPT ![i] = [new EXCEPT !.at = "queue"]]
          /\ UNCHANGED counters
       \/ /\ Cardinality(Waiters) >= MaxQueued
          /\ q' = [q EXCEPT ![i] = Over("closed")]
          /\ Bump({"pool_full"})
  /\ UNCHANGED <<store, filter, changes>>

\* A permit is free (the semaphore is first come, first served).
Admit(i) ==
  /\ q[i].at = "queue" /\ Cardinality(Conns) < MaxConns
  /\ q' = [q EXCEPT ![i].at = "parse", ![i].barred = q[i].name \in filter]
  /\ UNCHANGED <<counters, store, filter, changes>>

\* tcp_queue_timeout passes without one; serve_overflow_servfail follows.
QueueTimeout(i) ==
  /\ q[i].at = "queue" /\ Cardinality(Conns) >= MaxConns
  /\ q' = [q EXCEPT ![i].at = "overflow"]
  /\ Bump({"pool_full"})
  /\ UNCHANGED <<store, filter, changes>>

Overflow(i) ==
  /\ q[i].at = "overflow"
  /\ Finish(i, "full")
  /\ UNCHANGED <<counters, store, filter, changes>>

\* tcp_conn: the lifetime of the connection is over in the middle of a query.
Cut(i) ==
  /\ q[i].via_tcp /\ q[i].at \in {"udp", "tcp"}
  /\ Finish(i, "cut")
  /\ UNCHANGED <<counters, store, filter, changes>>

-----------------------------------------------------------------------------
(* handle_query.                                                           *)

\* Mutant: the canary is a query of a user.
ParseCountsCanary(i) ==
  /\ q[i].at = "parse"
  /\ \/ q[i].kind = "refused" /\ Bump({"queries"}) /\ Reply(i, "refused")
     \/ q[i].kind = "canary" /\ Bump({"canary", "queries"}) /\ Reply(i, "canary")
     \/ /\ q[i].kind = "name" /\ Bump({"queries"})
        /\ q' = [q EXCEPT ![i].at = "decide"]
  /\ UNCHANGED <<store, filter, changes>>

\* The kinds that never reach the filter.
Parse(i) ==
  /\ q[i].at = "parse"
  /\ \/ q[i].kind = "refused" /\ Bump({"queries"}) /\ Reply(i, "refused")
     \/ q[i].kind = "canary" /\ Bump({"canary"}) /\ Reply(i, "canary")
     \/ /\ q[i].kind = "name" /\ Bump({"queries"})
        /\ q' = [q EXCEPT ![i].at = "decide"]
  /\ UNCHANGED <<store, filter, changes>>

\* Mutant: the cache is asked before the filter.
DecideAfterCache(i) ==
  /\ q[i].at = "decide"
  /\ \/ /\ q[i].name \in filter /\ <<q[i].name, q[i].do, q[i].cd>> \notin DOMAIN cache
        /\ Bump({"blocked"}) /\ Reply(i, "blocked")
     \/ /\ q[i].name \notin filter \/ <<q[i].name, q[i].do, q[i].cd>> \in DOMAIN cache
        /\ UNCHANGED counters
        /\ q' = [q EXCEPT ![i].at = "lookup"]
  /\ UNCHANGED <<store, filter, changes>>

Decide(i) ==
  /\ q[i].at = "decide"
  /\ \/ q[i].name \in filter /\ Bump({"blocked"}) /\ Reply(i, "blocked")
     \/ /\ q[i].name \notin filter /\ UNCHANGED counters
        /\ q' = [q EXCEPT ![i].at = "lookup"]
  /\ UNCHANGED <<store, filter, changes>>

\* forward: the first exchange, over the transport of the client.
Exchange(query) ==
  [query EXCEPT !.at = IF query.via_tcp THEN "tcp" ELSE "udp"]

\* Mutant: an expired entry gives its bytes back and stays for the next purge.
LookupLeavesExpired(i) ==
  LET k == <<q[i].name, q[i].do, q[i].cd>> IN
  /\ q[i].at = "lookup" /\ k \in DOMAIN cache /\ ~cache[k].fresh
  /\ bytes' = bytes - cache[k].size
  /\ q' = [q EXCEPT ![i] = Exchange(@)]
  /\ UNCHANGED <<cache, counters, filter, changes>>

\* cache_get: a fresh entry, or the removal of an expired one.
Lookup(i) ==
  LET k == <<q[i].name, q[i].do, q[i].cd>> IN
  /\ q[i].at = "lookup"
  /\ \/ /\ k \in DOMAIN cache /\ cache[k].fresh
        /\ q' = [q EXCEPT ![i].at = "reply", ![i].end = "hit", ![i].ans = cache[k]]
        /\ Bump({"hits"})
        /\ UNCHANGED store
     \/ /\ k \in DOMAIN cache /\ ~cache[k].fresh
        /\ cache' = Restrict(cache, DOMAIN cache \ {k})
        /\ bytes' = bytes - cache[k].size
        /\ q' = [q EXCEPT ![i] = Exchange(@)]
        /\ UNCHANGED counters
     \/ /\ k \notin DOMAIN cache
        /\ q' = [q EXCEPT ![i] = Exchange(@)]
        /\ UNCHANGED <<store, counters>>
  /\ UNCHANGED <<filter, changes>>

\* Mutant: an exchange over TCP has no deadline.
ExchangeUnbounded(i) ==
  /\ q[i].at = "udp"
  /\ Bump({"errors"}) /\ Reply(i, "servfail")
  /\ UNCHANGED <<store, filter, changes>>

\* An exchange fails: the deadline, the transport, or an answer that does not
\* match the question.
ExchangeFails(i) ==
  /\ q[i].at \in {"udp", "tcp"}
  /\ Bump({"errors"}) /\ Reply(i, "servfail")
  /\ UNCHANGED <<store, filter, changes>>

\* FORMERR to a query with an OPT: once more without it, over the same transport.
AgainPlain(i) ==
  /\ q[i].at \in {"udp", "tcp"} /\ q[i].edns /\ ~q[i].plain
  /\ q' = [q EXCEPT ![i].plain = TRUE]
  /\ UNCHANGED <<counters, store, filter, changes>>

\* A truncated answer over UDP: the same question over TCP.
AgainTcp(i) ==
  /\ q[i].at = "udp"
  /\ q' = [q EXCEPT ![i].at = "tcp"]
  /\ UNCHANGED <<counters, store, filter, changes>>

\* An answer for the client; a query without an OPT asks for no signatures.
Answered(i) ==
  /\ q[i].at \in {"udp", "tcp"}
  /\ \E s \in Sizes, cacheable \in BOOLEAN :
       q' = [q EXCEPT ![i].at = "store", ![i].ans =
               [do |-> q[i].do /\ ~q[i].plain, cd |-> q[i].cd, size |-> s,
                fresh |-> cacheable]]
  /\ Bump({"forwarded"})
  /\ UNCHANGED <<store, filter, changes>>

\* Mutant: the answer goes to the slot of the question.
SlotOfQuestion(i) == <<q[i].name, q[i].do, q[i].cd>>

\* The slot of an answer fetched without the OPT is that of DO = 0.
Slot(i) == <<q[i].name, q[i].do /\ ~q[i].plain, q[i].cd>>

SizeAt(c, k) == IF k \in DOMAIN c THEN c[k].size ELSE 0

\* The sizes of the entries, summed: every byte of every entry, counted.
Bytes(c) == UNION {{k} \X (1 .. c[k].size) : k \in DOMAIN c}
Total(c) == Cardinality(Bytes(c))

Fits(c, total, k, size) ==
  /\ Cardinality(DOMAIN c) < Capacity
  /\ total - SizeAt(c, k) + size <= MaxBytes

\* Mutant: the bytes of the entry that is replaced are not given back.
InsertOver(c, total, k, ans) ==
  /\ cache' = [x \in DOMAIN c \cup {k} |-> IF x = k THEN ans ELSE c[x]]
  /\ bytes' = total + ans.size

\* ResponseCache::insert.
Insert(c, total, k, ans) ==
  /\ cache' = [x \in DOMAIN c \cup {k} |-> IF x = k THEN ans ELSE c[x]]
  /\ bytes' = total + ans.size - SizeAt(c, k)

\* ResponseCache::purge_expired.
Purged == Restrict(cache, {k \in DOMAIN cache : cache[k].fresh})
Expired == Restrict(cache, {k \in DOMAIN cache : ~cache[k].fresh})
PurgedBytes == bytes - Total(Expired)

\* cache_store: where there is no room even without the expired entries, the
\* answer is not kept. An error or an answer without a TTL never is.
CacheStore(i) ==
  LET k == Slot(i) a == q[i].ans IN
  /\ q[i].at = "store"
  /\ \/ ~a.fresh /\ UNCHANGED store
     \/ a.fresh /\ Fits(cache, bytes, k, a.size) /\ Insert(cache, bytes, k, a)
     \/ /\ a.fresh /\ ~Fits(cache, bytes, k, a.size)
        /\ \/ /\ Fits(Purged, PurgedBytes, k, a.size)
              /\ Insert(Purged, PurgedBytes, k, a)
           \/ /\ ~Fits(Purged, PurgedBytes, k, a.size)
              /\ cache' = Purged /\ bytes' = PurgedBytes
  /\ Reply(i, "data")
  /\ UNCHANGED <<counters, filter, changes>>

\* The reply is sent and the permit released.
Send(i) ==
  /\ q[i].at = "reply"
  /\ Finish(i, q[i].end)
  /\ UNCHANGED <<counters, store, filter, changes>>

-----------------------------------------------------------------------------
(* Time and the filter.                                                    *)

Expire(k) ==
  /\ k \in DOMAIN cache /\ cache[k].fresh
  /\ cache' = [cache EXCEPT ![k].fresh = FALSE]
  /\ UNCHANGED <<client, bytes, filter, changes>>

\* The engine is replaced under its lock.
UpdateFilter ==
  /\ changes < MaxChanges /\ changes' = changes + 1
  /\ \E blocked \in SUBSET Names :
       /\ blocked # filter /\ filter' = blocked
       /\ q' = [i \in Queries |->
                  [q[i] EXCEPT !.barred = @ /\ q[i].name \in blocked]]
  /\ UNCHANGED <<counters, store>>

-----------------------------------------------------------------------------
\* What the proxy does by itself, and what it owes to an upstream or to the clock
\* of a connection.
Handle(i) ==
  \/ Admit(i) \/ QueueTimeout(i) \/ Overflow(i) \/ Parse(i) \/ Decide(i) \/ Lookup(i)
  \/ ExchangeFails(i) \/ CacheStore(i) \/ Send(i)
Remote(i) == AgainPlain(i) \/ AgainTcp(i) \/ Answered(i) \/ Cut(i)

ProxyNext ==
  \/ \E i \in Queries : RecvUdp(i) \/ Accept(i) \/ Handle(i) \/ Remote(i)
  \/ \E k \in Keys : Expire(k)
  \/ UpdateFilter

\* The tasks run and the timers fire, that of an exchange included. Nobody owes a
\* query, an answer or a change.
ProxySpec == /\ ProxyInit /\ [][ProxyNext]_proxyVars
             /\ \A i \in Queries : WF_proxyVars(Handle(i))

-----------------------------------------------------------------------------
(* Properties.                                                             *)

\* A name that has been blocked since the query came is never answered with
\* data, however much of it the cache holds and whoever put it there.
BlockedIsNotServed ==
  \A i \in Queries :
    q[i].at = "reply" /\ q[i].end \in {"data", "hit"} => ~q[i].barred

\* A hit was fetched with the posture of the query it answers: a client that
\* validates never gets, from the cache, what another query had to fetch without
\* signatures, nor an answer that no upstream has checked for it.
ServedAsAsked ==
  \A i \in Queries :
    q[i].at = "reply" /\ q[i].end = "hit" =>
      q[i].ans.do = q[i].do /\ q[i].ans.cd = q[i].cd

\* The running total is the size of the entries, whatever replaces, expires and
\* purges them, and both bounds of the cache hold.
CacheBounded ==
  /\ bytes = Total(cache) /\ bytes <= MaxBytes
  /\ Cardinality(DOMAIN cache) <= Capacity

\* No query is lost from the counters: each one counted is blocked, a hit,
\* forwarded, an error, shed, refused, cut off or still under way.
Accounted ==
  LET Here(S) == Cardinality({i \in Queries : q[i].at \in S})
      Ended(S) == Cardinality({i \in Queries : q[i].end \in S})
  IN counters["queries"] =
       counters["blocked"] + counters["hits"] + counters["forwarded"]
       + counters["errors"] + counters["shed"] + Ended({"refused", "cut"})
       + Here({"decide", "lookup", "udp", "tcp"})

\* Every query ends, though an upstream never answers.
EveryQueryEnds ==
  \A i \in Queries : (q[i].at # "idle") ~> (q[i].at = "done")

=============================================================================
