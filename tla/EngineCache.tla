----------------------------- MODULE EngineCache -----------------------------
(***************************************************************************)
(* The signature engine of sentinelld, its hot reload (reload_engine in    *)
(* ipc/state.rs) and the scan cache that remembers which files it found    *)
(* clean (scan/cache.rs).                                                  *)
(*                                                                         *)
(* A cache entry is good for as long as its generation is the current one. *)
(* A reload opens a new generation; so does a start that finds another     *)
(* signature fingerprint than the last start left in the cache's database, *)
(* which a thread of its own writes from a bounded queue.  The cache's     *)
(* lock covers one access; a scan keeps the engine it was given.           *)
(*                                                                         *)
(* Abstraction.  A signature set is a number, later sets are greater; two  *)
(* sets may have one fingerprint.  A file does not change: a               *)
(* changed one is another member of Files.  Only the entries that say      *)
(* clean are kept, since no other is ever used.  Eviction is left out, and *)
(* so is the realtime watcher, which has a cache of its own (Watcher).     *)
(***************************************************************************)
EXTENDS Naturals, Sequences

CONSTANTS
    Files,
    MaxSet,     \* signature sets are 1 .. MaxSet
    Fingerprint,  \* of a set that is loaded: the lengths and times of the
                \* files of an enhanced provider, and a count of signatures
    Walks,      \* scan jobs: each takes the engine when it starts
    Idle,       \* idle and start-up scanner: take the engine once per start
    Reloaders,  \* callers of reload_engine: engine.reload, update.start
    QueueCap,   \* DB_WRITE_QUEUE_CAP
    MaxGen,     \* bound on generations
    None

Sets  == 1 .. MaxSet
Scanners == Walks \cup Idle

ASSUME EngineCacheAssumption ==
    /\ {MaxSet, QueueCap} \subseteq Nat \ {0}
    /\ MaxGen \in Nat \ {0, 1}     \* the first start opens generation 2
    /\ Fingerprint \in [Sets -> Nat]
    /\ Walks \cap Idle = {}
    /\ None \notin Nat \cup Files \cup Scanners

VARIABLES
    sigs,       \* the signature set on disk
    engine,     \* EngineSnapshot.engine: its set, None without an engine
    reloading,  \* ENGINE_RELOAD_IN_PROGRESS
    rpc, loaded, \* reload calls: how far, and the set of the new engine
    gen,        \* CacheInner.sig_generation
    entries,    \* CacheInner.entries
    queue,      \* db_tx: writes on their way to the database
    dbGen, dbFp, rows,  \* the database: cache_meta and scan_cache; dbFp is the
                        \* set whose fingerprint is stored, 0 for none
    pc, held, file, out,  \* scanners: how far, their engine, the file, the
                          \* write they are about to send
    \* history, read by the properties only
    meant, dbMeant, \* the set that gen, and dbGen, was opened for; one that
                    \* was opened without an engine goes to the first engine
    mishaps     \* "lost": a generation write was dropped or failed;
                \* "overtaken": a record was sent before its generation was;
                \* "rollback": an older set came back to the disk;
                \* "alike": a start took a set for another of its fingerprint;
                \* "renumbered": a start could not read the generation

engineVars  == <<engine, reloading, rpc, loaded>>
cacheVars   == <<gen, entries, meant>>
dbVars      == <<dbGen, dbFp, rows, dbMeant>>
scannerVars == <<pc, held, file, out>>
vars == <<sigs, engineVars, cacheVars, queue, dbVars, scannerVars, mishaps>>

\* "Clean", recorded under this generation: found with this set, None if the
\* engine has not found it clean, and late if it was not that generation's.
Entry == [set : Sets \cup {None}, gen : Nat, meant : Sets, late : BOOLEAN]

Write == [type : {"generation"}, gen : Nat, meant : Sets \cup {None}]
         \cup [type : {"fingerprint"}, fp : Sets \cup {None}]
         \cup [type : {"record"}, file : Files, entry : Entry \cup {None}]

\* check_with_metadata answers "clean".
Hit(f) == entries[f] # None /\ entries[f].gen = gen

\* Mutant: the channel has no bound.
SentOverCap(q, w) == Append(q, w)

\* try_send on the bounded channel.
Sent(q, w) == IF Len(q) < QueueCap THEN Append(q, w) ELSE q
Dropped(q) == Len(q) >= QueueCap

GenerationWrite(g, s) == [type |-> "generation", gen |-> g, meant |-> s]
FingerprintWrite(s)   == [type |-> "fingerprint", fp |-> s]

-----------------------------------------------------------------------------
(* A start of the service: AppState::new.  The engine is loaded or not     *)
(* (its fingerprint then counts no signatures: None), the cache comes from *)
(* the database, and sync_signature_fingerprint compares the fingerprints. *)

\* Mutant: the fingerprint is stored before the generation.
SyncWritesSwapped(g, s) ==
    Sent(Sent(<<>>, FingerprintWrite(s)), GenerationWrite(g, s))

\* The writes of a start that finds another fingerprint.
SyncWrites(g, s) ==
    Sent(Sent(<<>>, GenerationWrite(g, s)), FingerprintWrite(s))

\* load_from_db selects the rows of the generation it has read.
Loaded(f, g) == IF rows[f] # None /\ rows[f].gen = g THEN rows[f] ELSE None

\* The fingerprints are equal; without an engine the count is 0.
SameFingerprint(fp, s) ==
    \/ fp = s
    \/ fp \in Sets /\ s \in Sets /\ Fingerprint[fp] = Fingerprint[s]

\* The start has read generation g, fingerprint fp and the rows of some files.
StartService(s, g, fp, read) ==
    /\ engine' = s
    /\ entries' = [f \in Files |-> IF f \in read THEN Loaded(f, g) ELSE None]
    /\ \/ /\ SameFingerprint(fp, s)
          /\ gen' = g
          /\ meant' = IF dbMeant = None THEN s ELSE dbMeant
          /\ queue' = <<>>
       \/ /\ s = None \/ ~SameFingerprint(fp, s)  \* the provider's part is new
          /\ g < MaxGen
          /\ gen' = g + 1
          /\ meant' = s
          /\ queue' = SyncWrites(g + 1, s)
    /\ mishaps' = mishaps
          \cup (IF fp # s /\ SameFingerprint(fp, s) THEN {"alike"} ELSE {})
          \cup (IF g # dbGen THEN {"renumbered"} ELSE {})
    /\ reloading' = FALSE
    /\ rpc' = [r \in Reloaders |-> "idle"]
    /\ loaded' = [r \in Reloaders |-> None]
    /\ pc' = [k \in Scanners |-> IF k \in Walks THEN "off" ELSE "new"]
    /\ held' = [k \in Scanners |-> None]
    /\ file' = [k \in Scanners |-> None]
    /\ out' = [k \in Scanners |-> None]

\* A stop or crash at any point, and the next start.  A generation that it
\* cannot read is 1, a fingerprint none; rows are left out.
Restart ==
    /\ \E s \in {sigs, None}, g \in {dbGen, 1}, fp \in {dbFp, 0}, read \in SUBSET Files :
          StartService(s, g, fp, read)
    /\ UNCHANGED <<sigs, dbVars>>

\* First start, on an empty database: generation 1 stands for no set.
Init ==
    /\ sigs = 1
    /\ dbGen = 1
    /\ dbFp = 0
    /\ dbMeant = None
    /\ rows = [f \in Files |-> None]
    /\ engine = 1
    /\ gen = 2
    /\ meant = 1
    /\ entries = [f \in Files |-> None]
    /\ queue = SyncWrites(2, 1)
    /\ reloading = FALSE
    /\ rpc = [r \in Reloaders |-> "idle"]
    /\ loaded = [r \in Reloaders |-> None]
    /\ pc = [k \in Scanners |-> IF k \in Walks THEN "off" ELSE "new"]
    /\ held = [k \in Scanners |-> None]
    /\ file = [k \in Scanners |-> None]
    /\ out = [k \in Scanners |-> None]
    /\ mishaps = {}

\* freshclam, sources.update, sources.rollback: another set is on disk.
ChangeSignatures(s) ==
    /\ s # sigs
    /\ sigs' = s
    /\ mishaps' = IF s < sigs THEN mishaps \cup {"rollback"} ELSE mishaps
    /\ UNCHANGED <<engineVars, cacheVars, queue, dbVars, scannerVars>>

-----------------------------------------------------------------------------
(* reload_engine.                                                          *)

ReloadTo(r, point) == rpc' = [rpc EXCEPT ![r] = point]

\* Mutant: the flag is set and not tested.
BeginReloadUnguarded(r) ==
    /\ rpc[r] = "idle"
    /\ reloading' = TRUE
    /\ ReloadTo(r, "load")
    /\ UNCHANGED <<sigs, engine, loaded, cacheVars, queue, dbVars, scannerVars, mishaps>>

\* The compare-and-swap on ENGINE_RELOAD_IN_PROGRESS; a call that loses it
\* returns an error.
BeginReload(r) ==
    /\ rpc[r] = "idle"
    /\ ~reloading
    /\ reloading' = TRUE
    /\ ReloadTo(r, "load")
    /\ UNCHANGED <<sigs, engine, loaded, cacheVars, queue, dbVars, scannerVars, mishaps>>

\* ClamEngine::load; a failure keeps the previous engine.
Load(r) ==
    /\ rpc[r] = "load"
    /\ \/ /\ loaded' = [loaded EXCEPT ![r] = sigs]
          /\ ReloadTo(r, "invalidate")
          /\ UNCHANGED reloading
       \/ /\ ReloadTo(r, "idle")
          /\ reloading' = FALSE
          /\ UNCHANGED loaded
    /\ UNCHANGED <<sigs, engine, cacheVars, queue, dbVars, scannerVars,
                   mishaps>>

\* invalidate_all counts the generation up under the lock ...
Invalidate(r) ==
    /\ rpc[r] = "invalidate"
    /\ gen < MaxGen
    /\ gen' = gen + 1
    /\ meant' = loaded[r]
    /\ ReloadTo(r, "enqueue")
    /\ UNCHANGED <<sigs, engine, reloading, loaded, entries, queue, dbVars,
                   scannerVars, mishaps>>

\* ... and sends it without; a full queue drops it.
EnqueueInvalidation(r) ==
    /\ rpc[r] = "enqueue"
    /\ queue' = Sent(queue, GenerationWrite(gen, meant))
    /\ mishaps' = IF Dropped(queue) THEN mishaps \cup {"lost"} ELSE mishaps
    /\ ReloadTo(r, "publish")
    /\ UNCHANGED <<sigs, engine, reloading, loaded, cacheVars, dbVars,
                   scannerVars>>

\* publish_engine_snapshot; the guard resets the flag.
Publish(r) ==
    /\ rpc[r] = "publish"
    /\ engine' = loaded[r]
    /\ loaded' = [loaded EXCEPT ![r] = None]
    /\ reloading' = FALSE
    /\ ReloadTo(r, "idle")
    /\ UNCHANGED <<sigs, cacheVars, queue, dbVars, scannerVars,
                   mishaps>>

-----------------------------------------------------------------------------
(* Scanners.                                                               *)

ScannerTo(k, point) == pc' = [pc EXCEPT ![k] = point]
KeepsStores == UNCHANGED <<sigs, engineVars, gen, meant, dbVars>>

\* The generation was opened, its engine is not in place yet.
Switching == \E r \in Reloaders : rpc[r] \in {"enqueue", "publish"}

\* The scanner's engine is not the one in place, or that one is on its way out.
Late(k) == held[k] # engine \/ Switching

\* start_scan, start_idle_scanner, start_startup_critical_scan: they do nothing
\* without an engine.
Start(k) ==
    /\ \/ k \in Walks /\ pc[k] = "off" /\ engine # None
       \/ k \in Idle /\ pc[k] = "new"
    /\ held' = [held EXCEPT ![k] = engine]
    /\ ScannerTo(k, IF engine = None THEN "off" ELSE "ready")
    /\ UNCHANGED <<file, out, entries, queue, mishaps>>
    /\ KeepsStores

\* A file that the cache does not call clean.
BeginScan(k, f) ==
    /\ pc[k] = "ready"
    /\ ~Hit(f)
    /\ file' = [file EXCEPT ![k] = f]
    /\ ScannerTo(k, "scan")
    /\ UNCHANGED <<held, out, entries, queue, mishaps>>
    /\ KeepsStores

\* Clean, and so is what the engine has not found clean: it failed, and the
\* start-up worker does not look at its error, or the walk's budget for the
\* file is over; or the detection is excluded.  record_with_metadata inserts
\* under the lock, with the generation that is current by now ...
RecordClean(k) ==
    /\ pc[k] = "scan"
    /\ \E s \in {held[k], None} :
          LET e == [set |-> s, gen |-> gen, meant |-> meant, late |-> Late(k)]
          IN  /\ entries' = [entries EXCEPT ![file[k]] = e]
              /\ out' = [out EXCEPT ![k] = e]
    /\ ScannerTo(k, "send")
    /\ UNCHANGED <<held, file, queue, mishaps>>
    /\ KeepsStores

\* A threat: an entry that is not clean replaces what was there, except in a
\* walk, which records nothing.
RecordThreat(k) ==
    /\ pc[k] = "scan"
    /\ k \in Idle
    /\ entries' = [entries EXCEPT ![file[k]] = None]
    /\ out' = [out EXCEPT ![k] = None]
    /\ ScannerTo(k, "send")
    /\ UNCHANGED <<held, file, queue, mishaps>>
    /\ KeepsStores

\* ... and sends it without the lock, if the queue has room.
SendRecord(k) ==
    /\ pc[k] = "send"
    /\ queue' = Sent(queue, [type |-> "record", file |-> file[k], entry |-> out[k]])
    /\ file' = [file EXCEPT ![k] = None]
    /\ out' = [out EXCEPT ![k] = None]
    /\ ScannerTo(k, "ready")
    /\ mishaps' = IF out[k] # None /\ out[k].gen = gen
                      /\ \E r \in Reloaders : rpc[r] = "enqueue"
                  THEN mishaps \cup {"overtaken"} ELSE mishaps
    /\ UNCHANGED <<held, entries>>
    /\ KeepsStores

\* Nothing to record: an error that the scanner looks at, an analysis that it
\* knows to be incomplete, a walk's threat.
NoRecord(k) ==
    /\ pc[k] = "scan"
    /\ file' = [file EXCEPT ![k] = None]
    /\ ScannerTo(k, "ready")
    /\ UNCHANGED <<held, out, entries, queue, mishaps>>
    /\ KeepsStores

\* The walk is over.
Stop(k) ==
    /\ k \in Walks
    /\ pc[k] = "ready"
    /\ held' = [held EXCEPT ![k] = None]
    /\ ScannerTo(k, "off")
    /\ UNCHANGED <<file, out, entries, queue, mishaps>>
    /\ KeepsStores

-----------------------------------------------------------------------------
(* The database writer.  An error is only logged.                          *)

Store(w) ==
    CASE w.type = "generation" ->
            /\ dbGen' = w.gen
            /\ dbMeant' = w.meant
            /\ UNCHANGED <<dbFp, rows>>
      [] w.type = "fingerprint" ->
            /\ dbFp' = w.fp
            /\ UNCHANGED <<dbGen, dbMeant, rows>>
      [] w.type = "record" ->
            /\ rows' = [rows EXCEPT ![w.file] = w.entry]
            /\ UNCHANGED <<dbGen, dbMeant, dbFp>>

DbWrite ==
    /\ queue # <<>>
    /\ queue' = Tail(queue)
    /\ \/ /\ Store(Head(queue))
          /\ UNCHANGED mishaps
       \/ /\ mishaps' = IF Head(queue).type = "generation"
                        THEN mishaps \cup {"lost"} ELSE mishaps
          /\ UNCHANGED dbVars
    /\ UNCHANGED <<sigs, engineVars, cacheVars, scannerVars>>

-----------------------------------------------------------------------------
Reload(r) ==
    \/ BeginReload(r) \/ Load(r) \/ Invalidate(r) \/ EnqueueInvalidation(r)
    \/ Publish(r)

Scanner(k) ==
    \/ Start(k) \/ RecordClean(k) \/ RecordThreat(k) \/ SendRecord(k)
    \/ NoRecord(k) \/ Stop(k)
    \/ \E f \in Files : BeginScan(k, f)

Next ==
    \/ Restart
    \/ \E s \in Sets : ChangeSignatures(s)
    \/ \E r \in Reloaders : Reload(r)
    \/ \E k \in Scanners : Scanner(k)
    \/ DbWrite

Spec == Init /\ [][Next]_vars

-----------------------------------------------------------------------------
(* Properties.                                                             *)

TypeOK ==
    /\ sigs \in Sets
    /\ engine \in Sets \cup {None}
    /\ reloading \in BOOLEAN
    /\ rpc \in [Reloaders -> {"idle", "load", "invalidate", "enqueue", "publish"}]
    /\ loaded \in [Reloaders -> Sets \cup {None}]
    /\ gen \in 1 .. MaxGen
    /\ meant \in Sets \cup {None}
    /\ entries \in [Files -> Entry \cup {None}]
    /\ queue \in Seq(Write) /\ Len(queue) <= QueueCap
    /\ dbGen \in 1 .. MaxGen
    /\ dbFp \in Sets \cup {0, None}
    /\ dbMeant \in Sets \cup {None}
    /\ rows \in [Files -> Entry \cup {None}]
    /\ pc \in [Scanners -> {"new", "off", "ready", "scan", "send"}]
    /\ held \in [Scanners -> Sets \cup {None}]
    /\ file \in [Scanners -> Files \cup {None}]
    /\ out \in [Scanners -> Entry \cup {None}]
    /\ mishaps \subseteq {"lost", "overtaken", "rollback", "alike", "renumbered"}

\* A start or reload never leaves the service with an engine whose signature
\* set is not the one the current generation was opened for, whatever crashes
\* between the two stores of the cache; but for generation writes that are lost,
\* sets that are rolled back, a start that takes a set for another with its
\* fingerprint, and one that cannot read the generation and counts from 1 again.
GenerationFitsEngine ==
    mishaps = {} /\ ~reloading /\ engine # None => meant = engine

\* What the cache calls clean was recorded for the engine in place (or about to
\* be), over any number of reloads, crashes and starts, and found clean by it,
\* but for scans that are late with an older engine and records that say clean
\* without it (a failed scan, an excluded detection); and but for the mishaps of
\* GenerationFitsEngine and records that overtake their generation.
HitsAreCurrent ==
    mishaps = {} => \A f \in Files : Hit(f) =>
        /\ entries[f].meant = meant
        /\ entries[f].late \/ entries[f].set \in {meant, None}

=============================================================================
