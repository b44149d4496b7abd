-------------------------- MODULE EngineCacheProofs --------------------------
(***************************************************************************)
(* Proofs about the engine, its reload and the scan cache, for any number  *)
(* of files, scanners and callers of reload_engine and any signature sets: *)
(* the types are right, a start or reload leaves the engine its generation *)
(* was opened for, and what the cache calls clean is clean for that engine.*)
(*                                                                         *)
(* A generation is opened in memory, is on its way in the queue, and is    *)
(* stored, and a start takes up what is stored.  The invariant follows it: *)
(* generations are announced in order (Numbered), a record reaches the     *)
(* database after its generation did (Followed), wherever a generation is  *)
(* still known it stands for one signature set (Agreed), and the stored    *)
(* fingerprint is never ahead of what generations stand for (Ordered).     *)
(***************************************************************************)
EXTENDS EngineCache, TLAPS

IsGeneration(i)  == i \in DOMAIN queue /\ queue[i].type = "generation"
IsFingerprint(i) == i \in DOMAIN queue /\ queue[i].type = "fingerprint"
IsRecord(i) ==
    i \in DOMAIN queue /\ queue[i].type = "record" /\ queue[i].entry # None

\* What is queued as a generation is one.
QueueOK == \A i \in DOMAIN queue : IsGeneration(i) => queue[i].gen \in 1 .. MaxGen

\* A scanner at work has an engine and a file, and there is a generation to
\* record under.
ScannerOK ==
    \A k \in Scanners :
        /\ pc[k] \in {"ready", "scan", "send"} => held[k] \in Sets /\ meant # None
        /\ pc[k] \in {"scan", "send"} => file[k] \in Files

\* There is one reload at a time; between its invalidation and its publication
\* the generation stands for the engine it loaded.
ReloadOK ==
    /\ \A r \in Reloaders : rpc[r] # "idle" => reloading
    /\ \A r, t \in Reloaders : rpc[r] # "idle" /\ rpc[t] # "idle" => r = t
    /\ \A r \in Reloaders :
          /\ rpc[r] \in {"invalidate", "enqueue", "publish"} => loaded[r] \in Sets
          /\ rpc[r] \in {"enqueue", "publish"} => meant = loaded[r]
    /\ engine # None => meant # None

Shape == TypeOK /\ QueueOK /\ ScannerOK /\ ReloadOK

\* A generation was opened and is not yet sent.
Opening == \E r \in Reloaders : rpc[r] = "enqueue"

Fits ==
    (\A r \in Reloaders : rpc[r] \notin {"enqueue", "publish"}) /\ engine # None
        => meant = engine

\* Generations are opened, sent and stored in order.
Numbered ==
    /\ dbGen <= gen
    /\ \A i \in DOMAIN queue : IsGeneration(i) => dbGen < queue[i].gen /\ queue[i].gen <= gen
    /\ Opening => dbGen < gen
                  /\ \A i \in DOMAIN queue : IsGeneration(i) => queue[i].gen < gen
    /\ \A i, j \in DOMAIN queue :
          i < j /\ IsGeneration(i) /\ IsGeneration(j) => queue[i].gen < queue[j].gen

\* Generation g is stored, or is queued at one of the first n places.
Announced(g, n) ==
    \/ g <= dbGen
    \/ \E i \in DOMAIN queue : i <= n /\ IsGeneration(i) /\ queue[i].gen = g

\* A record comes after its generation.
Followed ==
    /\ Opening \/ Announced(gen, Len(queue))
    /\ \A k \in Scanners : out[k] # None =>
          \/ Announced(out[k].gen, Len(queue))
          \/ Opening /\ out[k].gen = gen
    /\ \A i \in DOMAIN queue : IsRecord(i) => Announced(queue[i].entry.gen, i)
    /\ \A f \in Files : rows[f] # None => rows[f].gen <= dbGen

\* Wherever generation g is still known, it stands for the set m; one that was
\* opened without an engine, and stored so, stands for the fingerprint.
Stands(g, m) ==
    /\ g <= gen
    /\ g = gen => m = meant
    /\ g = dbGen => m = dbMeant \/ (dbMeant = None /\ m = dbFp)
    /\ g = dbGen /\ IsFingerprint(1) => m = dbMeant
    /\ \A i \in DOMAIN queue : IsGeneration(i) /\ queue[i].gen = g => queue[i].meant = m

\* What was recorded in time was found by the engine of its generation.
InTime(e) == e.late \/ e.set \in {e.meant, None}

EntryStands(e) == e # None => InTime(e) /\ Stands(e.gen, e.meant)

Agreed ==
    /\ Stands(gen, meant)
    /\ \A f \in Files : EntryStands(entries[f]) /\ EntryStands(rows[f])
    /\ \A k \in Scanners : EntryStands(out[k])
    /\ \A i \in DOMAIN queue : IsRecord(i) => EntryStands(queue[i].entry)

\* A start queues its fingerprint behind its generation and before all else.
Paired ==
    \A i \in DOMAIN queue : IsFingerprint(i) =>
        /\ i = 1 => dbMeant = queue[i].fp
        /\ i # 1 => i = 2 /\ IsGeneration(1) /\ queue[1].meant = queue[i].fp

AtMost(s, t) == s # None /\ t # None => s <= t

\* No later than what is on the disk, no earlier than a fingerprint.
Level(s) ==
    /\ AtMost(s, sigs)
    /\ AtMost(dbFp, s)
    /\ \A i \in DOMAIN queue : IsFingerprint(i) => AtMost(queue[i].fp, s)

\* Later generations stand for later sets, and the fingerprint lags.
Ordered ==
    /\ Level(sigs)
    /\ Level(meant)
    /\ \A r \in Reloaders : Level(loaded[r])
    /\ \A i \in DOMAIN queue : IsGeneration(i) => Level(queue[i].meant)
    /\ AtMost(dbMeant, sigs)
    /\ AtMost(dbFp, dbMeant)

Sound ==
    /\ Fits
    /\ Numbered
    /\ Followed
    /\ Agreed
    /\ Paired
    /\ Ordered

IInv == Shape /\ (mishaps = {} => Sound)


-----------------------------------------------------------------------------
(* The queue.                                                              *)

\* The fields of what is queued.
LEMMA WriteIs ==
    ASSUME NEW w \in Write
    PROVE  /\ w.type \in {"generation", "fingerprint", "record"}
           /\ w.type = "generation" => w.gen \in Nat /\ w.meant \in Sets \cup {None}
           /\ w.type = "fingerprint" => w.fp \in Sets \cup {None}
           /\ w.type = "record" => w.file \in Files /\ w.entry \in Entry \cup {None}
<1> QED  BY DEF Write

\* try_send adds at the end or not at all.
LEMMA SentIs ==
    ASSUME NEW q \in Seq(Write), Len(q) <= QueueCap, NEW w \in Write
    PROVE  /\ Sent(q, w) \in Seq(Write)
           /\ Len(Sent(q, w)) <= QueueCap
           /\ Dropped(q) => Sent(q, w) = q
           /\ ~Dropped(q) =>
                /\ Len(Sent(q, w)) = Len(q) + 1
                /\ DOMAIN Sent(q, w) = 1 .. Len(q) + 1
                /\ Sent(q, w)[Len(q) + 1] = w
                /\ \A i \in 1 .. Len(q) : Sent(q, w)[i] = q[i]
<1>0. QueueCap \in Nat \ {0} /\ Len(q) \in Nat /\ DOMAIN q = 1 .. Len(q)
  BY EngineCacheAssumption
<1>1. CASE Len(q) < QueueCap
  <2>1. Append(q, w) \in Seq(Write)
    OBVIOUS
  <2>2. Len(Append(q, w)) = Len(q) + 1 /\ DOMAIN Append(q, w) = 1 .. Len(q) + 1
    OBVIOUS
  <2>3. Append(q, w)[Len(q) + 1] = w /\ \A i \in 1 .. Len(q) : Append(q, w)[i] = q[i]
    OBVIOUS
  <2>4. Sent(q, w) = Append(q, w) /\ ~Dropped(q)
    BY <1>0, <1>1 DEF Sent, Dropped
  <2>5. Len(q) + 1 <= QueueCap
    BY <1>0, <1>1
  <2> QED  BY <2>1, <2>2, <2>3, <2>4, <2>5
<1>2. CASE ~(Len(q) < QueueCap)
  <2>1. Sent(q, w) = q /\ Dropped(q)
    BY <1>0, <1>2 DEF Sent, Dropped
  <2> QED  BY <2>1
<1> QED  BY <1>1, <1>2

\* The database writer takes the first.
LEMMA TailIs ==
    ASSUME NEW q \in Seq(Write), q # <<>>
    PROVE  /\ Head(q) \in Write
           /\ Head(q) = q[1]
           /\ 1 \in DOMAIN q
           /\ Tail(q) \in Seq(Write)
           /\ Len(Tail(q)) = Len(q) - 1
           /\ Len(q) \in Nat \ {0}
           /\ DOMAIN q = 1 .. Len(q)
           /\ DOMAIN Tail(q) = 1 .. Len(q) - 1
           /\ \A i \in 1 .. Len(q) - 1 : Tail(q)[i] = q[i + 1] /\ i + 1 \in DOMAIN q
<1>1. Len(q) \in Nat \ {0} /\ DOMAIN q = 1 .. Len(q)
  OBVIOUS
<1>2. Tail(q) \in Seq(Write) /\ Len(Tail(q)) = Len(q) - 1
  OBVIOUS
<1>3. \A i \in 1 .. Len(q) - 1 : Tail(q)[i] = q[i + 1]
  OBVIOUS
<1>4. Head(q) = q[1] /\ q[1] \in Write
  BY <1>1
<1> QED  BY <1>1, <1>2, <1>3, <1>4

\* The writes of a start: its generation, and its fingerprint if there is room.
LEMMA SyncWritesAre ==
    ASSUME NEW g \in Nat, NEW s \in Sets \cup {None}
    PROVE  /\ SyncWrites(g, s) \in Seq(Write)
           /\ Len(SyncWrites(g, s)) <= QueueCap
           /\ 1 \in DOMAIN SyncWrites(g, s)
           /\ \A i \in DOMAIN SyncWrites(g, s) :
                 \/ i = 1 /\ SyncWrites(g, s)[i] = GenerationWrite(g, s)
                 \/ i = 2 /\ SyncWrites(g, s)[i] = FingerprintWrite(s)
<1>1. QueueCap \in Nat \ {0}
  BY EngineCacheAssumption
<1>2. GenerationWrite(g, s) \in Write /\ FingerprintWrite(s) \in Write
  BY DEF GenerationWrite, FingerprintWrite, Write
<1>3. PICK w, v : /\ w = GenerationWrite(g, s) /\ v = FingerprintWrite(s)
                  /\ w \in Write /\ v \in Write
  BY <1>2
<1>4. Sent(<<>>, w) = <<w>>
  BY <1>1 DEF Sent
<1>5. /\ <<w>> \in Seq(Write) /\ Len(<<w>>) = 1 /\ <<w>>[1] = w
      /\ DOMAIN <<w>> = 1 .. 1
  BY <1>3
<1>6. PICK one \in Seq(Write) : one = <<w>>
  BY <1>5
<1>7. /\ Len(one) = 1 /\ one[1] = w /\ DOMAIN one = 1 .. 1 /\ Len(one) <= QueueCap
  BY <1>1, <1>5, <1>6
<1>8. SyncWrites(g, s) = Sent(one, v)
  BY <1>3, <1>4, <1>6 DEF SyncWrites
<1>9. CASE Dropped(one)
  <2>1. Sent(one, v) = one
    BY <1>3, <1>7, <1>9, SentIs
  <2> QED  BY <1>3, <1>7, <1>8, <2>1
<1>10. CASE ~Dropped(one)
  <2>1. /\ Sent(one, v) \in Seq(Write)
        /\ Len(Sent(one, v)) <= QueueCap
        /\ DOMAIN Sent(one, v) = 1 .. Len(one) + 1
        /\ Sent(one, v)[Len(one) + 1] = v
        /\ \A i \in 1 .. Len(one) : Sent(one, v)[i] = one[i]
    BY <1>3, <1>7, <1>10, SentIs
  <2> QED  BY <1>3, <1>7, <1>8, <2>1
<1> QED  BY <1>9, <1>10

-----------------------------------------------------------------------------
(* Types and shape.                                                        *)

LEMMA InitShape == Init => Shape
<1> SUFFICES ASSUME Init PROVE Shape
  OBVIOUS
<1>1. 1 \in Sets /\ 2 \in 1 .. MaxGen /\ 1 \in 1 .. MaxGen /\ None \notin Sets
  BY EngineCacheAssumption DEF Sets
<1>2. /\ queue \in Seq(Write) /\ Len(queue) <= QueueCap
      /\ \A i \in DOMAIN queue :
            queue[i] = GenerationWrite(2, 1) \/ queue[i] = FingerprintWrite(1)
  BY <1>1, SyncWritesAre DEF Init
<1>3. QueueOK
  BY <1>1, <1>2 DEF QueueOK, IsGeneration, GenerationWrite, FingerprintWrite
<1>4. TypeOK
  BY <1>1, <1>2 DEF Init, TypeOK
<1>5. ScannerOK /\ ReloadOK
  BY <1>1, EngineCacheAssumption DEF Init, ScannerOK, ReloadOK, Scanners
<1> QED  BY <1>3, <1>4, <1>5 DEF Shape

\* What a start has read, and what it does about it.
LEMMA RestartIs ==
    ASSUME Restart
    PROVE  \E s \in {sigs, None}, g \in {dbGen, 1}, fp \in {dbFp, 0} :
             /\ engine' = s
             /\ \/ /\ SameFingerprint(fp, s)
                   /\ gen' = g
                   /\ meant' = IF dbMeant = None THEN s ELSE dbMeant
                   /\ queue' = <<>>
                \/ /\ g < MaxGen
                   /\ gen' = g + 1
                   /\ meant' = s
                   /\ queue' = SyncWrites(g + 1, s)
             /\ \A f \in Files : entries'[f] \in {Loaded(f, g), None}
             /\ fp # s /\ SameFingerprint(fp, s) => mishaps' # {}
             /\ g # dbGen => mishaps' # {}
<1>1. PICK s \in {sigs, None}, g \in {dbGen, 1}, fp \in {dbFp, 0}, read \in SUBSET Files :
         StartService(s, g, fp, read)
  BY DEF Restart
<1>2. \A f \in Files : entries'[f] \in {Loaded(f, g), None}
  BY <1>1 DEF StartService
<1>3. /\ fp # s /\ SameFingerprint(fp, s) => mishaps' # {}
      /\ g # dbGen => mishaps' # {}
  BY <1>1 DEF StartService
<1>4. /\ engine' = s
      /\ \/ /\ SameFingerprint(fp, s)
            /\ gen' = g
            /\ meant' = IF dbMeant = None THEN s ELSE dbMeant
            /\ queue' = <<>>
         \/ /\ g < MaxGen
            /\ gen' = g + 1
            /\ meant' = s
            /\ queue' = SyncWrites(g + 1, s)
  BY <1>1 DEF StartService
<1> QED  BY <1>2, <1>3, <1>4

\* What a start sets, whatever it has read.
LEMMA RestartSets ==
    ASSUME TypeOK, Restart
    PROVE  /\ UNCHANGED <<sigs, dbVars>>
           /\ reloading' = FALSE
           /\ rpc' = [r \in Reloaders |-> "idle"]
           /\ loaded' = [r \in Reloaders |-> None]
           /\ pc' = [k \in Scanners |-> IF k \in Walks THEN "off" ELSE "new"]
           /\ held' = [k \in Scanners |-> None]
           /\ file' = [k \in Scanners |-> None]
           /\ out' = [k \in Scanners |-> None]
           /\ entries' \in [Files -> Entry \cup {None}]
           /\ mishaps' \subseteq {"lost", "overtaken", "rollback", "alike", "renumbered"}
           /\ mishaps \subseteq mishaps'
<1>1. PICK s \in {sigs, None}, g \in {dbGen, 1}, fp \in {dbFp, 0}, read \in SUBSET Files :
         StartService(s, g, fp, read)
  BY DEF Restart
<1>2. entries' \in [Files -> Entry \cup {None}]
  BY <1>1 DEF StartService, Loaded, TypeOK
<1>3. /\ mishaps' \subseteq {"lost", "overtaken", "rollback", "alike", "renumbered"}
      /\ mishaps \subseteq mishaps'
  BY <1>1 DEF StartService, TypeOK
<1> QED  BY <1>1, <1>2, <1>3 DEF Restart, StartService

LEMMA RestartShape ==
    ASSUME Shape, Restart
    PROVE  Shape'
<1> USE DEF Shape
<1>1. PICK s \in {sigs, None}, g \in {dbGen, 1}, fp \in {dbFp, 0} :
             /\ engine' = s
             /\ \/ /\ SameFingerprint(fp, s)
                   /\ gen' = g
                   /\ meant' = IF dbMeant = None THEN s ELSE dbMeant
                   /\ queue' = <<>>
                \/ /\ g < MaxGen
                   /\ gen' = g + 1
                   /\ meant' = s
                   /\ queue' = SyncWrites(g + 1, s)
  BY RestartIs
<1>2. /\ s \in Sets \cup {None} /\ g \in Nat /\ MaxGen \in Nat
      /\ 1 <= g /\ g <= MaxGen /\ None \notin Sets
  BY EngineCacheAssumption DEF TypeOK, Sets
<1>3. /\ queue' \in Seq(Write) /\ Len(queue') <= QueueCap
      /\ QueueOK' /\ gen' \in 1 .. MaxGen
      /\ meant' \in Sets \cup {None} /\ (s # None => meant' # None)
  <2>1. CASE queue' = <<>> /\ gen' = g /\ meant' = IF dbMeant = None THEN s ELSE dbMeant
    <3>1. <<>> \in Seq(Write) /\ Len(<<>>) = 0 /\ DOMAIN <<>> = {}
      OBVIOUS
    <3>2. QueueCap \in Nat
      BY EngineCacheAssumption
    <3>3. QueueOK'
      BY <2>1, <3>1 DEF QueueOK
    <3> QED  BY <1>2, <2>1, <3>1, <3>2, <3>3 DEF TypeOK
  <2>2. CASE /\ g < MaxGen /\ gen' = g + 1 /\ meant' = s
             /\ queue' = SyncWrites(g + 1, s)
    <3>1. g + 1 \in Nat /\ g + 1 \in 1 .. MaxGen
      BY <1>2, <2>2
    <3>2. /\ queue' \in Seq(Write) /\ Len(queue') <= QueueCap
          /\ \A i \in DOMAIN queue' :
                queue'[i] = GenerationWrite(g + 1, s) \/ queue'[i] = FingerprintWrite(s)
      BY <1>2, <2>2, <3>1, SyncWritesAre
    <3>3. QueueOK'
      BY <3>1, <3>2 DEF QueueOK, IsGeneration, GenerationWrite, FingerprintWrite
    <3> QED  BY <1>2, <2>2, <3>1, <3>2, <3>3
  <2> QED  BY <1>1, <2>1, <2>2
<1>4. TypeOK'
  <2>1. /\ engine' \in Sets \cup {None} /\ reloading' \in BOOLEAN
        /\ rpc' \in [Reloaders -> {"idle", "load", "invalidate", "enqueue", "publish"}]
        /\ loaded' \in [Reloaders -> Sets \cup {None}]
    BY <1>1, <1>2, RestartSets
  <2>2. /\ pc' \in [Scanners -> {"new", "off", "ready", "scan", "send"}]
        /\ held' \in [Scanners -> Sets \cup {None}]
        /\ file' \in [Scanners -> Files \cup {None}]
        /\ out' \in [Scanners -> Entry \cup {None}]
    BY RestartSets
  <2>3. /\ UNCHANGED <<sigs, dbVars>> /\ entries' \in [Files -> Entry \cup {None}]
        /\ mishaps' \subseteq {"lost", "overtaken", "rollback", "alike", "renumbered"}
    BY RestartSets
  <2> QED  BY <1>3, <2>1, <2>2, <2>3 DEF TypeOK, dbVars
<1>5. ScannerOK'
  BY RestartSets DEF ScannerOK
<1>6. ReloadOK'
  <2>1. /\ reloading' = FALSE /\ \A r \in Reloaders : rpc'[r] = "idle"
        /\ engine' # None => meant' # None
    BY <1>1, <1>3, RestartSets
  <2> QED  BY <2>1 DEF ReloadOK
<1> QED  BY <1>3, <1>4, <1>5, <1>6

\* What an append keeps of the queue, and what it adds.
LEMMA QueueOKAfterSend ==
    ASSUME Shape, NEW w \in Write, queue' = Sent(queue, w),
           w.type = "generation" => w.gen \in 1 .. MaxGen
    PROVE  queue' \in Seq(Write) /\ Len(queue') <= QueueCap /\ QueueOK'
<1>1. queue \in Seq(Write) /\ Len(queue) <= QueueCap /\ DOMAIN queue = 1 .. Len(queue)
  BY DEF Shape, TypeOK
<1>2. queue' \in Seq(Write) /\ Len(queue') <= QueueCap
  BY <1>1, SentIs
<1>3. QueueOK'
  <2>1. CASE Dropped(queue)
    BY <1>1, <2>1, SentIs DEF Shape, QueueOK, IsGeneration
  <2>2. CASE ~Dropped(queue)
    <3>1. Len(queue) \in Nat
      BY <1>1
    <3>2. \A i \in DOMAIN queue' :
             \/ i \in DOMAIN queue /\ queue'[i] = queue[i]
             \/ queue'[i] = w
      <4>1. /\ DOMAIN queue' = 1 .. Len(queue) + 1 /\ queue'[Len(queue) + 1] = w
            /\ \A i \in 1 .. Len(queue) : queue'[i] = queue[i]
        BY <1>1, <2>2, SentIs
      <4>2. \A i \in 1 .. Len(queue) + 1 : i \in 1 .. Len(queue) \/ i = Len(queue) + 1
        BY <3>1
      <4> QED  BY <1>1, <4>1, <4>2
    <3> QED  BY <3>2 DEF Shape, QueueOK, IsGeneration
  <2> QED  BY <2>1, <2>2
<1> QED  BY <1>2, <1>3

LEMMA ChangeShape ==
    ASSUME Shape, NEW s \in Sets, ChangeSignatures(s)
    PROVE  Shape'
<1>1. UNCHANGED <<engineVars, cacheVars, queue, dbVars, scannerVars>> /\ sigs' = s
  BY DEF ChangeSignatures
<1>2. mishaps' \subseteq {"lost", "overtaken", "rollback", "alike", "renumbered"}
  BY DEF ChangeSignatures, Shape, TypeOK
<1> QED
  BY <1>1, <1>2 DEF Shape, TypeOK, QueueOK, IsGeneration, ScannerOK, ReloadOK,
     engineVars, cacheVars, dbVars, scannerVars

LEMMA ReloadShape ==
    ASSUME Shape, NEW r \in Reloaders, Reload(r)
    PROVE  Shape'
<1> USE DEF Shape, engineVars, cacheVars, dbVars, scannerVars
<1>0. None \notin Sets /\ MaxGen \in Nat
  BY EngineCacheAssumption DEF Sets
<1>1. CASE BeginReload(r)
  <2>1. TypeOK'
    BY <1>1 DEF BeginReload, ReloadTo, TypeOK
  <2>2. QueueOK' /\ ScannerOK'
    BY <1>1 DEF BeginReload, QueueOK, IsGeneration, ScannerOK
  <2>3. ReloadOK'
    BY <1>1 DEF BeginReload, ReloadTo, ReloadOK, TypeOK
  <2> QED  BY <2>1, <2>2, <2>3
<1>2. CASE Load(r)
  <2>1. TypeOK'
    <3>1. /\ loaded' = loaded \/ loaded' = [loaded EXCEPT ![r] = sigs]
          /\ rpc' = [rpc EXCEPT ![r] = "invalidate"] \/ rpc' = [rpc EXCEPT ![r] = "idle"]
          /\ reloading' = reloading \/ reloading' = FALSE
          /\ UNCHANGED <<sigs, engine, cacheVars, queue, dbVars, scannerVars, mishaps>>
      BY <1>2 DEF Load, ReloadTo
    <3>2. loaded' \in [Reloaders -> Sets \cup {None}]
      BY <3>1 DEF TypeOK
    <3>3. rpc' \in [Reloaders -> {"idle", "load", "invalidate", "enqueue", "publish"}]
      BY <3>1 DEF TypeOK
    <3>4. reloading' \in BOOLEAN
      BY <3>1 DEF TypeOK
    <3> QED  BY <3>1, <3>2, <3>3, <3>4 DEF TypeOK
  <2>2. QueueOK' /\ ScannerOK'
    BY <1>2 DEF Load, QueueOK, IsGeneration, ScannerOK
  <2>3. ReloadOK'
    BY <1>2 DEF Load, ReloadTo, ReloadOK, TypeOK
  <2> QED  BY <2>1, <2>2, <2>3
<1>3. CASE Invalidate(r)
  <2>1. loaded[r] \in Sets
    BY <1>3 DEF Invalidate, ReloadOK
  <2>2. TypeOK'
    <3>1. gen' \in 1 .. MaxGen
      BY <1>0, <1>3 DEF Invalidate, TypeOK
    <3> QED  BY <1>3, <2>1, <3>1 DEF Invalidate, ReloadTo, TypeOK
  <2>3. QueueOK' /\ ScannerOK'
    BY <1>0, <1>3, <2>1 DEF Invalidate, QueueOK, IsGeneration, ScannerOK
  <2>4. ReloadOK'
    BY <1>0, <1>3, <2>1 DEF Invalidate, ReloadTo, ReloadOK, TypeOK
  <2> QED  BY <2>2, <2>3, <2>4
<1>4. CASE EnqueueInvalidation(r)
  <2>1. PICK w \in Write : /\ w = GenerationWrite(gen, meant)
                           /\ w.type = "generation" /\ w.gen \in 1 .. MaxGen
    <3>1. gen \in Nat /\ meant \in Sets \cup {None} /\ gen \in 1 .. MaxGen
      BY <1>0 DEF TypeOK
    <3>2. GenerationWrite(gen, meant) \in Write
      BY <3>1 DEF GenerationWrite, Write
    <3>3. /\ GenerationWrite(gen, meant).type = "generation"
          /\ GenerationWrite(gen, meant).gen = gen
      BY DEF GenerationWrite
    <3> QED  BY <3>1, <3>2, <3>3
  <2>2. queue' \in Seq(Write) /\ Len(queue') <= QueueCap /\ QueueOK'
    BY <1>4, <2>1, QueueOKAfterSend DEF EnqueueInvalidation
  <2>3. TypeOK'
    BY <1>4, <2>2 DEF EnqueueInvalidation, ReloadTo, TypeOK
  <2>4. ScannerOK'
    BY <1>4 DEF EnqueueInvalidation, ScannerOK
  <2>5. ReloadOK'
    BY <1>4 DEF EnqueueInvalidation, ReloadTo, ReloadOK, TypeOK
  <2> QED  BY <2>2, <2>3, <2>4, <2>5
<1>5. CASE Publish(r)
  <2>1. loaded[r] \in Sets /\ meant = loaded[r]
    BY <1>5 DEF Publish, ReloadOK
  <2>2. TypeOK'
    BY <1>5 DEF Publish, ReloadTo, TypeOK
  <2>3. QueueOK' /\ ScannerOK'
    BY <1>5 DEF Publish, QueueOK, IsGeneration, ScannerOK
  <2>4. ReloadOK'
    BY <1>0, <1>5, <2>1 DEF Publish, ReloadTo, ReloadOK, TypeOK
  <2> QED  BY <2>2, <2>3, <2>4
<1> QED  BY <1>1, <1>2, <1>3, <1>4, <1>5 DEF Reload

LEMMA ScannerShape ==
    ASSUME Shape, NEW k \in Scanners, Scanner(k)
    PROVE  Shape'
<1> USE DEF Shape, KeepsStores, ScannerTo, engineVars, dbVars
<1>0. None \notin Sets
  BY EngineCacheAssumption DEF Sets
<1>1. ReloadOK'
  BY DEF Scanner, Start, BeginScan, RecordClean, RecordThreat, SendRecord, NoRecord,
     Stop, ReloadOK
<1>2. UNCHANGED queue => QueueOK'
  BY DEF QueueOK, IsGeneration, KeepsStores
<1>3. CASE Start(k)
  BY <1>1, <1>2, <1>3 DEF Start, TypeOK, ScannerOK, ReloadOK
<1>4. ASSUME NEW f \in Files, BeginScan(k, f) PROVE Shape'
  BY <1>1, <1>2, <1>4 DEF BeginScan, TypeOK, ScannerOK
<1>5. CASE RecordClean(k)
  <2>1. held[k] \in Sets /\ meant # None /\ file[k] \in Files
    BY <1>5 DEF RecordClean, ScannerOK
  <2>2. PICK s \in {held[k], None} : \E e :
           /\ e = [set |-> s, gen |-> gen, meant |-> meant, late |-> Late(k)]
           /\ entries' = [entries EXCEPT ![file[k]] = e]
           /\ out' = [out EXCEPT ![k] = e]
    BY <1>5 DEF RecordClean
  <2>e. PICK e :
           /\ e = [set |-> s, gen |-> gen, meant |-> meant, late |-> Late(k)]
           /\ entries' = [entries EXCEPT ![file[k]] = e]
           /\ out' = [out EXCEPT ![k] = e]
    BY <2>2
  <2>3. e \in Entry
    <3>1. gen \in Nat /\ meant \in Sets
      BY <1>0, <2>1 DEF TypeOK
    <3>2. Late(k) \in BOOLEAN
      BY DEF Late
    <3> QED  BY <2>1, <2>e, <3>1, <3>2 DEF Entry
  <2>4. TypeOK'
    <3>1. /\ entries' \in [Files -> Entry \cup {None}]
          /\ out' \in [Scanners -> Entry \cup {None}]
      BY <2>e, <2>3 DEF TypeOK
    <3> QED  BY <1>5, <3>1 DEF RecordClean, TypeOK
  <2>5. ScannerOK'
    BY <1>5 DEF RecordClean, TypeOK, ScannerOK
  <2> QED  BY <1>1, <1>2, <1>5, <2>4, <2>5 DEF RecordClean
<1>6. CASE RecordThreat(k)
  <2>1. TypeOK'
    BY <1>6 DEF RecordThreat, TypeOK
  <2>2. ScannerOK'
    BY <1>6 DEF RecordThreat, TypeOK, ScannerOK
  <2> QED  BY <1>1, <1>2, <1>6, <2>1, <2>2 DEF RecordThreat
<1>7. CASE SendRecord(k)
  <2>1. file[k] \in Files
    BY <1>7 DEF SendRecord, ScannerOK
  <2>2. PICK w \in Write :
           w = [type |-> "record", file |-> file[k], entry |-> out[k]] /\ w.type = "record"
    <3>1. out[k] \in Entry \cup {None}
      BY DEF TypeOK
    <3>2. [type |-> "record", file |-> file[k], entry |-> out[k]] \in Write
      BY <2>1, <3>1 DEF Write
    <3> QED  BY <3>2
  <2>3. queue' \in Seq(Write) /\ Len(queue') <= QueueCap /\ QueueOK'
    BY <1>7, <2>2, QueueOKAfterSend DEF SendRecord
  <2>4. mishaps' \subseteq {"lost", "overtaken", "rollback", "alike", "renumbered"}
    BY <1>7 DEF SendRecord, TypeOK
  <2>5. TypeOK'
    BY <1>7, <2>3, <2>4 DEF SendRecord, TypeOK
  <2>6. ScannerOK'
    BY <1>7 DEF SendRecord, TypeOK, ScannerOK
  <2> QED  BY <1>1, <2>3, <2>5, <2>6
<1>8. CASE NoRecord(k)
  BY <1>1, <1>2, <1>8 DEF NoRecord, TypeOK, ScannerOK
<1>9. CASE Stop(k)
  BY <1>1, <1>2, <1>9 DEF Stop, TypeOK, ScannerOK
<1> QED  BY <1>3, <1>4, <1>5, <1>6, <1>7, <1>8, <1>9 DEF Scanner

LEMMA DbWriteShape ==
    ASSUME Shape, DbWrite
    PROVE  Shape'
<1> USE DEF Shape
<1>1. /\ queue \in Seq(Write) /\ queue # <<>> /\ queue' = Tail(queue)
      /\ UNCHANGED <<sigs, engineVars, cacheVars, scannerVars>>
  BY DEF DbWrite, TypeOK
<1>2. PICK w \in Write : w = Head(queue) /\ w = queue[1] /\ 1 \in DOMAIN queue
  BY <1>1, TailIs
<1>3. queue' \in Seq(Write) /\ Len(queue') <= QueueCap /\ QueueOK'
  <2>1. QueueCap \in Nat /\ Len(queue) <= QueueCap
    BY EngineCacheAssumption DEF TypeOK
  <2>2. /\ queue' \in Seq(Write) /\ Len(queue') <= Len(queue)
        /\ Len(queue') \in Nat /\ Len(queue) \in Nat
        /\ \A i \in DOMAIN queue' : queue'[i] = queue[i + 1] /\ i + 1 \in DOMAIN queue
    BY <1>1, TailIs
  <2> QED  BY <2>1, <2>2 DEF QueueOK, IsGeneration
<1>4. /\ dbGen' \in 1 .. MaxGen /\ dbFp' \in Sets \cup {0, None}
      /\ dbMeant' \in Sets \cup {None} /\ rows' \in [Files -> Entry \cup {None}]
      /\ mishaps' \subseteq {"lost", "overtaken", "rollback", "alike", "renumbered"}
  <2>1. CASE Store(w) /\ UNCHANGED mishaps
    <3>1. w.type = "generation" => w.gen \in 1 .. MaxGen
      BY <1>2 DEF QueueOK, IsGeneration
    <3> QED  BY <2>1, <3>1, WriteIs DEF Store, TypeOK
  <2>2. CASE UNCHANGED dbVars /\ mishaps' \subseteq mishaps \cup {"lost"}
    BY <2>2 DEF dbVars, TypeOK
  <2> QED  BY <1>2, <2>1, <2>2 DEF DbWrite
<1>5. TypeOK'
  BY <1>1, <1>3, <1>4 DEF TypeOK, engineVars, cacheVars, scannerVars
<1>6. ScannerOK' /\ ReloadOK'
  BY <1>1 DEF ScannerOK, ReloadOK, engineVars, cacheVars, scannerVars
<1> QED  BY <1>3, <1>5, <1>6

LEMMA StepShape ==
    ASSUME Shape, [Next]_vars
    PROVE  Shape'
<1>1. CASE UNCHANGED vars
  BY <1>1 DEF Shape, TypeOK, QueueOK, IsGeneration, ScannerOK, ReloadOK,
     vars, engineVars, cacheVars, dbVars, scannerVars
<1>2. CASE Next
  BY <1>2, RestartShape, ChangeShape, ReloadShape, ScannerShape, DbWriteShape DEF Next
<1> QED  BY <1>1, <1>2

\* Proves TypeOK of EngineCache: the variables keep their types, through a stop
\* or crash at any point and the start after it (AppState::new).
THEOREM TypeCorrect == Spec => []TypeOK
<1>1. Shape => TypeOK
  BY DEF Shape
<1> QED  BY InitShape, StepShape, <1>1, PTL DEF Spec

-----------------------------------------------------------------------------
(* Steps that leave the queue alone.                                       *)

queueVars == <<queue, dbGen, dbFp, dbMeant, rows>>

\* A scanner forgets an entry, or keeps one under the current generation.
LEMMA MemorySound ==
    ASSUME Shape, Sound, NEW e,
           e.gen = gen, e.meant = meant, InTime(e),
           UNCHANGED <<sigs, engine, rpc, loaded, gen, meant, queueVars>>,
           \A f \in Files : entries'[f] \in {entries[f], None, e},
           \A k \in Scanners : out'[k] \in {out[k], None, e}
    PROVE  Sound'
<1> USE DEF queueVars, IsGeneration, IsFingerprint, IsRecord
<1>1. Fits' /\ Numbered'
  BY DEF Sound, Fits, Numbered, Opening
<1>2. Followed'
  BY DEF Sound, Followed, Announced, Opening
<1>3. Agreed'
  <2>1. \A g, m : Stands(g, m) => Stands(g, m)'
    BY DEF Stands
  <2>2. Stands(gen, meant) /\ Stands(gen, meant)'
    BY DEF Sound, Agreed, Stands
  <2>3. EntryStands(e)'
    BY <2>2 DEF EntryStands, Stands
  <2>4. \A x : EntryStands(x) => EntryStands(x)'
    BY <2>1 DEF EntryStands, Stands
  <2>5. \A f \in Files : EntryStands(entries[f])' /\ EntryStands(rows[f])'
    BY <2>3, <2>4 DEF Sound, Agreed, EntryStands, Stands
  <2>6. \A k \in Scanners : EntryStands(out[k])'
    BY <2>3, <2>4 DEF Sound, Agreed, EntryStands, Stands
  <2>7. \A i \in DOMAIN queue : IsRecord(i) => EntryStands(queue[i].entry)'
    BY <2>4 DEF Sound, Agreed, EntryStands, Stands
  <2> QED  BY <2>2, <2>5, <2>6, <2>7 DEF Agreed
<1>4. Paired' /\ Ordered'
  BY DEF Sound, Paired, Ordered, Level
<1> QED  BY <1>1, <1>2, <1>3, <1>4 DEF Sound

LEMMA ChangeSound ==
    ASSUME Shape, Sound, NEW s \in Sets, ChangeSignatures(s), mishaps' = {}
    PROVE  Sound'
<1> USE DEF IsGeneration, IsFingerprint, IsRecord
<1>1. /\ UNCHANGED <<engineVars, cacheVars, queue, dbVars, scannerVars>>
      /\ sigs' = s /\ ~(s < sigs)
  BY DEF ChangeSignatures
<1> USE DEF engineVars, cacheVars, dbVars, scannerVars
<1>2. Fits' /\ Numbered' /\ Followed' /\ Paired'
  BY <1>1 DEF Sound, Fits, Numbered, Followed, Announced, Opening, Paired
<1>3. Agreed'
  BY <1>1 DEF Sound, Agreed, EntryStands, Stands
<1>4. Ordered'
  <2>1. sigs \in Nat /\ s \in Nat /\ sigs <= s /\ None \notin Nat
    BY <1>1, EngineCacheAssumption DEF Shape, TypeOK, Sets
  <2>2. \A x \in Nat \cup {None} : AtMost(x, sigs) => AtMost(x, s)
    BY <2>1 DEF AtMost
  <2>3. \A x \in Nat \cup {None} : Level(x) => Level(x)'
    <3> TAKE x \in Nat \cup {None}
    <3> HAVE Level(x)
    <3>1. AtMost(x, s)
      BY <2>2 DEF Level
    <3> QED  BY <1>1, <3>1 DEF Level
  <2>4. Level(sigs)'
    <3>1. \A i \in DOMAIN queue : IsFingerprint(i) => queue[i].fp \in Nat \cup {None}
      BY WriteIs DEF Shape, TypeOK, Sets
    <3>2. dbFp \in Nat \cup {None}
      BY DEF Shape, TypeOK, Sets
    <3>3. AtMost(dbFp, s) /\ \A i \in DOMAIN queue : IsFingerprint(i) => AtMost(queue[i].fp, s)
      BY <2>2, <3>1, <3>2 DEF Sound, Ordered, Level
    <3>4. AtMost(s, s)
      BY <2>1 DEF AtMost
    <3> QED  BY <1>1, <3>3, <3>4 DEF Level
  <2>5. Level(meant)'
    <3>1. meant \in Nat \cup {None} /\ Level(meant)
      BY DEF Sound, Ordered, Shape, TypeOK, Sets
    <3> QED  BY <1>1, <2>3, <3>1 DEF Level
  <2>6. \A r \in Reloaders : Level(loaded[r])'
    <3>1. \A r \in Reloaders : loaded[r] \in Nat \cup {None} /\ Level(loaded[r])
      BY DEF Sound, Ordered, Shape, TypeOK, Sets
    <3> QED  BY <1>1, <2>3, <3>1 DEF Level
  <2>7. \A i \in DOMAIN queue : IsGeneration(i) => Level(queue[i].meant)'
    <3>1. \A i \in DOMAIN queue : IsGeneration(i) => queue[i].meant \in Nat \cup {None}
      BY WriteIs DEF Shape, TypeOK, Sets
    <3> QED  BY <1>1, <2>3, <3>1 DEF Sound, Ordered, Level
  <2>8. AtMost(dbMeant, sigs)' /\ AtMost(dbFp, dbMeant)'
    BY <1>1, <2>2 DEF Sound, Ordered, Shape, TypeOK, Sets
  <2> QED  BY <1>1, <2>4, <2>5, <2>6, <2>7, <2>8 DEF Ordered
<1> QED  BY <1>2, <1>3, <1>4 DEF Sound

LEMMA LoadSound ==
    ASSUME Shape, Sound, NEW r \in Reloaders, BeginReload(r) \/ Load(r)
    PROVE  Sound'
<1> USE DEF IsGeneration, IsFingerprint, IsRecord
<1>1. /\ UNCHANGED <<sigs, engine, gen, entries, meant, queueVars, out>>
      /\ rpc[r] \in {"idle", "load"}
      /\ \E p \in {"idle", "load", "invalidate"} : rpc' = [rpc EXCEPT ![r] = p]
      /\ loaded' = loaded \/ loaded' = [loaded EXCEPT ![r] = sigs]
  BY DEF BeginReload, Load, ReloadTo, cacheVars, dbVars, scannerVars, queueVars
<1>2. \A t \in Reloaders : /\ rpc'[t] = "enqueue" <=> rpc[t] = "enqueue"
                           /\ rpc'[t] = "publish" <=> rpc[t] = "publish"
  BY <1>1 DEF Shape, TypeOK
<1>3. \A t \in Reloaders : loaded'[t] \in {loaded[t], sigs}
  BY <1>1 DEF Shape, TypeOK
<1> USE DEF queueVars
<1>4. Fits' /\ Numbered' /\ Followed' /\ Paired'
  BY <1>1, <1>2 DEF Sound, Fits, Numbered, Followed, Announced, Opening, Paired
<1>5. Agreed'
  BY <1>1 DEF Sound, Agreed, EntryStands, Stands
<1>6. Ordered'
  BY <1>1, <1>3 DEF Sound, Ordered, Level
<1> QED  BY <1>4, <1>5, <1>6 DEF Sound

LEMMA InvalidateSound ==
    ASSUME Shape, Sound, NEW r \in Reloaders, Invalidate(r)
    PROVE  Sound'
<1> USE DEF IsGeneration, IsFingerprint, IsRecord
<1>1. /\ UNCHANGED <<sigs, engine, loaded, entries, queueVars, out>>
      /\ rpc[r] = "invalidate" /\ gen' = gen + 1 /\ meant' = loaded[r]
      /\ rpc' = [rpc EXCEPT ![r] = "enqueue"]
  BY DEF Invalidate, ReloadTo, dbVars, scannerVars, queueVars
<1>2. ~Opening /\ Opening' /\ rpc'[r] = "enqueue"
  BY <1>1 DEF Opening, Shape, ReloadOK, TypeOK
<1>3. gen \in Nat /\ dbGen \in Nat /\ gen' \in Nat
  BY <1>1 DEF Shape, TypeOK
<1>4. \A i \in DOMAIN queue : IsGeneration(i) => queue[i].gen \in Nat
  BY DEF Shape, QueueOK
<1> USE DEF queueVars
<1>5. Fits'
  BY <1>2 DEF Fits
<1>6. Numbered'
  <2>1. dbGen <= gen /\ dbGen < gen'
    BY <1>1, <1>3 DEF Sound, Numbered
  <2>2. \A i \in DOMAIN queue : IsGeneration(i) => dbGen < queue[i].gen /\ queue[i].gen < gen'
    BY <1>1, <1>3, <1>4 DEF Sound, Numbered
  <2>3. dbGen <= gen' /\ \A i \in DOMAIN queue : IsGeneration(i) => queue[i].gen <= gen'
    BY <1>3, <1>4, <2>1, <2>2
  <2> QED  BY <1>1, <2>1, <2>2, <2>3 DEF Sound, Numbered
<1>7. Followed'
  BY <1>1, <1>2 DEF Sound, Followed, Announced
<1>8. Agreed'
  <2>1. \A g \in Nat : g <= gen => g <= gen' /\ g # gen'
    BY <1>1, <1>3
  <2>2. \A g \in Nat : \A m : Stands(g, m) => Stands(g, m)'
    BY <1>1, <2>1 DEF Stands
  <2>3. Stands(gen, meant)'
    <3>1. gen' # dbGen /\ gen' <= gen'
      BY <1>1, <1>3 DEF Sound, Numbered
    <3>2. \A i \in DOMAIN queue : IsGeneration(i) => queue[i].gen # gen'
      BY <1>1, <1>3, <1>4 DEF Sound, Numbered
    <3> QED  BY <1>1, <3>1, <3>2 DEF Stands
  <2>4. \A x \in Entry \cup {None} : EntryStands(x) => EntryStands(x)'
    BY <2>2 DEF EntryStands, Stands, Entry
  <2>5. \A f \in Files : EntryStands(entries[f])' /\ EntryStands(rows[f])'
    BY <1>1, <2>4 DEF Sound, Agreed, EntryStands, Stands, Shape, TypeOK
  <2>6. \A k \in Scanners : EntryStands(out[k])'
    BY <1>1, <2>4 DEF Sound, Agreed, EntryStands, Stands, Shape, TypeOK
  <2>7. \A i \in DOMAIN queue : IsRecord(i) => EntryStands(queue[i].entry)'
    <3>1. \A i \in DOMAIN queue : IsRecord(i) => queue[i].entry \in Entry \cup {None}
      BY WriteIs DEF Shape, TypeOK
    <3> QED  BY <1>1, <2>4, <3>1 DEF Sound, Agreed, EntryStands, Stands
  <2> QED  BY <1>1, <2>3, <2>5, <2>6, <2>7 DEF Agreed
<1>9. Paired' /\ Ordered'
  BY <1>1 DEF Sound, Paired, Ordered, Level
<1> QED  BY <1>5, <1>6, <1>7, <1>8, <1>9 DEF Sound

LEMMA PublishSound ==
    ASSUME Shape, Sound, NEW r \in Reloaders, Publish(r)
    PROVE  Sound'
<1> USE DEF IsGeneration, IsFingerprint, IsRecord
<1>1. /\ UNCHANGED <<sigs, gen, meant, entries, queueVars, out>>
      /\ rpc[r] = "publish" /\ engine' = loaded[r]
      /\ rpc' = [rpc EXCEPT ![r] = "idle"]
      /\ loaded' = [loaded EXCEPT ![r] = None]
  BY DEF Publish, ReloadTo, cacheVars, dbVars, scannerVars, queueVars
<1>2. meant = loaded[r]
  BY <1>1 DEF Shape, ReloadOK
<1>3. \A t \in Reloaders : rpc'[t] = "enqueue" <=> rpc[t] = "enqueue"
  BY <1>1 DEF Shape, TypeOK
<1>4. \A t \in Reloaders : loaded'[t] \in {loaded[t], None}
  BY <1>1 DEF Shape, TypeOK
<1> USE DEF queueVars
<1>5. Fits'
  BY <1>1, <1>2 DEF Fits
<1>6. Numbered' /\ Followed' /\ Paired'
  BY <1>1, <1>3 DEF Sound, Numbered, Followed, Announced, Opening, Paired
<1>7. Agreed'
  BY <1>1 DEF Sound, Agreed, EntryStands, Stands
<1>8. Ordered'
  <2>1. Level(None)
    BY DEF Level, AtMost
  <2>2. \A t \in Reloaders : Level(loaded'[t])
    BY <1>4, <2>1 DEF Sound, Ordered
  <2> QED  BY <1>1, <2>2 DEF Sound, Ordered, Level
<1> QED  BY <1>5, <1>6, <1>7, <1>8 DEF Sound

-----------------------------------------------------------------------------
(* Steps that add to the queue.                                            *)

\* What is at which place after a write was added.
LEMMA AfterSend ==
    ASSUME Shape, NEW w \in Write, queue' = Sent(queue, w), ~Dropped(queue)
    PROVE  \E n \in Nat :
              /\ n = Len(queue) /\ Len(queue') = n + 1
              /\ \A i \in DOMAIN queue : /\ i \in 1 .. n /\ i \in DOMAIN queue'
                                         /\ queue'[i] = queue[i]
              /\ n + 1 \in DOMAIN queue' /\ queue'[n + 1] = w
              /\ \A i \in DOMAIN queue' : i \in DOMAIN queue \/ i = n + 1
              /\ 1 \in DOMAIN queue \/ n = 0
<1>1. queue \in Seq(Write) /\ Len(queue) <= QueueCap
  BY DEF Shape, TypeOK
<1>2. PICK n \in Nat : n = Len(queue) /\ DOMAIN queue = 1 .. n
  BY <1>1
<1>3. /\ Len(queue') = n + 1 /\ DOMAIN queue' = 1 .. n + 1 /\ queue'[n + 1] = w
      /\ \A i \in 1 .. n : queue'[i] = queue[i]
  BY <1>1, <1>2, SentIs
<1>4. \A i \in 1 .. n + 1 : i \in 1 .. n \/ i = n + 1
  OBVIOUS
<1>5. 1 .. n \subseteq 1 .. n + 1 /\ n + 1 \in 1 .. n + 1 /\ (1 \in 1 .. n \/ n = 0)
  OBVIOUS
<1> QED  BY <1>2, <1>3, <1>4, <1>5

LEMMA EnqueueSound ==
    ASSUME Shape, Sound, NEW r \in Reloaders, EnqueueInvalidation(r), mishaps' = {}
    PROVE  Sound'
<1> USE DEF IsGeneration, IsFingerprint, IsRecord
<1>1. /\ UNCHANGED <<sigs, engine, loaded, gen, meant, entries, dbVars, out>>
      /\ rpc[r] = "enqueue" /\ rpc' = [rpc EXCEPT ![r] = "publish"]
      /\ queue' = Sent(queue, GenerationWrite(gen, meant)) /\ ~Dropped(queue)
  BY DEF EnqueueInvalidation, ReloadTo, cacheVars, scannerVars
<1>2. Opening /\ ~Opening' /\ rpc'[r] = "publish"
  BY <1>1 DEF Opening, Shape, ReloadOK, TypeOK
<1>3. gen \in Nat /\ meant \in Sets \cup {None} /\ dbGen \in Nat
  BY DEF Shape, TypeOK
<1>4. GenerationWrite(gen, meant) \in Write
  BY <1>3 DEF GenerationWrite, Write
<1>5. PICK w \in Write : w = GenerationWrite(gen, meant)
  BY <1>4
<1>6. w.type = "generation" /\ w.gen = gen /\ w.meant = meant
  BY <1>5 DEF GenerationWrite
<1>7. PICK n \in Nat :
         /\ n = Len(queue) /\ Len(queue') = n + 1
         /\ \A i \in DOMAIN queue : /\ i \in 1 .. n /\ i \in DOMAIN queue'
                                    /\ queue'[i] = queue[i]
         /\ n + 1 \in DOMAIN queue' /\ queue'[n + 1] = w
         /\ \A i \in DOMAIN queue' : i \in DOMAIN queue \/ i = n + 1
         /\ 1 \in DOMAIN queue \/ n = 0
  BY <1>1, <1>5, AfterSend
<1>8. \A i \in DOMAIN queue : i \in Nat /\ i <= n /\ i < n + 1 /\ i # n + 1 /\ i <= n + 1
  BY <1>7
<1> USE DEF dbVars
<1>9. Fits'
  BY <1>1, <1>2 DEF Fits
<1>10. Numbered'
  <2>1. dbGen <= gen /\ dbGen < gen
    BY <1>2 DEF Sound, Numbered
  <2>2. \A i \in DOMAIN queue' : IsGeneration(i)' => dbGen < queue'[i].gen /\ queue'[i].gen <= gen
    BY <1>3, <1>6, <1>7, <2>1 DEF Sound, Numbered
  <2>3. \A i, j \in DOMAIN queue' :
          i < j /\ IsGeneration(i)' /\ IsGeneration(j)' => queue'[i].gen < queue'[j].gen
    <3> TAKE i, j \in DOMAIN queue'
    <3> HAVE i < j /\ IsGeneration(i)' /\ IsGeneration(j)'
    <3>1. i \in DOMAIN queue
      BY <1>7, <1>8
    <3>2. CASE j \in DOMAIN queue
      BY <1>7, <3>1, <3>2 DEF Sound, Numbered
    <3>3. CASE j = n + 1
      BY <1>2, <1>6, <1>7, <3>1, <3>3 DEF Sound, Numbered
    <3> QED  BY <1>7, <3>2, <3>3
  <2> QED  BY <1>1, <1>2, <2>1, <2>2, <2>3 DEF Numbered
<1>11. Followed'
  <2>1. \A g, m : Announced(g, m) => Announced(g, m)'
    BY <1>1, <1>7 DEF Announced
  <2>2. \A g : Announced(g, n) => Announced(g, n + 1)'
    BY <1>1, <1>7, <1>8 DEF Announced
  <2>3. Announced(gen, n + 1)'
    BY <1>1, <1>6, <1>7 DEF Announced
  <2>4. \A k \in Scanners : out'[k] # None => Announced(out[k].gen, Len(queue))'
    BY <1>1, <1>7, <2>2, <2>3 DEF Sound, Followed, Announced
  <2>5. \A i \in DOMAIN queue' : IsRecord(i)' => Announced(queue[i].entry.gen, i)'
    BY <1>6, <1>7, <2>1 DEF Sound, Followed, Announced
  <2> QED  BY <1>1, <1>7, <2>3, <2>4, <2>5 DEF Sound, Followed, Announced
<1>12. Agreed'
  <2>1. IsFingerprint(1)' => IsFingerprint(1)
    BY <1>6, <1>7
  <2>2. \A g, m : Stands(g, m) => Stands(g, m)'
    BY <1>1, <1>6, <1>7, <2>1 DEF Stands
  <2>3. \A x : EntryStands(x) => EntryStands(x)'
    BY <2>2 DEF EntryStands, Stands
  <2>4. \A f \in Files : EntryStands(entries[f])' /\ EntryStands(rows[f])'
    BY <1>1, <2>3 DEF Sound, Agreed, EntryStands, Stands
  <2>5. \A k \in Scanners : EntryStands(out[k])'
    BY <1>1, <2>3 DEF Sound, Agreed, EntryStands, Stands
  <2>6. \A i \in DOMAIN queue' : IsRecord(i)' => EntryStands(queue[i].entry)'
    BY <1>6, <1>7, <2>3 DEF Sound, Agreed, EntryStands, Stands
  <2>7. Stands(gen, meant)'
    BY <1>1, <2>2 DEF Sound, Agreed, Stands
  <2> QED  BY <2>4, <2>5, <2>6, <2>7 DEF Agreed
<1>13. Paired'
  <2> SUFFICES ASSUME NEW i \in DOMAIN queue', IsFingerprint(i)'
               PROVE  /\ i = 1 => dbMeant = queue'[i].fp
                      /\ i # 1 => i = 2 /\ IsGeneration(1)' /\ queue'[1].meant = queue'[i].fp
    BY <1>1 DEF Paired
  <2>1. IsFingerprint(i) /\ queue'[i] = queue[i]
    BY <1>6, <1>7
  <2> QED  BY <1>7, <2>1 DEF Sound, Paired
<1>14. Ordered'
  <2>1. \A s : Level(s) => Level(s)'
    BY <1>1, <1>6, <1>7 DEF Level
  <2>2. Level(sigs)' /\ Level(meant)' /\ \A t \in Reloaders : Level(loaded[t])'
    BY <1>1, <2>1 DEF Sound, Ordered, Level
  <2>3. \A i \in DOMAIN queue' : IsGeneration(i)' => Level(queue[i].meant)'
    BY <1>6, <1>7, <2>1 DEF Sound, Ordered, Level
  <2> QED  BY <1>1, <2>2, <2>3 DEF Sound, Ordered
<1> QED  BY <1>9, <1>10, <1>11, <1>12, <1>13, <1>14 DEF Sound

LEMMA SendRecordSound ==
    ASSUME Shape, Sound, NEW k \in Scanners, SendRecord(k), mishaps' = {}
    PROVE  Sound'
<1> USE DEF IsGeneration, IsFingerprint, IsRecord
<1>1. /\ UNCHANGED <<sigs, engine, rpc, loaded, gen, meant, entries, dbVars>>
      /\ pc[k] = "send" /\ out' = [out EXCEPT ![k] = None]
      /\ queue' = Sent(queue, [type |-> "record", file |-> file[k], entry |-> out[k]])
      /\ out[k] # None /\ out[k].gen = gen => ~Opening
  BY DEF SendRecord, KeepsStores, engineVars, Opening
<1>2. \A t \in Scanners : out'[t] \in {out[t], None}
  BY <1>1 DEF Shape, TypeOK
<1>3. CASE Dropped(queue)
  <2>1. queue' = queue
    <3>1. Len(queue) \in Nat /\ QueueCap \in Nat
      BY EngineCacheAssumption DEF Shape, TypeOK
    <3>2. ~(Len(queue) < QueueCap)
      BY <1>3, <3>1 DEF Dropped
    <3> QED  BY <1>1, <3>2 DEF Sent
  <2>2. PICK e : e = [gen |-> gen, meant |-> meant, late |-> TRUE]
    OBVIOUS
  <2>3. e.gen = gen /\ e.meant = meant /\ InTime(e)
    BY <2>2 DEF InTime
  <2> QED  BY <1>1, <1>2, <2>1, <2>3, MemorySound DEF dbVars, queueVars
<1>4. CASE ~Dropped(queue)
  <2>1. file[k] \in Files /\ out[k] \in Entry \cup {None}
    BY <1>1 DEF Shape, TypeOK, ScannerOK
  <2>2. [type |-> "record", file |-> file[k], entry |-> out[k]] \in Write
    BY <2>1 DEF Write
  <2>3. PICK w \in Write : w = [type |-> "record", file |-> file[k], entry |-> out[k]]
    BY <2>2
  <2>4. w.type = "record" /\ w.entry = out[k]
    BY <2>3
  <2>5. PICK n \in Nat :
           /\ n = Len(queue) /\ Len(queue') = n + 1
           /\ \A i \in DOMAIN queue : /\ i \in 1 .. n /\ i \in DOMAIN queue'
                                      /\ queue'[i] = queue[i]
           /\ n + 1 \in DOMAIN queue' /\ queue'[n + 1] = w
           /\ \A i \in DOMAIN queue' : i \in DOMAIN queue \/ i = n + 1
           /\ 1 \in DOMAIN queue \/ n = 0
    BY <1>1, <1>4, <2>3, AfterSend
  <2>6. \A i \in DOMAIN queue : i \in Nat /\ i <= n /\ i < n + 1 /\ i # n + 1 /\ i <= n + 1
    BY <2>5
  <2>7. \A i \in DOMAIN queue' : IsGeneration(i)' =>
           i \in DOMAIN queue /\ IsGeneration(i) /\ queue'[i] = queue[i]
    BY <2>4, <2>5
  <2>8. \A i \in DOMAIN queue' : IsFingerprint(i)' =>
           i \in DOMAIN queue /\ IsFingerprint(i) /\ queue'[i] = queue[i]
    BY <2>4, <2>5
  <2> USE DEF dbVars
  <2>9. Fits' /\ Numbered'
    BY <1>1, <2>7 DEF Sound, Fits, Numbered, Opening
  <2>10. Followed'
    <3>1. \A g, m : Announced(g, m) => Announced(g, m)'
      BY <1>1, <2>5 DEF Announced
    <3>2. \A g : Announced(g, n) => Announced(g, n + 1)'
      BY <1>1, <2>5, <2>6 DEF Announced
    <3>3. Opening' = Opening
      BY <1>1 DEF Opening
    <3>4. Opening' \/ Announced(gen, Len(queue))'
      BY <1>1, <2>5, <3>2, <3>3 DEF Sound, Followed, Announced
    <3>5. \A t \in Scanners : out'[t] # None =>
             \/ Announced(out[t].gen, Len(queue))'
             \/ Opening' /\ out'[t].gen = gen'
      BY <1>1, <1>2, <2>5, <3>2, <3>3 DEF Sound, Followed, Announced
    <3>6. out[k] # None => Announced(out[k].gen, n)
      BY <1>1, <2>5 DEF Sound, Followed
    <3>7. \A i \in DOMAIN queue' : IsRecord(i)' => Announced(queue[i].entry.gen, i)'
      <4> TAKE i \in DOMAIN queue'
      <4> HAVE IsRecord(i)'
      <4>1. CASE i \in DOMAIN queue
        <5>1. IsRecord(i) /\ queue'[i] = queue[i]
          BY <2>5, <4>1
        <5>2. PICK g : g = queue[i].entry.gen /\ Announced(g, i)
          BY <5>1 DEF Sound, Followed
        <5> QED  BY <3>1, <5>1, <5>2 DEF Announced
      <4>2. CASE i = n + 1
        <5>1. queue'[i].entry = out[k] /\ out[k] # None
          BY <2>4, <2>5, <4>2
        <5>2. PICK g : g = out[k].gen /\ Announced(g, n + 1)'
          BY <3>2, <3>6, <5>1
        <5> QED  BY <4>2, <5>1, <5>2 DEF Announced
      <4> QED  BY <2>5, <4>1, <4>2
    <3> QED  BY <1>1, <3>4, <3>5, <3>7 DEF Sound, Followed
  <2>11. Agreed'
    <3>1. \A g, m : Stands(g, m) => Stands(g, m)'
      BY <1>1, <2>7, <2>8 DEF Stands
    <3>2. \A x : EntryStands(x) => EntryStands(x)'
      BY <3>1 DEF EntryStands, Stands
    <3>3. \A f \in Files : EntryStands(entries[f])' /\ EntryStands(rows[f])'
      BY <1>1, <3>2 DEF Sound, Agreed, EntryStands, Stands
    <3>4. \A t \in Scanners : EntryStands(out[t])'
      BY <1>2, <3>2 DEF Sound, Agreed, EntryStands, Stands
    <3>5. \A i \in DOMAIN queue' : IsRecord(i)' => EntryStands(queue[i].entry)'
      <4>1. \A i \in DOMAIN queue' : IsRecord(i)' => EntryStands(queue'[i].entry)
        BY <2>4, <2>5 DEF Sound, Agreed
      <4> QED  BY <3>2, <4>1 DEF EntryStands, Stands
    <3>6. Stands(gen, meant)'
      BY <1>1, <3>1 DEF Sound, Agreed, Stands
    <3> QED  BY <3>3, <3>4, <3>5, <3>6 DEF Agreed
  <2>12. Paired'
    <3> SUFFICES ASSUME NEW i \in DOMAIN queue', IsFingerprint(i)'
                 PROVE  /\ i = 1 => dbMeant = queue'[i].fp
                        /\ i # 1 => i = 2 /\ IsGeneration(1)' /\ queue'[1].meant = queue'[i].fp
      BY <1>1 DEF Paired
    <3> QED  BY <2>5, <2>8 DEF Sound, Paired
  <2>13. Ordered'
    <3>1. \A s : Level(s) => Level(s)'
      BY <1>1, <2>8 DEF Level
    <3>2. Level(sigs)' /\ Level(meant)' /\ \A t \in Reloaders : Level(loaded[t])'
      BY <1>1, <3>1 DEF Sound, Ordered, Level
    <3>3. \A i \in DOMAIN queue' : IsGeneration(i)' => Level(queue[i].meant)'
      BY <2>7, <3>1 DEF Sound, Ordered, Level
    <3> QED  BY <1>1, <3>2, <3>3 DEF Sound, Ordered
  <2> QED  BY <2>9, <2>10, <2>11, <2>12, <2>13 DEF Sound
<1> QED  BY <1>3, <1>4

-----------------------------------------------------------------------------
(* The database writer, and the start that takes up what it stored.        *)

LEMMA DbWriteSound ==
    ASSUME Shape, Sound, DbWrite, mishaps' = {}
    PROVE  Sound'
<1> USE DEF IsGeneration, IsFingerprint, IsRecord
<1>1. /\ UNCHANGED <<sigs, engine, rpc, loaded, gen, meant, entries, out>>
      /\ queue \in Seq(Write) /\ queue # <<>> /\ queue' = Tail(queue)
  BY DEF DbWrite, engineVars, cacheVars, scannerVars, Shape, TypeOK
<1>2. PICK n \in Nat :
         /\ n # 0 /\ n = Len(queue) /\ Len(queue') = n - 1
         /\ DOMAIN queue = 1 .. n
         /\ 1 \in DOMAIN queue
         /\ DOMAIN queue' = 1 .. n - 1
         /\ \A i \in 1 .. n - 1 : queue'[i] = queue[i + 1]
         /\ Head(queue) = queue[1] /\ queue[1] \in Write
  BY <1>1, TailIs
<1>3. /\ \A i \in DOMAIN queue' : /\ i \in Nat /\ i + 1 \in DOMAIN queue /\ 1 < i + 1
                                  /\ queue'[i] = queue[i + 1]
      /\ \A i \in DOMAIN queue : /\ i \in Nat
                                 /\ i = 1 \/ \E j \in DOMAIN queue' : i = j + 1
  <2>1. \A i \in 1 .. n - 1 : i \in Nat /\ i + 1 \in 1 .. n /\ 1 < i + 1
    OBVIOUS
  <2>2. \A i \in 1 .. n : i \in Nat /\ (i # 1 => i - 1 \in 1 .. n - 1 /\ i = (i - 1) + 1)
    OBVIOUS
  <2>3. \A i \in 1 .. n : i \in Nat /\ (i # 1 => \E j \in 1 .. n - 1 : i = j + 1)
    BY <2>2
  <2> QED  BY <1>2, <2>1, <2>3
<1>4. PICK w \in Write : w = queue[1] /\ w = Head(queue)
  BY <1>2
<1>5. /\ w.type \in {"generation", "fingerprint", "record"}
      /\ w.type = "generation" => w.gen \in Nat
      /\ w.type = "record" => w.file \in Files /\ w.entry \in Entry \cup {None}
  BY WriteIs
<1>6. dbGen \in Nat /\ gen \in Nat /\ \A i \in DOMAIN queue : IsGeneration(i) => queue[i].gen \in Nat
  BY DEF Shape, TypeOK, QueueOK
\* What is stored is stored, and a generation always is.
<1>7. \/ w.type = "generation" /\ dbGen' = w.gen /\ dbMeant' = w.meant
         /\ UNCHANGED <<dbFp, rows>>
      \/ w.type = "fingerprint" /\ dbFp' \in {dbFp, w.fp} /\ UNCHANGED <<dbGen, dbMeant, rows>>
      \/ w.type = "record" /\ UNCHANGED <<dbGen, dbMeant, dbFp>>
         /\ \A f \in Files : rows'[f] = rows[f] \/ rows'[f] = w.entry
  <2>1. CASE Store(w)
    BY <1>5, <2>1 DEF Store, Shape, TypeOK
  <2>2. CASE UNCHANGED dbVars /\ w.type # "generation"
    BY <1>5, <2>2 DEF dbVars
  <2>3. Store(w) \/ (UNCHANGED dbVars /\ w.type # "generation")
    BY <1>4 DEF DbWrite
  <2> QED  BY <2>1, <2>2, <2>3
<1>8. \A i \in DOMAIN queue' : /\ IsGeneration(i)' <=> IsGeneration(i + 1)
                               /\ IsFingerprint(i)' <=> IsFingerprint(i + 1)
                               /\ IsRecord(i)' <=> IsRecord(i + 1)
  BY <1>3
\* A fingerprint comes first only behind the generation it belongs to.
<1>9. IsFingerprint(1)' => w.type = "generation" /\ w.meant = queue'[1].fp
  <2>1. \A j : j \in Nat /\ j + 1 = 2 => j = 1
    OBVIOUS
  <2>2. 1 + 1 = 2
    OBVIOUS
  <2> QED  BY <1>3, <1>4, <1>8, <2>1, <2>2 DEF Sound, Paired
<1>10. Fits'
  BY <1>1 DEF Sound, Fits, DbWrite
<1>11. Numbered'
  <2>1. \A i \in DOMAIN queue' : IsGeneration(i)' =>
           /\ dbGen < queue'[i].gen /\ queue'[i].gen <= gen
           /\ IsGeneration(1) => queue[1].gen < queue'[i].gen
           /\ Opening => queue'[i].gen < gen
    BY <1>2, <1>3 DEF Sound, Numbered
  <2>2. \A i \in DOMAIN queue' : IsGeneration(i)' => dbGen' < queue'[i].gen
    BY <1>2, <1>4, <1>7, <2>1
  <2>3. dbGen' <= gen /\ (Opening => dbGen' < gen)
    BY <1>2, <1>4, <1>7 DEF Sound, Numbered
  <2>4. Opening' = Opening
    BY <1>1 DEF Opening
  <2>5. \A i, j \in DOMAIN queue' : i < j => i + 1 < j + 1
    BY <1>3
  <2>6. \A i, j \in DOMAIN queue' :
           i < j /\ IsGeneration(i)' /\ IsGeneration(j)' => queue'[i].gen < queue'[j].gen
    BY <1>3, <2>5 DEF Sound, Numbered
  <2> QED  BY <1>1, <2>1, <2>2, <2>3, <2>4, <2>6 DEF Numbered
<1>12. Followed'
  <2>1. dbGen <= dbGen'
    BY <1>2, <1>4, <1>6, <1>7 DEF Sound, Numbered
  \* What was announced still is: its generation is stored, or one place ahead.
  <2>2. \A g \in Nat, m \in Nat : Announced(g, m + 1) => Announced(g, m)'
    <3> SUFFICES ASSUME NEW g \in Nat, NEW m \in Nat, Announced(g, m + 1)
                 PROVE  Announced(g, m)'
      OBVIOUS
    <3>1. CASE g <= dbGen
      <4>1. dbGen' \in Nat
        BY <1>5, <1>6, <1>7
      <4>2. g <= dbGen'
        BY <1>6, <2>1, <3>1, <4>1
      <4> QED  BY <4>2 DEF Announced
    <3>2. CASE \E i \in DOMAIN queue : i <= m + 1 /\ IsGeneration(i) /\ queue[i].gen = g
      <4>1. PICK i \in DOMAIN queue : i <= m + 1 /\ IsGeneration(i) /\ queue[i].gen = g
        BY <3>2
      <4>2. CASE i = 1
        <5>1. dbGen' = g
          BY <1>4, <1>7, <4>1, <4>2
        <5> QED  BY <5>1 DEF Announced
      <4>3. CASE i # 1
        <5>1. PICK j \in DOMAIN queue' : i = j + 1
          BY <1>3, <4>3
        <5>2. j <= m
          BY <1>3, <4>1, <5>1
        <5> QED  BY <1>3, <4>1, <5>1, <5>2 DEF Announced
      <4> QED  BY <4>2, <4>3
    <3> QED  BY <3>1, <3>2 DEF Announced
  <2>3. n - 1 \in Nat /\ n = (n - 1) + 1
    BY <1>2
  <2>4. \A g \in Nat : Announced(g, n) => Announced(g, n - 1)'
    BY <2>2, <2>3
  <2>5. Opening' = Opening
    BY <1>1 DEF Opening
  <2>6. Opening' \/ Announced(gen, Len(queue))'
    <3>1. Opening \/ Announced(gen, n)
      BY <1>2 DEF Sound, Followed
    <3>2. PICK g \in Nat : g = gen
      BY <1>6
    <3>3. Opening \/ Announced(g, n - 1)'
      BY <2>4, <3>1, <3>2
    <3> QED  BY <1>1, <1>2, <2>5, <3>2, <3>3 DEF Announced
  <2>7. \A k \in Scanners : out'[k] # None =>
           \/ Announced(out[k].gen, Len(queue))'
           \/ Opening' /\ out'[k].gen = gen'
    <3> SUFFICES ASSUME NEW k \in Scanners, out[k] # None, ~(Opening /\ out[k].gen = gen)
                 PROVE  Announced(out[k].gen, Len(queue))'
      BY <1>1, <2>5
    <3>1. PICK g \in Nat : g = out[k].gen
      BY DEF Shape, TypeOK, Entry
    <3>2. Announced(g, n)
      BY <1>2, <3>1 DEF Sound, Followed
    <3>3. Announced(g, n - 1)'
      BY <2>4, <3>2
    <3> QED  BY <1>1, <1>2, <3>1, <3>3 DEF Announced
  <2>8. \A i \in DOMAIN queue' : IsRecord(i)' => Announced(queue[i].entry.gen, i)'
    <3> SUFFICES ASSUME NEW i \in DOMAIN queue', IsRecord(i)'
                 PROVE  Announced(queue[i].entry.gen, i)'
      OBVIOUS
    <3>1. IsRecord(i + 1) /\ queue'[i] = queue[i + 1] /\ i \in Nat /\ i + 1 \in DOMAIN queue
      BY <1>3, <1>8
    <3>2. PICK g \in Nat : g = queue[i + 1].entry.gen
      BY <1>1, <3>1, WriteIs DEF Entry
    <3>3. Announced(g, i + 1)
      BY <3>1, <3>2 DEF Sound, Followed
    <3>4. Announced(g, i)'
      BY <2>2, <3>1, <3>3
    <3> QED  BY <3>1, <3>2, <3>4 DEF Announced
  <2>9. \A f \in Files : rows'[f] # None => rows'[f].gen <= dbGen'
    <3> SUFFICES ASSUME NEW f \in Files, rows'[f] # None
                 PROVE  rows'[f].gen <= dbGen'
      OBVIOUS
    <3>1. CASE rows'[f] = rows[f]
      <4>1. PICK g \in Nat : g = rows[f].gen
        BY <3>1 DEF Shape, TypeOK, Entry
      <4>2. dbGen' \in Nat
        BY <1>5, <1>6, <1>7
      <4>3. g <= dbGen
        BY <3>1, <4>1 DEF Sound, Followed
      <4>4. g <= dbGen'
        BY <1>6, <2>1, <4>2, <4>3
      <4> QED  BY <3>1, <4>1, <4>4
    <3>2. CASE rows'[f] = w.entry /\ w.type = "record" /\ UNCHANGED dbGen
      <4>1. IsRecord(1) /\ queue[1].entry = rows'[f]
        BY <1>2, <1>4, <3>2
      <4>2. Announced(rows'[f].gen, 1)
        BY <4>1 DEF Sound, Followed
      <4>3. \A i \in DOMAIN queue : i <= 1 => i = 1
        BY <1>2
      <4>4. ~IsGeneration(1)
        BY <1>4, <3>2
      <4> QED  BY <3>2, <4>2, <4>3, <4>4 DEF Announced
    <3> QED  BY <1>7, <3>1, <3>2
  <2> QED  BY <2>6, <2>7, <2>8, <2>9 DEF Followed
<1>13. \A g, m : Stands(g, m) => Stands(g, m)'
  <2> SUFFICES ASSUME NEW g, NEW m, Stands(g, m) PROVE Stands(g, m)'
    OBVIOUS
  <2>1. g <= gen /\ (g = gen => m = meant)
    BY DEF Stands
  <2>2. \A i \in DOMAIN queue' : IsGeneration(i)' /\ queue'[i].gen = g => queue'[i].meant = m
    BY <1>3, <1>8 DEF Stands
  <2>3. CASE w.type = "generation"
    <3>1. g = dbGen' => m = dbMeant'
      BY <1>2, <1>4, <1>7, <2>3 DEF Stands
    <3> QED  BY <1>1, <2>1, <2>2, <3>1 DEF Stands
  <2>4. CASE w.type = "fingerprint"
    <3>1. UNCHANGED <<dbGen, dbMeant>> /\ ~IsFingerprint(1)'
      BY <1>7, <1>9, <2>4
    <3>2. IsFingerprint(1)
      BY <1>2, <1>4, <2>4
    <3>3. g = dbGen => m = dbMeant
      BY <3>2 DEF Stands
    <3> QED  BY <1>1, <2>1, <2>2, <3>1, <3>3 DEF Stands
  <2>5. CASE w.type = "record"
    <3>1. UNCHANGED <<dbGen, dbMeant, dbFp>> /\ ~IsFingerprint(1)'
      BY <1>7, <1>9, <2>5
    <3>2. g = dbGen => m = dbMeant \/ (dbMeant = None /\ m = dbFp)
      BY DEF Stands
    <3> QED  BY <1>1, <2>1, <2>2, <3>1, <3>2 DEF Stands
  <2> QED  BY <1>5, <2>3, <2>4, <2>5
<1>14. Agreed'
  <2>1. \A x : EntryStands(x) => EntryStands(x)'
    BY <1>13 DEF EntryStands, Stands
  <2>2. Stands(gen, meant)'
    BY <1>1, <1>13 DEF Sound, Agreed, Stands
  <2>3. \A k \in Scanners : EntryStands(out[k])'
    BY <1>1, <2>1 DEF Sound, Agreed, EntryStands, Stands
  <2>4. \A f \in Files : EntryStands(entries[f])'
    BY <1>1, <2>1 DEF Sound, Agreed, EntryStands, Stands
  <2>5. \A f \in Files : EntryStands(rows[f])'
    <3>1. \A f \in Files : EntryStands(rows'[f])
      <4>1. w.type = "record" => EntryStands(w.entry)
        BY <1>2, <1>4 DEF Sound, Agreed, EntryStands
      <4> QED  BY <1>7, <4>1 DEF Sound, Agreed
    <3> QED  BY <2>1, <3>1 DEF EntryStands, Stands
  <2>6. \A i \in DOMAIN queue' : IsRecord(i)' => EntryStands(queue[i].entry)'
    <3>1. \A i \in DOMAIN queue' : IsRecord(i)' => EntryStands(queue'[i].entry)
      BY <1>3, <1>8 DEF Sound, Agreed
    <3> QED  BY <2>1, <3>1 DEF EntryStands, Stands
  <2> QED  BY <2>2, <2>3, <2>4, <2>5, <2>6 DEF Agreed
<1>15. Paired'
  <2> SUFFICES ASSUME NEW i \in DOMAIN queue', IsFingerprint(i)'
               PROVE  /\ i = 1 => dbMeant' = queue'[i].fp
                      /\ i # 1 => i = 2 /\ IsGeneration(1)' /\ queue'[1].meant = queue'[i].fp
    BY DEF Paired
  <2>1. IsFingerprint(i + 1) /\ i + 1 # 1 /\ i \in Nat
    BY <1>3, <1>8
  <2>2. i + 1 = 2
    BY <1>3, <2>1 DEF Sound, Paired
  <2>3. i = 1
    BY <2>1, <2>2
  <2>4. dbMeant' = queue'[1].fp
    BY <1>7, <1>9, <2>3
  <2> QED  BY <2>3, <2>4
<1>16. Ordered'
  <2>1. w.type = "fingerprint" => IsFingerprint(1) /\ dbFp' \in {dbFp, queue[1].fp} /\ dbMeant' = queue[1].fp
    BY <1>2, <1>4, <1>7 DEF Sound, Paired
  <2>2. w.type # "fingerprint" => dbFp' = dbFp
    BY <1>7
  <2>3. \A s : Level(s) => Level(s)'
    <3> SUFFICES ASSUME NEW s, Level(s) PROVE Level(s)'
      OBVIOUS
    <3>1. AtMost(dbFp', s)
      BY <2>1, <2>2 DEF Level
    <3>2. \A i \in DOMAIN queue' : IsFingerprint(i)' => AtMost(queue'[i].fp, s)
      BY <1>3, <1>8 DEF Level
    <3> QED  BY <1>1, <3>1, <3>2 DEF Level
  <2>4. Level(sigs)' /\ Level(meant)' /\ \A t \in Reloaders : Level(loaded[t])'
    BY <1>1, <2>3 DEF Sound, Ordered, Level
  <2>5. \A i \in DOMAIN queue' : IsGeneration(i)' => Level(queue[i].meant)'
    BY <1>3, <1>8, <2>3 DEF Sound, Ordered, Level
  <2>6. CASE w.type = "generation"
    <3>1. Level(dbMeant')
      BY <1>2, <1>4, <1>7, <2>6 DEF Sound, Ordered
    <3> QED  BY <1>1, <2>2, <2>4, <2>5, <2>6, <3>1 DEF Ordered, Level
  <2>7. CASE w.type = "fingerprint"
    <3>1. AtMost(dbMeant, sigs) /\ AtMost(dbFp, dbMeant)
      BY DEF Sound, Ordered
    <3>2. UNCHANGED dbMeant /\ AtMost(dbMeant, dbMeant)
      <4>1. dbMeant \in Nat \cup {None}
        BY DEF Shape, TypeOK, Sets
      <4> QED  BY <1>7, <2>7, <4>1 DEF AtMost
    <3> QED  BY <1>1, <2>1, <2>4, <2>5, <2>7, <3>1, <3>2 DEF Ordered
  <2>8. CASE w.type = "record"
    BY <1>1, <1>7, <2>4, <2>5, <2>8 DEF Sound, Ordered
  <2> QED  BY <1>5, <2>6, <2>7, <2>8
<1> QED  BY <1>10, <1>11, <1>12, <1>14, <1>15, <1>16 DEF Sound

\* A start whose fingerprint is the stored one, with sets only going up: the
\* stored generation stands for that set, or will.
LEMMA SameSet ==
    ASSUME Shape, Sound, NEW s, dbFp = s, s = sigs \/ s = None,
           NEW m, m = IF dbMeant = None THEN s ELSE dbMeant
    PROVE  /\ s # None => m = s
           /\ m = dbMeant \/ (dbMeant = None /\ m = dbFp)
           /\ AtMost(m, sigs) /\ AtMost(dbFp, m)
<1>1. sigs \in Nat /\ dbMeant \in Nat \cup {None} /\ None \notin Nat
  BY EngineCacheAssumption DEF Shape, TypeOK, Sets
<1>2. AtMost(dbMeant, sigs) /\ AtMost(dbFp, dbMeant)
  BY DEF Sound, Ordered
<1> QED  BY <1>1, <1>2 DEF AtMost

LEMMA RestartSound ==
    ASSUME Shape, Sound, Restart, mishaps' = {}
    PROVE  Sound'
<1> USE DEF IsGeneration, IsFingerprint, IsRecord
<1>1. PICK s \in {sigs, None}, g0 \in {dbGen, 1}, fp \in {dbFp, 0} :
             /\ engine' = s
             /\ \/ /\ SameFingerprint(fp, s)
                   /\ gen' = g0
                   /\ meant' = IF dbMeant = None THEN s ELSE dbMeant
                   /\ queue' = <<>>
                \/ /\ gen' = g0 + 1
                   /\ meant' = s
                   /\ queue' = SyncWrites(g0 + 1, s)
             /\ \A f \in Files : entries'[f] \in {Loaded(f, g0), None}
             /\ fp # s /\ SameFingerprint(fp, s) => mishaps' # {}
             /\ g0 # dbGen => mishaps' # {}
  BY RestartIs
<1>2. /\ UNCHANGED <<sigs, dbVars>>
      /\ engine' = s
      /\ \A f \in Files : entries'[f] \in {rows[f], None}
      /\ \A r \in Reloaders : rpc'[r] = "idle" /\ loaded'[r] = None
      /\ \A k \in Scanners : out'[k] = None
  BY <1>1, RestartSets DEF Loaded, Shape
<1>3. /\ s \in Nat \cup {None} /\ s \in Sets \cup {None} /\ sigs \in Nat /\ dbGen \in Nat
      /\ None \notin Nat
  BY EngineCacheAssumption DEF Shape, TypeOK, Sets
<1>4. \A f \in Files : rows[f] # None => /\ rows[f].gen \in Nat /\ rows[f].gen <= dbGen
                                         /\ rows[f].meant # None
                                         /\ Stands(rows[f].gen, rows[f].meant)
  BY EngineCacheAssumption DEF Sound, Followed, Agreed, EntryStands, Shape, TypeOK, Entry, Sets
<1>5. ~Opening'
  BY <1>2 DEF Opening
<1>6. \A r \in Reloaders : Level(loaded[r])'
  BY <1>2 DEF Level, AtMost
<1>7. AtMost(sigs, sigs) /\ AtMost(dbFp, sigs) /\ AtMost(dbMeant, sigs) /\ AtMost(dbFp, dbMeant)
  BY <1>3 DEF Sound, Ordered, Level, AtMost
<1> USE DEF dbVars
<1>8. CASE dbFp = s /\ gen' = dbGen /\ queue' = <<>>
           /\ meant' = IF dbMeant = None THEN s ELSE dbMeant
  <2>1. PICK m : m = IF dbMeant = None THEN s ELSE dbMeant
    OBVIOUS
  <2>2. queue' = <<>> /\ gen' = dbGen /\ meant' = m
    BY <1>8, <2>1
  <2>3. DOMAIN queue' = {}
    BY <2>2
  <2>4. /\ s # None => m = s
        /\ m = dbMeant \/ (dbMeant = None /\ m = dbFp)
        /\ AtMost(m, sigs) /\ AtMost(dbFp, m)
    BY <1>8, <2>1, SameSet
  <2>5. Fits' /\ Numbered' /\ Paired'
    BY <1>2, <1>3, <1>5, <2>2, <2>3, <2>4 DEF Fits, Numbered, Paired
  <2>6. Followed'
    BY <1>2, <1>3, <1>4, <2>2, <2>3 DEF Followed, Announced
  <2>7. Agreed'
    <3>1. Stands(gen, meant)'
      BY <1>2, <1>3, <2>2, <2>3, <2>4 DEF Stands
    <3>2. \A f \in Files : rows[f] # None => Stands(rows[f].gen, rows[f].meant)'
      <4> SUFFICES ASSUME NEW f \in Files, rows[f] # None
                   PROVE  Stands(rows[f].gen, rows[f].meant)'
        OBVIOUS
      <4>1. rows[f].gen = dbGen => rows[f].meant = dbMeant
                                   \/ (dbMeant = None /\ rows[f].meant = dbFp)
        BY <1>4 DEF Stands
      <4>2. rows[f].gen = dbGen => rows[f].meant = m
        BY <1>4, <1>8, <2>1, <4>1
      <4> QED  BY <1>2, <1>4, <2>2, <2>3, <4>1, <4>2 DEF Stands
    <3>3. \A f \in Files : rows[f] # None => InTime(rows[f])
      BY DEF Sound, Agreed, EntryStands
    <3>4. \A f \in Files : EntryStands(rows[f])'
      BY <1>2, <3>2, <3>3 DEF EntryStands, Stands, InTime
    <3>5. \A f \in Files : EntryStands(entries[f])'
      BY <1>2, <3>2, <3>3 DEF EntryStands, Stands, InTime
    <3> QED  BY <1>2, <2>3, <3>1, <3>4, <3>5 DEF Agreed, EntryStands
  <2>8. Ordered'
    BY <1>2, <1>6, <1>7, <2>2, <2>3, <2>4 DEF Ordered, Level
  <2> QED  BY <2>5, <2>6, <2>7, <2>8 DEF Sound
<1>9. CASE gen' = dbGen + 1 /\ meant' = s /\ queue' = SyncWrites(dbGen + 1, s)
  <2>1. PICK g \in Nat : g = dbGen + 1
    BY <1>3
  <2>2. queue' = SyncWrites(g, s) /\ gen' = g /\ meant' = s
    BY <1>9, <2>1
  <2>3. /\ queue' \in Seq(Write) /\ 1 \in DOMAIN queue'
        /\ \A i \in DOMAIN queue' :
              \/ i = 1 /\ queue'[i] = GenerationWrite(g, s)
              \/ i = 2 /\ queue'[i] = FingerprintWrite(s)
    BY <1>3, <2>2, SyncWritesAre
  <2>4. /\ queue'[1].type = "generation" /\ queue'[1].gen = g /\ queue'[1].meant = s
        /\ IsGeneration(1)' /\ ~IsFingerprint(1)'
        /\ \A i \in DOMAIN queue' : IsGeneration(i)' => i = 1
        /\ \A i \in DOMAIN queue' : IsFingerprint(i)' => i = 2 /\ queue'[i].fp = s
        /\ \A i \in DOMAIN queue' : ~IsRecord(i)'
    BY <2>3 DEF GenerationWrite, FingerprintWrite
  <2>5. dbGen < g /\ dbGen <= g /\ g <= g
    BY <1>3, <2>1
  <2>6. Fits' /\ Paired'
    BY <1>2, <2>2, <2>4 DEF Fits, Paired
  <2>7. Numbered'
    BY <1>2, <1>5, <2>2, <2>4, <2>5 DEF Numbered
  <2>8. Followed'
    <3>1. 1 <= Len(queue')
      BY <2>3
    <3>2. Announced(gen, Len(queue))'
      BY <2>2, <2>4, <3>1 DEF Announced
    <3> QED  BY <1>2, <1>4, <2>4, <3>2 DEF Followed
  <2>9. Agreed'
    <3>1. Stands(gen, meant)'
      BY <1>2, <1>3, <2>2, <2>4, <2>5 DEF Stands
    <3>2. \A f \in Files : rows[f] # None => Stands(rows[f].gen, rows[f].meant)'
      <4> SUFFICES ASSUME NEW f \in Files, rows[f] # None
                   PROVE  Stands(rows[f].gen, rows[f].meant)'
        OBVIOUS
      <4>1. rows[f].gen < g /\ rows[f].gen <= g /\ rows[f].gen # g
        BY <1>3, <1>4, <2>1
      <4>2. rows[f].gen = dbGen => rows[f].meant = dbMeant
                                   \/ (dbMeant = None /\ rows[f].meant = dbFp)
        BY <1>4 DEF Stands
      <4> QED  BY <1>2, <2>2, <2>4, <4>1, <4>2 DEF Stands
    <3>3. \A f \in Files : rows[f] # None => InTime(rows[f])
      BY DEF Sound, Agreed, EntryStands
    <3>4. \A f \in Files : EntryStands(rows[f])'
      BY <1>2, <3>2, <3>3 DEF EntryStands, Stands, InTime
    <3>5. \A f \in Files : EntryStands(entries[f])'
      BY <1>2, <3>2, <3>3 DEF EntryStands, Stands, InTime
    <3> QED  BY <1>2, <2>4, <3>1, <3>4, <3>5 DEF Agreed, EntryStands
  <2>10. Ordered'
    <3>1. AtMost(s, sigs) /\ AtMost(dbFp, s) /\ AtMost(s, s)
      BY <1>3, <1>7 DEF AtMost
    <3>2. Level(sigs)' /\ Level(meant)'
      BY <1>2, <1>7, <2>2, <2>4, <3>1 DEF Level
    <3>3. \A i \in DOMAIN queue' : IsGeneration(i)' => Level(queue[i].meant)'
      BY <2>2, <2>4, <3>2 DEF Level
    <3> QED  BY <1>2, <1>6, <1>7, <3>2, <3>3 DEF Ordered
  <2> QED  BY <2>6, <2>7, <2>8, <2>9, <2>10 DEF Sound
<1>10. g0 = dbGen /\ (fp = s \/ ~SameFingerprint(fp, s))
  BY <1>1
<1>11. fp = s => dbFp = s
  BY <1>3 DEF Sets
<1> QED  BY <1>1, <1>8, <1>9, <1>10, <1>11

-----------------------------------------------------------------------------
(* The invariant.                                                          *)

LEMMA InitSound == Init => Sound
<1> SUFFICES ASSUME Init PROVE Sound
  OBVIOUS
<1> USE DEF IsGeneration, IsFingerprint, IsRecord
<1>1. /\ sigs = 1 /\ dbGen = 1 /\ dbFp = 0 /\ dbMeant = None /\ engine = 1
      /\ gen = 2 /\ meant = 1 /\ queue = SyncWrites(2, 1)
      /\ \A f \in Files : entries[f] = None /\ rows[f] = None
      /\ \A r \in Reloaders : rpc[r] = "idle" /\ loaded[r] = None
      /\ \A k \in Scanners : out[k] = None
  BY DEF Init
<1>2. 1 \in Sets /\ None \notin Nat
  BY EngineCacheAssumption DEF Sets
<1>3. /\ queue \in Seq(Write) /\ 1 \in DOMAIN queue
      /\ \A i \in DOMAIN queue :
            \/ i = 1 /\ queue[i] = GenerationWrite(2, 1)
            \/ i = 2 /\ queue[i] = FingerprintWrite(1)
  <2>1. PICK g \in Nat, s \in Sets \cup {None} : g = 2 /\ s = 1
    BY <1>2
  <2>2. /\ queue \in Seq(Write) /\ 1 \in DOMAIN queue
        /\ \A i \in DOMAIN queue :
              \/ i = 1 /\ queue[i] = GenerationWrite(g, s)
              \/ i = 2 /\ queue[i] = FingerprintWrite(s)
    BY <1>1, <2>1, SyncWritesAre
  <2> QED  BY <2>1, <2>2
<1>4. /\ IsGeneration(1) /\ queue[1].gen = 2 /\ queue[1].meant = 1 /\ ~IsFingerprint(1)
      /\ \A i \in DOMAIN queue : IsGeneration(i) => i = 1
      /\ \A i \in DOMAIN queue : IsFingerprint(i) => i = 2 /\ queue[i].fp = 1
      /\ \A i \in DOMAIN queue : ~IsRecord(i)
  BY <1>3 DEF GenerationWrite, FingerprintWrite
<1>5. ~Opening
  BY <1>1 DEF Opening
<1>6. Fits /\ Numbered /\ Paired
  BY <1>1, <1>4, <1>5 DEF Fits, Numbered, Paired
<1>7. Followed
  <2>1. 1 <= Len(queue)
    BY <1>3
  <2> QED  BY <1>1, <1>4, <2>1 DEF Followed, Announced
<1>8. Agreed
  BY <1>1, <1>4 DEF Agreed, EntryStands, Stands
<1>9. Ordered
  BY <1>1, <1>4 DEF Ordered, Level, AtMost
<1> QED  BY <1>6, <1>7, <1>8, <1>9 DEF Sound

LEMMA ScannerSound ==
    ASSUME Shape, Sound, NEW k \in Scanners, Scanner(k), mishaps' = {}
    PROVE  Sound'
<1>1. CASE SendRecord(k)
  BY <1>1, SendRecordSound
<1>2. CASE RecordClean(k)
  <2>1. PICK s \in {held[k], None} : \E e :
           /\ e = [set |-> s, gen |-> gen, meant |-> meant, late |-> Late(k)]
           /\ entries' = [entries EXCEPT ![file[k]] = e]
           /\ out' = [out EXCEPT ![k] = e]
    BY <1>2 DEF RecordClean
  <2>e. PICK e :
           /\ e = [set |-> s, gen |-> gen, meant |-> meant, late |-> Late(k)]
           /\ entries' = [entries EXCEPT ![file[k]] = e]
           /\ out' = [out EXCEPT ![k] = e]
    BY <2>1
  <2>2. e.gen = gen /\ e.meant = meant /\ e.set = s /\ e.late = Late(k)
    BY <2>e
  <2>3. InTime(e)
    <3>1. held[k] \in Sets /\ None \notin Sets
      BY <1>2, EngineCacheAssumption DEF RecordClean, Shape, ScannerOK, Sets
    <3>2. ~Late(k) => held[k] = meant
      BY <3>1 DEF Late, Switching, Sound, Fits
    <3> QED  BY <2>2, <3>2 DEF InTime
  <2>4. /\ \A f \in Files : entries'[f] \in {entries[f], None, e}
        /\ \A t \in Scanners : out'[t] \in {out[t], None, e}
    BY <2>e DEF Shape, TypeOK
  <2>5. UNCHANGED <<sigs, engine, rpc, loaded, gen, meant, queueVars>>
    BY <1>2 DEF RecordClean, KeepsStores, engineVars, dbVars, queueVars
  <2> QED  BY <2>2, <2>3, <2>4, <2>5, MemorySound
<1>3. CASE ~SendRecord(k) /\ ~RecordClean(k)
  <2>1. PICK e : e = [gen |-> gen, meant |-> meant, set |-> None, late |-> TRUE]
    OBVIOUS
  <2>2. e.gen = gen /\ e.meant = meant /\ InTime(e)
    BY <2>1 DEF InTime
  <2>3. /\ UNCHANGED <<sigs, engine, rpc, loaded, gen, meant, queueVars>>
        /\ \/ UNCHANGED <<entries, out>>
           \/ /\ entries' = [entries EXCEPT ![file[k]] = None]
              /\ out' = [out EXCEPT ![k] = None]
    BY <1>3 DEF Scanner, Start, BeginScan, RecordThreat, NoRecord, Stop,
       KeepsStores, engineVars, dbVars, queueVars
  <2>4. /\ \A f \in Files : entries'[f] \in {entries[f], None, e}
        /\ \A t \in Scanners : out'[t] \in {out[t], None, e}
    BY <2>3 DEF Shape, TypeOK
  <2> QED  BY <2>2, <2>3, <2>4, MemorySound
<1> QED  BY <1>1, <1>2, <1>3

\* A mishap is for good.
LEMMA NextMishap ==
    ASSUME [Next]_vars, mishaps' = {}
    PROVE  mishaps = {}
<1>1. CASE UNCHANGED vars
  BY <1>1 DEF vars
<1>6. CASE Restart
  BY <1>6 DEF Restart, StartService
<1>4. CASE DbWrite
  BY <1>4 DEF DbWrite
<1>5. ASSUME NEW s \in Sets, ChangeSignatures(s) PROVE mishaps = {}
  BY <1>5 DEF ChangeSignatures
<1>2. ASSUME NEW r \in Reloaders, Reload(r) PROVE mishaps = {}
  BY <1>2 DEF Reload, BeginReload, Load, Invalidate, EnqueueInvalidation, Publish
<1>3. ASSUME NEW k \in Scanners, Scanner(k) PROVE mishaps = {}
  BY <1>3 DEF Scanner, Start, BeginScan, RecordClean, RecordThreat, SendRecord, NoRecord,
     Stop
<1> QED  BY <1>1, <1>2, <1>3, <1>4, <1>5, <1>6 DEF Next

LEMMA StepInvariant ==
    ASSUME IInv, [Next]_vars
    PROVE  IInv'
<1>1. Shape'
  BY StepShape DEF IInv
<1>2. ASSUME mishaps' = {} PROVE Sound'
  <2>1. Shape /\ Sound
    BY <1>2, NextMishap DEF IInv
  <2>2. CASE UNCHANGED vars
    BY <2>1, <2>2 DEF vars, engineVars, cacheVars, dbVars, scannerVars, Sound, Fits,
       Numbered, Followed, Announced, Opening, Agreed, EntryStands, Stands, Paired,
       Ordered, Level, IsGeneration, IsFingerprint, IsRecord
  <2>3. CASE Restart
    BY <1>2, <2>1, <2>3, RestartSound
  <2>4. ASSUME NEW s \in Sets, ChangeSignatures(s) PROVE Sound'
    BY <1>2, <2>1, <2>4, ChangeSound
  <2>5. ASSUME NEW r \in Reloaders, Reload(r) PROVE Sound'
    BY <1>2, <2>1, <2>5, LoadSound, InvalidateSound, EnqueueSound, PublishSound DEF Reload
  <2>6. ASSUME NEW k \in Scanners, Scanner(k) PROVE Sound'
    BY <1>2, <2>1, <2>6, ScannerSound
  <2>7. CASE DbWrite
    BY <1>2, <2>1, <2>7, DbWriteSound
  <2> QED  BY <2>2, <2>3, <2>4, <2>5, <2>6, <2>7 DEF Next
<1> QED  BY <1>1, <1>2 DEF IInv

LEMMA Invariant == Spec => []IInv
<1>1. Init => IInv
  BY InitShape, InitSound DEF IInv
<1> QED  BY <1>1, StepInvariant, PTL DEF Spec

\* Proves GenerationFitsEngine of EngineCache: a start or reload never leaves
\* the service with an engine whose set is not the one the current generation
\* was opened for (AppState::new, reload_engine).
THEOREM GenerationFitsEngineHolds == Spec => []GenerationFitsEngine
<1>1. IInv => GenerationFitsEngine
  <2> SUFFICES ASSUME IInv, mishaps = {}, ~reloading, engine # None
               PROVE  meant = engine
    BY DEF GenerationFitsEngine
  <2>1. \A r \in Reloaders : rpc[r] = "idle"
    BY DEF IInv, Shape, ReloadOK
  <2> QED  BY <2>1 DEF IInv, Sound, Fits
<1> QED  BY <1>1, Invariant, PTL

\* Proves HitsAreCurrent of EngineCache: what check_with_metadata calls clean was
\* recorded under the set the current generation was opened for, and, unless the
\* scan was late or the engine was not asked, found clean with it.
THEOREM HitsAreCurrentHolds == Spec => []HitsAreCurrent
<1>1. IInv => HitsAreCurrent
  <2> SUFFICES ASSUME IInv, mishaps = {}, NEW f \in Files, Hit(f)
               PROVE  /\ entries[f].meant = meant
                      /\ entries[f].late \/ entries[f].set \in {meant, None}
    BY DEF HitsAreCurrent
  <2>1. entries[f].meant = meant
    BY DEF IInv, Sound, Agreed, EntryStands, Stands, Hit
  <2>2. InTime(entries[f])
    BY DEF IInv, Sound, Agreed, EntryStands, Hit
  <2> QED  BY <2>1, <2>2 DEF InTime
<1> QED  BY <1>1, Invariant, PTL

=============================================================================
