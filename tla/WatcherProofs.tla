---------------------------- MODULE WatcherProofs ----------------------------
(***************************************************************************)
(* Theorems of Watcher: what its cache lets pass was found clean, and what *)
(* it takes from the user is what was found; for every set of files, every *)
(* bound and any number of accidents.                                      *)
(*                                                                         *)
(* The argument rests on the stamps: as long as no write keeps one, what   *)
(* was read of a file under a stamp is what the file holds while it has    *)
(* that stamp.                                                             *)
(***************************************************************************)
EXTENDS Watcher, FiniteSetTheorems, TLAPS

(* The types, one variable or two at a time.                               *)

Disks == [Files -> File \cup {None}]
Tasks == [at : Points, file : Files \cup {None}, meta : Stamps, id : Stamps,
          found : BOOLEAN, sha : Contents, score : Contents, error : BOOLEAN,
          partial : BOOLEAN]
Caches == [Files -> [stamp : Stamps, fp : Contents, clean : BOOLEAN] \cup {None}]
Threads == [Files -> [at : {"off", "capture", "detonate", "check", "take"}, id : Stamps]]

WorldType ==
  /\ disk \in Disks /\ writes \in Stamps /\ edits \in 0 .. MaxTrust
  /\ trusted \subseteq Threats /\ trusted \subseteq vouched /\ vouched \subseteq Contents
IntakeType ==
  /\ queue \in Seq(Files) /\ Len(queue) <= QueueCap
  /\ recent \subseteq Files /\ Cardinality(recent) <= DebounceCap
  /\ overflow \in BOOLEAN /\ batch \subseteq Files
TaskType == t \in Tasks /\ (t.at # "next" => t.file \in Files)
CacheType == cache \in Caches
ThreadType == sb \in Threads /\ dedup \subseteq Files
HistoryType == mishaps \subseteq Mishaps /\ taken \subseteq Contents
Types == WorldType /\ IntakeType /\ TaskType /\ CacheType /\ ThreadType /\ HistoryType

Stable == "inplace" \notin mishaps

\* No stamp is of the future.
StampOK ==
  /\ \A f \in Files :
       /\ There(f) => disk[f].stamp <= writes
       /\ cache[f] # None => cache[f].stamp <= writes
       /\ sb[f].id <= writes
  /\ t.meta <= writes /\ t.id <= writes

\* The analysis failed, or the settings had it switched off.
Unread == t.error \/ "heuristics" \in mishaps

\* What the layers read of the file is what it holds, if it still is the file
\* the metadata were read of; only a file ARGUS has not read has no hash.
AnalysisOK ==
  /\ t.at \notin {"verdict", "check", "take"} => t.sha = "clean" /\ t.score = "clean"
  /\ t.at \notin {"argus", "verdict", "check", "take"} => ~t.found
  /\ t.at = "check" => t.found \/ t.score = "bad"
  /\ Stable /\ t.at = "verdict" /\ Same(t.file, t.meta) =>
       /\ t.sha = disk[t.file].content \/ (t.sha = "clean" /\ Unread)
       /\ Unread \/ t.partial \/ t.score = disk[t.file].content

\* What was found is in the file, if it still is the file whose identity was
\* captured.
FoundOK ==
  Stable /\ t.at # "next" /\ Same(t.file, t.id) =>
    /\ t.found => disk[t.file].content = "bad"
    /\ t.score = "bad" => disk[t.file].content = "bad"

\* So it is with what the sandbox saw.
DetonatedOK ==
  \A f \in Files :
    Stable /\ sb[f].at = "check" /\ Same(f, sb[f].id) => disk[f].content = "grey"

\* Past the second look nothing but a threat is taken, unless it came later.
TakeOK ==
  Stable /\ "late" \notin mishaps =>
    /\ t.at = "take" /\ There(t.file) => disk[t.file].content # "clean"
    /\ \A f \in Files : sb[f].at = "take" /\ There(f) => disk[f].content # "clean"
    /\ "clean" \notin taken

IInv == Types /\ StampOK /\ AnalysisOK /\ FoundOK /\ DetonatedOK /\ TakeOK /\ CleanWasScanned

-----------------------------------------------------------------------------
(* What the steps do to the file at work.                                  *)

\* The step goes on with the same file.
Carries == t'.file = t.file /\ t'.meta = t.meta /\ t'.id = t.id
Reads == t'.found = t.found /\ t'.sha = t.sha /\ t'.score = t.score

LEMMA IdleType ==
  /\ Idle \in Tasks /\ Idle.at = "next" /\ Idle.meta = 0 /\ Idle.id = 0
  /\ ~Idle.found /\ Idle.sha = "clean" /\ Idle.score = "clean"
<1>1. 0 \in Stamps
  BY WatcherAssumption DEF Stamps
<1> QED
  BY <1>1 DEF Idle, Tasks, Points, Contents

LEMMA StepTask ==
  ASSUME TaskType, NEW at \in Points, Step(at)
  PROVE  /\ t' \in Tasks /\ t'.at = at /\ Carries /\ Reads
         /\ t'.error = t.error /\ t'.partial = t.partial
BY DEF TaskType, Tasks, Step, Carries, Reads

LEMMA DoneTask ==
  ASSUME Done
  PROVE  /\ t' \in Tasks /\ t'.at = "next" /\ t'.meta = 0 /\ t'.id = 0
         /\ ~t'.found /\ t'.sha = "clean" /\ t'.score = "clean"
BY IdleType DEF Done

LEMMA ExamineTask ==
  ASSUME Types, NEW f \in Files, Examine(f)
  PROVE  \/ UNCHANGED t
         \/ /\ t.at = "next" /\ t' \in Tasks /\ t'.at = "capture" /\ t'.file = f
            /\ There(f) /\ t'.meta = disk[f].stamp /\ t'.id = t.id /\ Reads
<1>1. SUFFICES ASSUME There(f), t' = [t EXCEPT !.at = "capture", !.file = f, !.meta = disk[f].stamp]
               PROVE  /\ t' \in Tasks /\ t'.at = "capture" /\ t'.file = f
                      /\ t'.meta = disk[f].stamp /\ t'.id = t.id /\ Reads
  BY DEF Examine
<1>2. disk[f].stamp \in Stamps
  BY <1>1 DEF Types, WorldType, Disks, File, There
<1> QED
  BY <1>1, <1>2 DEF Types, TaskType, Tasks, Points, Reads

LEMMA CaptureTask ==
  ASSUME Types, Capture
  PROVE  \/ Done
         \/ /\ t.at = "capture" /\ t' \in Tasks /\ t'.at = "cache" /\ There(t.file)
            /\ t'.file = t.file /\ t'.meta = t.meta /\ t'.id = disk[t.file].stamp /\ Reads
<1>1. SUFFICES ASSUME There(t.file), t' = [t EXCEPT !.at = "cache", !.id = disk[t.file].stamp]
               PROVE  /\ t' \in Tasks /\ t'.at = "cache" /\ t'.file = t.file
                      /\ t'.meta = t.meta /\ t'.id = disk[t.file].stamp /\ Reads
  BY DEF Capture
<1>2. t.file \in Files
  BY DEF Capture, Types, TaskType
<1>3. disk[t.file].stamp \in Stamps
  BY <1>1, <1>2 DEF Types, WorldType, Disks, File, There
<1> QED
  BY <1>1, <1>3 DEF Types, TaskType, Tasks, Points, Reads

LEMMA ClamTask ==
  ASSUME Types, ScanClam
  PROVE  \/ Done
         \/ /\ t.at = "clam" /\ t' \in Tasks /\ t'.at = "argus" /\ Carries /\ There(t.file)
            /\ t'.sha = t.sha /\ t'.score = t.score
            /\ t'.found = t.found \/ ~t'.found \/ disk[t.file].content = "bad"
<1>1. SUFFICES ASSUME ~Done
               PROVE  /\ t' \in Tasks /\ t'.at = "argus" /\ Carries
                      /\ t'.sha = t.sha /\ t'.score = t.score
                      /\ t'.found = t.found \/ ~t'.found \/ disk[t.file].content = "bad"
  BY DEF ScanClam
<1>2. PICK infected \in {FALSE, disk[t.file].content = "bad"} :
         \/ t' = [t EXCEPT !.at = "argus", !.found = infected]
         \/ t' = [t EXCEPT !.at = "argus", !.error = TRUE]
         \/ t' = [t EXCEPT !.at = "argus", !.found = infected, !.partial = TRUE]
  BY <1>1 DEF ScanClam
<1>3. infected \in BOOLEAN
  OBVIOUS
<1>4. infected => disk[t.file].content = "bad"
  OBVIOUS
<1>5. CASE t' = [t EXCEPT !.at = "argus", !.found = infected]
  <2>1. t' \in Tasks /\ t'.at = "argus" /\ Carries /\ t'.sha = t.sha /\ t'.score = t.score
    BY <1>3, <1>5 DEF Types, TaskType, Tasks, Points, Carries
  <2>2. t'.found = infected
    BY <1>5 DEF Types, TaskType, Tasks
  <2> QED
    BY <2>1, <2>2, <1>3, <1>4
<1>6. CASE t' = [t EXCEPT !.at = "argus", !.error = TRUE]
  BY <1>6 DEF Types, TaskType, Tasks, Points, Carries
<1>7. CASE t' = [t EXCEPT !.at = "argus", !.found = infected, !.partial = TRUE]
  <2>1. t' \in Tasks /\ t'.at = "argus" /\ Carries /\ t'.sha = t.sha /\ t'.score = t.score
    BY <1>3, <1>7 DEF Types, TaskType, Tasks, Points, Carries
  <2>2. t'.found = infected
    BY <1>7 DEF Types, TaskType, Tasks
  <2> QED
    BY <2>1, <2>2, <1>3, <1>4
<1> QED
  BY <1>2, <1>5, <1>6, <1>7

LEMMA AnalyzeTask ==
  ASSUME Types, Analyze
  PROVE  /\ t.at = "argus" /\ t' \in Tasks /\ t'.at = "verdict" /\ Carries
         /\ t'.found = t.found
         /\ mishaps \subseteq mishaps'
         /\ \/ Unread' /\ t'.sha = t.sha /\ t'.score = t.score
            \/ /\ There(t.file) /\ t'.sha = disk[t.file].content
               /\ \/ t'.score = disk[t.file].content
                  \/ t'.partial /\ t'.score = "clean"
<1>1. t.at = "argus" /\ t.file \in Files /\ mishaps \subseteq mishaps'
  BY DEF Analyze, Types, TaskType, Mishap, NoMishap
<1>2. CASE t' = [t EXCEPT !.at = "verdict", !.error = TRUE]
  BY <1>1, <1>2 DEF Types, TaskType, Tasks, Points, Carries, Unread
<1>3. ASSUME There(t.file) PROVE disk[t.file].content \in Contents /\ "clean" \in Contents
  BY <1>1, <1>3 DEF Types, WorldType, Disks, File, There, Contents
<1>4. CASE /\ There(t.file)
           /\ t' = [t EXCEPT !.at = "verdict", !.sha = disk[t.file].content,
                             !.score = disk[t.file].content]
  BY <1>1, <1>3, <1>4 DEF Types, TaskType, Tasks, Points, Carries
<1>5. ASSUME There(t.file), NEW s \in {"clean", disk[t.file].content},
             t' = [t EXCEPT !.at = "verdict", !.sha = disk[t.file].content, !.score = s,
                            !.partial = TRUE]
      PROVE  /\ t' \in Tasks /\ t'.at = "verdict" /\ Carries /\ t'.found = t.found
             /\ t'.sha = disk[t.file].content /\ t'.score = s /\ t'.partial
  BY <1>1, <1>3, <1>5 DEF Types, TaskType, Tasks, Points, Carries
<1>6. CASE Mishap("heuristics") /\ Step("verdict")
  <2>1. t' \in Tasks /\ t'.at = "verdict" /\ Carries /\ Reads
    BY <1>6, StepTask DEF Types, Points
  <2>2. "heuristics" \in mishaps'
    BY <1>6 DEF Mishap
  <2> QED
    BY <1>1, <2>1, <2>2 DEF Reads, Unread
<1> QED
  BY <1>1, <1>2, <1>4, <1>5, <1>6 DEF Analyze

-----------------------------------------------------------------------------
(* What the steps do to the files, the cache and the threads.              *)

\* Every file that is there was there, with its content and stamp.
Kept ==
  \A g \in Files : There(g)' =>
    There(g) /\ disk'[g].content = disk[g].content /\ disk'[g].stamp = disk[g].stamp

LEMMA RemoveWorld ==
  ASSUME Types, NEW f \in Files, disk' = [disk EXCEPT ![f] = None]
  PROVE  disk' \in Disks /\ Kept
BY DEF Types, WorldType, Disks, Kept, There

LEMMA AgeWorld ==
  ASSUME Types, NEW f \in Files, Age(f)
  PROVE  disk' \in Disks /\ Kept
<1>1. disk[f] \in File /\ disk' = [disk EXCEPT ![f].young = FALSE]
  BY DEF Age, There, Types, WorldType, Disks
<1>2. /\ [disk[f] EXCEPT !.young = FALSE] \in File
      /\ [disk[f] EXCEPT !.young = FALSE].content = disk[f].content
      /\ [disk[f] EXCEPT !.young = FALSE].stamp = disk[f].stamp
  BY <1>1 DEF File
<1>3. /\ disk'[f] = [disk[f] EXCEPT !.young = FALSE]
      /\ \A g \in Files \ {f} : disk'[g] = disk[g]
      /\ disk' \in Disks
  BY <1>1, <1>2 DEF Types, WorldType, Disks
<1>4. There(f)
  BY DEF Age
<1> QED
  BY <1>2, <1>3, <1>4 DEF Kept, There

\* The file is new, or keeps its stamp by accident, and no other changes.
Changed(f) ==
  /\ disk' \in Disks /\ writes' = writes + 1 /\ writes' \in Stamps
  /\ \A g \in Files \ {f} : disk'[g] = disk[g]
  /\ There(f)' => disk'[f].stamp = writes + 1 \/ "inplace" \in mishaps'
  /\ There(f)' => disk'[f].stamp <= writes + 1
  /\ Committed(f) => "late" \in mishaps'
  /\ mishaps \subseteq mishaps'

LEMMA AppearWorld ==
  ASSUME Types, StampOK, NEW f \in Files, NEW c \in Contents, Appear(f, c)
  PROVE  Changed(f)
<1>1. writes \in Nat /\ writes + 1 \in Stamps
  BY WatcherAssumption DEF Appear, Types, WorldType, Stamps
<1>2. [content |-> c, stamp |-> writes + 1, young |-> TRUE] \in File
  BY <1>1 DEF File
<1>3. /\ disk'[f] = [content |-> c, stamp |-> writes + 1, young |-> TRUE]
      /\ \A g \in Files \ {f} : disk'[g] = disk[g]
      /\ disk' \in Disks
  BY <1>2 DEF Appear, Types, WorldType, Disks
<1>4. mishaps \subseteq mishaps' /\ (Committed(f) => "late" \in mishaps')
  BY DEF Appear, Emit, Late
<1>5. writes' = writes + 1
  BY DEF Appear
<1> QED
  BY <1>1, <1>3, <1>4, <1>5 DEF Changed

LEMMA RewriteWorld ==
  ASSUME Types, StampOK, NEW f \in Files, NEW c \in Contents, Rewrite(f, c)
  PROVE  Changed(f)
<1>1. writes \in Nat /\ writes + 1 \in Stamps /\ writes' = writes + 1
  BY WatcherAssumption DEF Rewrite, Types, WorldType, Stamps
<1>2. disk[f] \in File /\ disk[f].stamp <= writes
  BY DEF Rewrite, There, Types, WorldType, Disks, StampOK
<1>3. PICK kept \in BOOLEAN :
        /\ disk' = [disk EXCEPT ![f].content = c,
                                ![f].stamp = IF kept THEN @ ELSE writes + 1]
        /\ Emit(f, Late(f) \cup (IF kept THEN {"inplace"} ELSE {}))
  BY DEF Rewrite
<1>4. mishaps \subseteq mishaps' /\ (Committed(f) => "late" \in mishaps')
  BY <1>3 DEF Emit, Late
<1>5. kept => "inplace" \in mishaps'
  BY <1>3 DEF Emit
<1> DEFINE stamp == IF kept THEN disk[f].stamp ELSE writes + 1
<1>6. stamp \in Stamps /\ stamp <= writes + 1
  BY <1>1, <1>2 DEF File, Stamps
<1>7. disk' = [disk EXCEPT ![f] = [disk[f] EXCEPT !.content = c, !.stamp = stamp]]
  BY <1>2, <1>3 DEF File, Types, WorldType, Disks
<1> HIDE DEF stamp
<1>8. /\ [disk[f] EXCEPT !.content = c, !.stamp = stamp] \in File
      /\ [disk[f] EXCEPT !.content = c, !.stamp = stamp].stamp = stamp
  BY <1>2, <1>6 DEF File
<1>9. /\ disk'[f].stamp = stamp /\ disk' \in Disks
      /\ \A g \in Files \ {f} : disk'[g] = disk[g]
  BY <1>7, <1>8 DEF Types, WorldType, Disks
<1> QED
  BY <1>1, <1>4, <1>5, <1>6, <1>9 DEF Changed, stamp

LEMMA QuarantineWorld ==
  ASSUME Types, NEW f \in Files, QuarantineFile(f)
  PROVE  /\ disk' \in Disks /\ Kept
         /\ mishaps \subseteq mishaps' /\ mishaps' \subseteq Mishaps
         /\ \/ UNCHANGED taken
            \/ There(f) /\ taken' = taken \cup {disk[f].content}
         /\ taken' \subseteq Contents
<1>1. CASE There(f) /\ NoMishap /\ taken' = taken \cup {disk[f].content}
           /\ disk' = [disk EXCEPT ![f] = None]
  <2>1. disk[f].content \in Contents
    BY <1>1 DEF There, Types, WorldType, Disks, File
  <2> QED
    BY <1>1, <2>1, RemoveWorld DEF NoMishap, Types, HistoryType
<1>2. CASE UNCHANGED <<disk, taken>> /\ (NoMishap \/ Mishap("kept"))
  BY <1>2 DEF Types, WorldType, HistoryType, Kept, There, NoMishap, Mishap, Mishaps
<1> QED
  BY <1>1, <1>2 DEF QuarantineFile

LEMMA RecordedCache ==
  ASSUME Types, NEW b \in BOOLEAN, t.file \in Files
  PROVE  /\ Recorded(b) \in Caches
         /\ \A g \in Files \ {t.file} : Recorded(b)[g] = cache[g]
         /\ \/ Recorded(b)[t.file] = cache[t.file]
            \/ /\ There(t.file)
               /\ Recorded(b)[t.file].stamp = t.meta
               /\ Recorded(b)[t.file].fp = disk[t.file].content
               /\ Recorded(b)[t.file].clean = b
<1>1. CASE ~There(t.file)
  BY <1>1 DEF Recorded, Types, CacheType
<1>2. CASE There(t.file)
  <2>1. disk[t.file].content \in Contents /\ t.meta \in Stamps
    BY <1>2 DEF There, Types, WorldType, Disks, File, TaskType, Tasks
  <2> DEFINE entry == [stamp |-> t.meta, fp |-> disk[t.file].content, clean |-> b]
  <2>2. entry \in [stamp : Stamps, fp : Contents, clean : BOOLEAN]
    BY <2>1
  <2>3. Recorded(b) = [cache EXCEPT ![t.file] = entry]
    BY <1>2 DEF Recorded
  <2> HIDE DEF entry
  <2>4. /\ Recorded(b) \in Caches /\ Recorded(b)[t.file] = entry
        /\ \A g \in Files \ {t.file} : Recorded(b)[g] = cache[g]
    BY <2>2, <2>3 DEF Types, CacheType, Caches
  <2> QED
    BY <1>2, <2>4 DEF entry
<1> QED
  BY <1>1, <1>2

\* The threads keep what they captured; none starts half way.
LEMMA SpawnThreads ==
  ASSUME Types, t.file \in Files, Spawn
  PROVE  /\ sb' \in Threads /\ dedup' \subseteq Files
         /\ \A g \in Files : sb'[g].id = sb[g].id /\ (sb'[g].at # "capture" => sb'[g] = sb[g])
         /\ mishaps \subseteq mishaps' /\ mishaps' \subseteq Mishaps
<1>1. CASE UNCHANGED sandbox
  BY <1>1 DEF Spawn, sandbox, NoMishap, Mishap, Types, ThreadType, HistoryType, Mishaps
<1>2. CASE /\ sb' = [sb EXCEPT ![t.file].at = "capture"]
           /\ dedup' = dedup \cup {t.file} /\ NoMishap
  <2> DEFINE thread == [sb[t.file] EXCEPT !.at = "capture"]
  <2>1. /\ thread \in [at : {"off", "capture", "detonate", "check", "take"}, id : Stamps]
        /\ thread.at = "capture" /\ thread.id = sb[t.file].id
    BY DEF Types, ThreadType, Threads
  <2>2. sb' = [sb EXCEPT ![t.file] = thread]
    BY <1>2
  <2> HIDE DEF thread
  <2>3. /\ sb' \in Threads /\ sb'[t.file] = thread
        /\ \A g \in Files \ {t.file} : sb'[g] = sb[g]
    BY <2>1, <2>2 DEF Types, ThreadType, Threads
  <2>4. dedup' \subseteq Files /\ mishaps' = mishaps
    BY <1>2 DEF Types, ThreadType, NoMishap
  <2> QED
    BY <2>1, <2>3, <2>4 DEF Types, HistoryType
<1> QED
  BY <1>1, <1>2 DEF Spawn

LEMMA VerdictThreads ==
  ASSUME Types, Verdict
  PROVE  /\ sb' \in Threads /\ dedup' \subseteq Files
         /\ \A g \in Files : sb'[g].id = sb[g].id /\ (sb'[g].at # "capture" => sb'[g] = sb[g])
         /\ mishaps \subseteq mishaps' /\ mishaps' \subseteq Mishaps
<1>1. t.file \in Files
  BY DEF Verdict, Types, TaskType
<1>2. CASE Spawn
  BY <1>1, <1>2, SpawnThreads
<1>3. CASE UNCHANGED sandbox /\ Mishap("excluded")
  BY <1>3 DEF sandbox, Mishap, Types, ThreadType, HistoryType, Mishaps
<1> QED
  BY <1>2, <1>3 DEF Verdict

LEMMA SbStepThreads ==
  ASSUME Types, NEW f \in Files, NEW at \in {"off", "capture", "detonate", "check", "take"},
         SbStep(f, at)
  PROVE  /\ sb' \in Threads /\ sb'[f].at = at /\ sb'[f].id = sb[f].id
         /\ \A g \in Files \ {f} : sb'[g] = sb[g]
<1> DEFINE thread == [sb[f] EXCEPT !.at = at]
<1>1. /\ thread \in [at : {"off", "capture", "detonate", "check", "take"}, id : Stamps]
      /\ thread.at = at /\ thread.id = sb[f].id
  BY DEF Types, ThreadType, Threads
<1>2. sb' = [sb EXCEPT ![f] = thread]
  BY DEF SbStep
<1> HIDE DEF thread
<1> QED
  BY <1>1, <1>2 DEF Types, ThreadType, Threads

LEMMA SbDoneThreads ==
  ASSUME Types, NEW f \in Files, SbDone(f)
  PROVE  /\ sb' \in Threads /\ sb'[f].at = "off" /\ sb'[f].id = 0
         /\ \A g \in Files \ {f} : sb'[g] = sb[g]
<1> DEFINE thread == [at |-> "off", id |-> 0]
<1>1. thread \in [at : {"off", "capture", "detonate", "check", "take"}, id : Stamps]
  BY WatcherAssumption DEF Stamps
<1>2. thread.at = "off" /\ thread.id = 0 /\ sb' = [sb EXCEPT ![f] = thread]
  BY DEF SbDone
<1> HIDE DEF thread
<1> QED
  BY <1>1, <1>2 DEF Types, ThreadType, Threads

LEMMA SbCaptureThreads ==
  ASSUME Types, NEW f \in Files, SbCapture(f)
  PROVE  \/ SbDone(f)
         \/ /\ There(f) /\ sb' \in Threads /\ sb'[f].at = "detonate"
            /\ sb'[f].id = disk[f].stamp
            /\ \A g \in Files \ {f} : sb'[g] = sb[g]
<1> DEFINE thread == [at |-> "detonate", id |-> disk[f].stamp]
<1>1. SUFFICES ASSUME There(f), sb' = [sb EXCEPT ![f] = thread]
               PROVE  /\ sb' \in Threads /\ sb'[f].at = "detonate"
                      /\ sb'[f].id = disk[f].stamp
                      /\ \A g \in Files \ {f} : sb'[g] = sb[g]
  BY DEF SbCapture
<1>2. disk[f].stamp \in Stamps
  BY <1>1 DEF There, Types, WorldType, Disks, File
<1>3. /\ thread \in [at : {"off", "capture", "detonate", "check", "take"}, id : Stamps]
      /\ thread.at = "detonate" /\ thread.id = disk[f].stamp
  BY <1>2
<1> HIDE DEF thread
<1> QED
  BY <1>1, <1>3 DEF Types, ThreadType, Threads

\* Under a stamp that is not new, nothing has changed.
LEMMA ChangedSame ==
  ASSUME Types, NEW f \in Files, Changed(f), Stable', NEW g \in Files, NEW s \in Stamps,
         s <= writes, There(g)', disk'[g].stamp = s
  PROVE  Stable /\ There(g) /\ disk'[g] = disk[g]
<1>1. s \in Nat /\ writes \in Nat
  BY WatcherAssumption DEF Types, WorldType, Stamps
<1>2. Stable /\ (g = f => disk'[g].stamp = writes + 1)
  BY DEF Changed, Stable
<1>3. g # f
  BY <1>1, <1>2
<1> QED
  BY <1>2, <1>3 DEF Changed, There

\* A content that is read is one, and no file is there without one.
LEMMA FileType ==
  ASSUME Types, NEW f \in Files, There(f)
  PROVE  disk[f] \in File /\ disk[f].content \in Contents /\ disk[f].stamp \in Stamps
BY DEF Types, WorldType, Disks, There, File

-----------------------------------------------------------------------------
(* Every part of the invariant is kept by every step.                      *)

LEMMA WorldStep ==
  ASSUME IInv, [Next]_vars
  PROVE  WorldType'
<1> USE WatcherAssumption DEF IInv, Types, WorldType, Threats, Contents
<1>1. ASSUME Receive PROVE WorldType'
  BY <1>1 DEF Receive, world, Changed
<1>2. ASSUME Flush PROVE WorldType'
  BY <1>2 DEF Flush, world, Changed
<1>3. ASSUME NEW f \in Files, Examine(f) PROVE WorldType'
  BY <1>3 DEF Examine, world, Changed
<1>4. ASSUME Capture PROVE WorldType'
  BY <1>4 DEF Capture, world, Changed
<1>5. ASSUME CheckCache PROVE WorldType'
  BY <1>5 DEF CheckCache, world, Changed
<1>6. ASSUME Revalidate PROVE WorldType'
  BY <1>6 DEF Revalidate, world, Changed
<1>7. ASSUME Open PROVE WorldType'
  BY <1>7 DEF Open, world, Changed
<1>8. ASSUME ScanClam PROVE WorldType'
  BY <1>8 DEF ScanClam, world, Changed
<1>9. ASSUME SkipArgus PROVE WorldType'
  BY <1>9 DEF SkipArgus, world, Changed
<1>10. ASSUME Analyze PROVE WorldType'
  BY <1>10 DEF Analyze, world, Changed
<1>11. ASSUME Verdict PROVE WorldType'
  BY <1>11 DEF Verdict, world, Changed
<1>12. ASSUME RevalidateAgain PROVE WorldType'
  BY <1>12 DEF RevalidateAgain, world, Changed
<1>13. ASSUME Take PROVE WorldType'
  <2>1. t.file \in Files /\ QuarantineFile(t.file)
    BY <1>13 DEF Take, TaskType
  <2>2. UNCHANGED <<trusted, writes, edits, vouched>>
    BY <1>13 DEF Take
  <2> QED
    BY <2>1, <2>2, QuarantineWorld
<1>14. ASSUME EditTrusted PROVE WorldType'
  <2>1. edits' \in 0 .. MaxTrust
    BY <1>14 DEF EditTrusted
  <2>2. trusted' \subseteq Threats /\ trusted' \subseteq vouched' /\ vouched' \subseteq Contents
    BY <1>14 DEF EditTrusted
  <2> QED
    BY <1>14, <2>1, <2>2 DEF EditTrusted
<1>15. ASSUME NEW f \in Files, SbCapture(f) PROVE WorldType'
  BY <1>15 DEF SbCapture, world, Changed
<1>16. ASSUME NEW f \in Files, Detonate(f) PROVE WorldType'
  BY <1>16 DEF Detonate, world, Changed
<1>17. ASSUME NEW f \in Files, SbRevalidate(f) PROVE WorldType'
  BY <1>17 DEF SbRevalidate, world, Changed
<1>18. ASSUME NEW f \in Files, SbTake(f) PROVE WorldType'
  BY <1>18, QuarantineWorld DEF SbTake, world, Changed
<1>19. ASSUME NEW f \in Files, Age(f) PROVE WorldType'
  BY <1>19, AgeWorld DEF Age, world, Changed
<1>20. ASSUME NEW f \in Files, Remove(f) PROVE WorldType'
  BY <1>20, RemoveWorld DEF Remove, world, Changed
<1>21. ASSUME NEW f \in Files, NEW c \in Contents, Appear(f, c) PROVE WorldType'
  BY <1>21, AppearWorld DEF Appear, world, Changed
<1>22. ASSUME NEW f \in Files, NEW c \in Contents, Rewrite(f, c) PROVE WorldType'
  BY <1>22, RewriteWorld DEF Rewrite, world, Changed
<1>23. ASSUME NEW f \in Files, DedupExpires(f) PROVE WorldType'
  BY <1>23 DEF DedupExpires, world, Changed
<1>24. CASE UNCHANGED vars
  BY <1>24 DEF vars, world, intake, sandbox, history
<1> QED
  BY <1>1, <1>2, <1>3, <1>4, <1>5, <1>6, <1>7, <1>8, <1>9, <1>10, <1>11, <1>12, <1>13, <1>14, <1>15, <1>16, <1>17, <1>18, <1>19, <1>20, <1>21, <1>22, <1>23, <1>24
     DEF Next, Loop, Scan, Sandbox, Programs

LEMMA QueueGrows ==
  ASSUME queue \in Seq(Files), Len(queue) <= QueueCap, NEW f \in Files,
         queue' = queue \/ (Len(queue) < QueueCap /\ queue' = Append(queue, f))
  PROVE  queue' \in Seq(Files) /\ Len(queue') <= QueueCap
<1>1. QueueCap \in Nat /\ Len(queue) \in Nat
  BY WatcherAssumption
<1>2. CASE queue' = queue
  BY <1>2
<1>3. CASE Len(queue) < QueueCap /\ queue' = Append(queue, f)
  <2>1. queue' \in Seq(Files) /\ Len(queue') = Len(queue) + 1
    BY <1>3
  <2> QED
    BY <1>1, <1>3, <2>1
<1> QED
  BY <1>2, <1>3

LEMMA IntakeStep ==
  ASSUME IInv, [Next]_vars
  PROVE  IntakeType'
<1> USE WatcherAssumption DEF IInv, Types, IntakeType, TaskType, There, Present
<1>1. ASSUME Receive PROVE IntakeType'
  <2>1. queue' \in Seq(Files) /\ Len(queue') <= QueueCap /\ Head(queue) \in Files
    BY <1>1 DEF Receive
  <2>2. overflow' \in BOOLEAN /\ batch' = batch
    BY <1>1 DEF Receive
  <2>3. recent' \subseteq Files
    BY <1>1, <2>1 DEF Receive
  <2>4. Cardinality(recent') <= DebounceCap
    <3>1. CASE recent' = recent
      BY <3>1
    <3>2. CASE recent' = recent \cup {Head(queue)} /\ Cardinality(recent) < DebounceCap
      <4>1. IsFiniteSet(recent)
        BY FS_Subset
      <4>2. Cardinality(recent) \in Nat
        BY <4>1, FS_CardinalityType
      <4>3. Cardinality(recent') \in {Cardinality(recent), Cardinality(recent) + 1}
        BY <3>2, <4>1, FS_AddElement
      <4> QED
        BY <3>2, <4>2, <4>3
    <3> QED
      BY <1>1, <3>1, <3>2 DEF Receive
  <2> QED
    BY <2>1, <2>2, <2>3, <2>4
<1>2. ASSUME Flush PROVE IntakeType'
  <2>1. recent' = {} /\ overflow' = FALSE /\ UNCHANGED queue
    BY <1>2 DEF Flush
  <2>2. Cardinality({}) = 0
    BY FS_EmptySet
  <2>3. \A found \in Rescans : found \subseteq Files
    BY DEF Rescans
  <2>4. batch' \subseteq Files
    BY <1>2, <2>3 DEF Flush
  <2>5. DebounceCap \in Nat /\ Len(queue') <= QueueCap
    BY <2>1
  <2>6. Cardinality(recent') <= DebounceCap
    <3>1. Cardinality(recent') = 0
      BY <2>1, <2>2
    <3> QED
      BY <2>5, <3>1
  <2> QED
    BY <2>1, <2>4, <2>5, <2>6
<1>3. ASSUME NEW f \in Files, Examine(f) PROVE IntakeType'
  BY <1>3 DEF Examine, world, intake
<1>4. ASSUME Capture PROVE IntakeType'
  BY <1>4 DEF Capture, world, intake
<1>5. ASSUME CheckCache PROVE IntakeType'
  BY <1>5 DEF CheckCache, world, intake
<1>6. ASSUME Revalidate PROVE IntakeType'
  BY <1>6 DEF Revalidate, world, intake
<1>7. ASSUME Open PROVE IntakeType'
  BY <1>7 DEF Open, world, intake
<1>8. ASSUME ScanClam PROVE IntakeType'
  BY <1>8 DEF ScanClam, world, intake
<1>9. ASSUME SkipArgus PROVE IntakeType'
  BY <1>9 DEF SkipArgus, world, intake
<1>10. ASSUME Analyze PROVE IntakeType'
  BY <1>10 DEF Analyze, world, intake
<1>11. ASSUME Verdict PROVE IntakeType'
  BY <1>11 DEF Verdict, world, intake
<1>12. ASSUME RevalidateAgain PROVE IntakeType'
  BY <1>12 DEF RevalidateAgain, world, intake
<1>13. ASSUME Take PROVE IntakeType'
  BY <1>13 DEF Take, world, intake
<1>14. ASSUME EditTrusted PROVE IntakeType'
  BY <1>14 DEF EditTrusted, world, intake
<1>15. ASSUME NEW f \in Files, SbCapture(f) PROVE IntakeType'
  BY <1>15 DEF SbCapture, world, intake
<1>16. ASSUME NEW f \in Files, Detonate(f) PROVE IntakeType'
  BY <1>16 DEF Detonate, world, intake
<1>17. ASSUME NEW f \in Files, SbRevalidate(f) PROVE IntakeType'
  BY <1>17 DEF SbRevalidate, world, intake
<1>18. ASSUME NEW f \in Files, SbTake(f) PROVE IntakeType'
  BY <1>18 DEF SbTake, world, intake
<1>19. ASSUME NEW f \in Files, Age(f) PROVE IntakeType'
  BY <1>19 DEF Age, world, intake
<1>20. ASSUME NEW f \in Files, Remove(f) PROVE IntakeType'
  BY <1>20 DEF Remove, world, intake
<1>21. ASSUME NEW f \in Files, NEW c \in Contents, Appear(f, c) PROVE IntakeType'
  <2>1. UNCHANGED <<recent, overflow, batch>>
    BY <1>21 DEF Appear
  <2>2. queue' = queue \/ (Len(queue) < QueueCap /\ queue' = Append(queue, f))
    BY <1>21 DEF Appear, Emit
  <2>3. queue' \in Seq(Files) /\ Len(queue') <= QueueCap
    BY <2>2, QueueGrows
  <2> QED
    BY <2>1, <2>3
<1>22. ASSUME NEW f \in Files, NEW c \in Contents, Rewrite(f, c) PROVE IntakeType'
  <2>1. UNCHANGED <<recent, overflow, batch>>
    BY <1>22 DEF Rewrite
  <2>2. queue' = queue \/ (Len(queue) < QueueCap /\ queue' = Append(queue, f))
    <3>1. \E other : Emit(f, other)
      BY <1>22 DEF Rewrite
    <3> QED
      BY <3>1 DEF Emit
  <2>3. queue' \in Seq(Files) /\ Len(queue') <= QueueCap
    BY <2>2, QueueGrows
  <2> QED
    BY <2>1, <2>3
<1>23. ASSUME NEW f \in Files, DedupExpires(f) PROVE IntakeType'
  BY <1>23 DEF DedupExpires, world, intake
<1>24. CASE UNCHANGED vars
  BY <1>24 DEF vars, world, intake, sandbox, history
<1> QED
  BY <1>1, <1>2, <1>3, <1>4, <1>5, <1>6, <1>7, <1>8, <1>9, <1>10, <1>11, <1>12, <1>13, <1>14, <1>15, <1>16, <1>17, <1>18, <1>19, <1>20, <1>21, <1>22, <1>23, <1>24
     DEF Next, Loop, Scan, Sandbox, Programs

LEMMA TaskStep ==
  ASSUME IInv, [Next]_vars
  PROVE  TaskType'
<1> USE WatcherAssumption DEF IInv, Types, TaskType, Points, Carries
<1>1. ASSUME Receive PROVE TaskType'
  BY <1>1 DEF Receive, world, intake
<1>2. ASSUME Flush PROVE TaskType'
  BY <1>2 DEF Flush, world, intake
<1>3. ASSUME NEW f \in Files, Examine(f) PROVE TaskType'
  BY <1>3, ExamineTask DEF Examine, world, intake
<1>4. ASSUME Capture PROVE TaskType'
  BY <1>4, CaptureTask, DoneTask DEF Capture, world, intake
<1>5. ASSUME CheckCache PROVE TaskType'
  BY <1>5, StepTask, DoneTask DEF CheckCache, world, intake
<1>6. ASSUME Revalidate PROVE TaskType'
  BY <1>6, StepTask, DoneTask DEF Revalidate, world, intake
<1>7. ASSUME Open PROVE TaskType'
  BY <1>7, StepTask, DoneTask DEF Open, world, intake
<1>8. ASSUME ScanClam PROVE TaskType'
  BY <1>8, ClamTask, DoneTask DEF ScanClam, world, intake
<1>9. ASSUME SkipArgus PROVE TaskType'
  BY <1>9, StepTask, DoneTask DEF SkipArgus, world, intake
<1>10. ASSUME Analyze PROVE TaskType'
  BY <1>10, AnalyzeTask DEF Analyze, world, intake
<1>11. ASSUME Verdict PROVE TaskType'
  BY <1>11, StepTask, DoneTask DEF Verdict, world, intake
<1>12. ASSUME RevalidateAgain PROVE TaskType'
  BY <1>12, StepTask, DoneTask DEF RevalidateAgain, world, intake
<1>13. ASSUME Take PROVE TaskType'
  BY <1>13, StepTask, DoneTask DEF Take, world, intake
<1>14. ASSUME EditTrusted PROVE TaskType'
  BY <1>14 DEF EditTrusted, world, intake
<1>15. ASSUME NEW f \in Files, SbCapture(f) PROVE TaskType'
  BY <1>15 DEF SbCapture, world, intake
<1>16. ASSUME NEW f \in Files, Detonate(f) PROVE TaskType'
  BY <1>16 DEF Detonate, world, intake
<1>17. ASSUME NEW f \in Files, SbRevalidate(f) PROVE TaskType'
  BY <1>17 DEF SbRevalidate, world, intake
<1>18. ASSUME NEW f \in Files, SbTake(f) PROVE TaskType'
  BY <1>18 DEF SbTake, world, intake
<1>19. ASSUME NEW f \in Files, Age(f) PROVE TaskType'
  BY <1>19 DEF Age, world, intake
<1>20. ASSUME NEW f \in Files, Remove(f) PROVE TaskType'
  BY <1>20 DEF Remove, world, intake
<1>21. ASSUME NEW f \in Files, NEW c \in Contents, Appear(f, c) PROVE TaskType'
  BY <1>21 DEF Appear, world, intake
<1>22. ASSUME NEW f \in Files, NEW c \in Contents, Rewrite(f, c) PROVE TaskType'
  BY <1>22 DEF Rewrite, world, intake
<1>23. ASSUME NEW f \in Files, DedupExpires(f) PROVE TaskType'
  BY <1>23 DEF DedupExpires, world, intake
<1>24. CASE UNCHANGED vars
  BY <1>24 DEF vars, world, intake, sandbox, history
<1> QED
  BY <1>1, <1>2, <1>3, <1>4, <1>5, <1>6, <1>7, <1>8, <1>9, <1>10, <1>11, <1>12, <1>13, <1>14, <1>15, <1>16, <1>17, <1>18, <1>19, <1>20, <1>21, <1>22, <1>23, <1>24
     DEF Next, Loop, Scan, Sandbox, Programs

LEMMA CacheTypeStep ==
  ASSUME IInv, [Next]_vars
  PROVE  CacheType'
<1> USE WatcherAssumption DEF IInv, Types, CacheType, Caches, TaskType
<1>1. ASSUME Receive PROVE CacheType'
  BY <1>1 DEF Receive, intake
<1>2. ASSUME Flush PROVE CacheType'
  BY <1>2 DEF Flush, intake
<1>3. ASSUME NEW f \in Files, Examine(f) PROVE CacheType'
  BY <1>3 DEF Examine, intake
<1>4. ASSUME Capture PROVE CacheType'
  BY <1>4 DEF Capture, intake
<1>5. ASSUME CheckCache PROVE CacheType'
  BY <1>5 DEF CheckCache, intake
<1>6. ASSUME Revalidate PROVE CacheType'
  BY <1>6 DEF Revalidate, intake
<1>7. ASSUME Open PROVE CacheType'
  BY <1>7 DEF Open, intake
<1>8. ASSUME ScanClam PROVE CacheType'
  BY <1>8 DEF ScanClam, intake
<1>9. ASSUME SkipArgus PROVE CacheType'
  BY <1>9, RecordedCache DEF SkipArgus, intake
<1>10. ASSUME Analyze PROVE CacheType'
  BY <1>10 DEF Analyze, intake
<1>11. ASSUME Verdict PROVE CacheType'
  BY <1>11, RecordedCache DEF Verdict, intake
<1>12. ASSUME RevalidateAgain PROVE CacheType'
  BY <1>12 DEF RevalidateAgain, intake
<1>13. ASSUME Take PROVE CacheType'
  BY <1>13 DEF Take, intake
<1>14. ASSUME EditTrusted PROVE CacheType'
  BY <1>14 DEF EditTrusted, intake
<1>15. ASSUME NEW f \in Files, SbCapture(f) PROVE CacheType'
  BY <1>15 DEF SbCapture, intake
<1>16. ASSUME NEW f \in Files, Detonate(f) PROVE CacheType'
  BY <1>16 DEF Detonate, intake
<1>17. ASSUME NEW f \in Files, SbRevalidate(f) PROVE CacheType'
  BY <1>17 DEF SbRevalidate, intake
<1>18. ASSUME NEW f \in Files, SbTake(f) PROVE CacheType'
  BY <1>18 DEF SbTake, intake
<1>19. ASSUME NEW f \in Files, Age(f) PROVE CacheType'
  BY <1>19 DEF Age, intake
<1>20. ASSUME NEW f \in Files, Remove(f) PROVE CacheType'
  BY <1>20 DEF Remove, intake
<1>21. ASSUME NEW f \in Files, NEW c \in Contents, Appear(f, c) PROVE CacheType'
  BY <1>21 DEF Appear, intake
<1>22. ASSUME NEW f \in Files, NEW c \in Contents, Rewrite(f, c) PROVE CacheType'
  BY <1>22 DEF Rewrite, intake
<1>23. ASSUME NEW f \in Files, DedupExpires(f) PROVE CacheType'
  BY <1>23 DEF DedupExpires, intake
<1>24. CASE UNCHANGED vars
  BY <1>24 DEF vars, world, intake, sandbox, history
<1> QED
  BY <1>1, <1>2, <1>3, <1>4, <1>5, <1>6, <1>7, <1>8, <1>9, <1>10, <1>11, <1>12, <1>13, <1>14, <1>15, <1>16, <1>17, <1>18, <1>19, <1>20, <1>21, <1>22, <1>23, <1>24
     DEF Next, Loop, Scan, Sandbox, Programs

LEMMA ThreadStep ==
  ASSUME IInv, [Next]_vars
  PROVE  ThreadType'
<1> USE WatcherAssumption DEF IInv, Types, TaskType, ThreadType
<1>1. ASSUME Receive PROVE ThreadType'
  BY <1>1 DEF Receive, sandbox
<1>2. ASSUME Flush PROVE ThreadType'
  BY <1>2 DEF Flush, sandbox
<1>3. ASSUME NEW f \in Files, Examine(f) PROVE ThreadType'
  BY <1>3 DEF Examine, sandbox
<1>4. ASSUME Capture PROVE ThreadType'
  BY <1>4 DEF Capture, sandbox
<1>5. ASSUME CheckCache PROVE ThreadType'
  BY <1>5 DEF CheckCache, sandbox
<1>6. ASSUME Revalidate PROVE ThreadType'
  BY <1>6 DEF Revalidate, sandbox
<1>7. ASSUME Open PROVE ThreadType'
  BY <1>7 DEF Open, sandbox
<1>8. ASSUME ScanClam PROVE ThreadType'
  BY <1>8 DEF ScanClam, sandbox
<1>9. ASSUME SkipArgus PROVE ThreadType'
  BY <1>9 DEF SkipArgus, sandbox
<1>10. ASSUME Analyze PROVE ThreadType'
  BY <1>10 DEF Analyze, sandbox
<1>11. ASSUME Verdict PROVE ThreadType'
  BY <1>11, VerdictThreads DEF Verdict, sandbox
<1>12. ASSUME RevalidateAgain PROVE ThreadType'
  BY <1>12 DEF RevalidateAgain, sandbox
<1>13. ASSUME Take PROVE ThreadType'
  BY <1>13 DEF Take, sandbox
<1>14. ASSUME EditTrusted PROVE ThreadType'
  BY <1>14 DEF EditTrusted, sandbox
<1>15. ASSUME NEW f \in Files, SbCapture(f) PROVE ThreadType'
  BY <1>15, SbCaptureThreads, SbDoneThreads DEF SbCapture, sandbox
<1>16. ASSUME NEW f \in Files, Detonate(f) PROVE ThreadType'
  BY <1>16, SbStepThreads, SbDoneThreads DEF Detonate, sandbox
<1>17. ASSUME NEW f \in Files, SbRevalidate(f) PROVE ThreadType'
  BY <1>17, SbStepThreads, SbDoneThreads DEF SbRevalidate, sandbox
<1>18. ASSUME NEW f \in Files, SbTake(f) PROVE ThreadType'
  BY <1>18, SbDoneThreads DEF SbTake, sandbox
<1>19. ASSUME NEW f \in Files, Age(f) PROVE ThreadType'
  BY <1>19 DEF Age, sandbox
<1>20. ASSUME NEW f \in Files, Remove(f) PROVE ThreadType'
  BY <1>20 DEF Remove, sandbox
<1>21. ASSUME NEW f \in Files, NEW c \in Contents, Appear(f, c) PROVE ThreadType'
  BY <1>21 DEF Appear, sandbox
<1>22. ASSUME NEW f \in Files, NEW c \in Contents, Rewrite(f, c) PROVE ThreadType'
  BY <1>22 DEF Rewrite, sandbox
<1>23. ASSUME NEW f \in Files, DedupExpires(f) PROVE ThreadType'
  BY <1>23 DEF DedupExpires, sandbox
<1>24. CASE UNCHANGED vars
  BY <1>24 DEF vars, world, intake, sandbox, history
<1> QED
  BY <1>1, <1>2, <1>3, <1>4, <1>5, <1>6, <1>7, <1>8, <1>9, <1>10, <1>11, <1>12, <1>13, <1>14, <1>15, <1>16, <1>17, <1>18, <1>19, <1>20, <1>21, <1>22, <1>23, <1>24
     DEF Next, Loop, Scan, Sandbox, Programs

LEMMA HistoryStep ==
  ASSUME IInv, [Next]_vars
  PROVE  HistoryType'
<1> USE WatcherAssumption DEF IInv, Types, HistoryType, TaskType, Mishaps
<1>1. ASSUME Receive PROVE HistoryType'
  BY <1>1 DEF Receive, history
<1>2. ASSUME Flush PROVE HistoryType'
  BY <1>2 DEF Flush, Mishap, NoMishap, history
<1>3. ASSUME NEW f \in Files, Examine(f) PROVE HistoryType'
  BY <1>3 DEF Examine, Mishap, NoMishap, history
<1>4. ASSUME Capture PROVE HistoryType'
  BY <1>4 DEF Capture, history
<1>5. ASSUME CheckCache PROVE HistoryType'
  BY <1>5 DEF CheckCache, history
<1>6. ASSUME Revalidate PROVE HistoryType'
  BY <1>6 DEF Revalidate, history
<1>7. ASSUME Open PROVE HistoryType'
  BY <1>7 DEF Open, Mishap, NoMishap, history
<1>8. ASSUME ScanClam PROVE HistoryType'
  BY <1>8 DEF ScanClam, Mishap, NoMishap, history
<1>9. ASSUME SkipArgus PROVE HistoryType'
  BY <1>9 DEF SkipArgus, history
<1>10. ASSUME Analyze PROVE HistoryType'
  BY <1>10 DEF Analyze, Mishap, NoMishap, history
<1>11. ASSUME Verdict PROVE HistoryType'
  BY <1>11, VerdictThreads DEF Verdict, Mishap, NoMishap, history
<1>12. ASSUME RevalidateAgain PROVE HistoryType'
  BY <1>12 DEF RevalidateAgain, history
<1>13. ASSUME Take PROVE HistoryType'
  BY <1>13, QuarantineWorld DEF Take, Mishap, NoMishap, history
<1>14. ASSUME EditTrusted PROVE HistoryType'
  BY <1>14 DEF EditTrusted, history
<1>15. ASSUME NEW f \in Files, SbCapture(f) PROVE HistoryType'
  BY <1>15 DEF SbCapture, history
<1>16. ASSUME NEW f \in Files, Detonate(f) PROVE HistoryType'
  BY <1>16 DEF Detonate, Mishap, NoMishap, history
<1>17. ASSUME NEW f \in Files, SbRevalidate(f) PROVE HistoryType'
  BY <1>17 DEF SbRevalidate, history
<1>18. ASSUME NEW f \in Files, SbTake(f) PROVE HistoryType'
  BY <1>18, QuarantineWorld DEF SbTake, Mishap, NoMishap, history
<1>19. ASSUME NEW f \in Files, Age(f) PROVE HistoryType'
  BY <1>19 DEF Age, history
<1>20. ASSUME NEW f \in Files, Remove(f) PROVE HistoryType'
  BY <1>20 DEF Remove, history
<1>21. ASSUME NEW f \in Files, NEW c \in Contents, Appear(f, c) PROVE HistoryType'
  BY <1>21 DEF Appear, Emit, Late, history
<1>22. ASSUME NEW f \in Files, NEW c \in Contents, Rewrite(f, c) PROVE HistoryType'
  BY <1>22 DEF Rewrite, Emit, Late, history
<1>23. ASSUME NEW f \in Files, DedupExpires(f) PROVE HistoryType'
  BY <1>23 DEF DedupExpires, history
<1>24. CASE UNCHANGED vars
  BY <1>24 DEF vars, world, intake, sandbox, history
<1> QED
  BY <1>1, <1>2, <1>3, <1>4, <1>5, <1>6, <1>7, <1>8, <1>9, <1>10, <1>11, <1>12, <1>13, <1>14, <1>15, <1>16, <1>17, <1>18, <1>19, <1>20, <1>21, <1>22, <1>23, <1>24
     DEF Next, Loop, Scan, Sandbox, Programs

LEMMA StampStep ==
  ASSUME IInv, [Next]_vars
  PROVE  StampOK'
<1> USE WatcherAssumption DEF IInv, Types, StampOK, TaskType, Kept, Carries, There, WorldType, Stamps
<1>1. ASSUME Receive PROVE StampOK'
  BY <1>1 DEF Receive, world, intake, sandbox, history, Changed, Points
<1>2. ASSUME Flush PROVE StampOK'
  BY <1>2 DEF Flush, world, intake, sandbox, history, Changed, Points
<1>3. ASSUME NEW f \in Files, Examine(f) PROVE StampOK'
  BY <1>3, ExamineTask DEF Examine, world, intake, sandbox, history, Changed, Points
<1>4. ASSUME Capture PROVE StampOK'
  BY <1>4, CaptureTask, DoneTask DEF Capture, world, intake, sandbox, history, Changed, Points
<1>5. ASSUME CheckCache PROVE StampOK'
  <2>1. UNCHANGED <<disk, writes, sb>>
    BY <1>5 DEF CheckCache, world, sandbox
  <2>2. t'.meta <= writes /\ t'.id <= writes
    BY <1>5, StepTask, DoneTask DEF CheckCache, Points
  <2>3. \A g \in Files : cache'[g] = cache[g] \/ cache'[g] = None
    BY <1>5 DEF CheckCache, CacheType, Caches
  <2> QED
    BY <2>1, <2>2, <2>3
<1>6. ASSUME Revalidate PROVE StampOK'
  BY <1>6, StepTask, DoneTask DEF Revalidate, world, intake, sandbox, history, Changed, Points
<1>7. ASSUME Open PROVE StampOK'
  BY <1>7, StepTask, DoneTask DEF Open, world, intake, sandbox, history, Changed, Points
<1>8. ASSUME ScanClam PROVE StampOK'
  BY <1>8, ClamTask, DoneTask DEF ScanClam, world, intake, sandbox, history, Changed, Points
<1>9. ASSUME SkipArgus PROVE StampOK'
  <2>1. UNCHANGED <<disk, writes, sb>> /\ t.file \in Files
    BY <1>9 DEF SkipArgus, world, sandbox
  <2>2. t'.meta <= writes /\ t'.id <= writes
    <3>1. Step("check") \/ Done
      BY <1>9 DEF SkipArgus
    <3>2. "check" \in Points /\ 0 <= writes
      BY DEF Points
    <3> QED
      BY <3>1, <3>2, StepTask, DoneTask
  <2>3. \A g \in Files : cache'[g] # None => cache'[g].stamp <= writes
    <3>1. UNCHANGED cache \/ \E b \in BOOLEAN : cache' = Recorded(b)
      BY <1>9 DEF SkipArgus
    <3>2. ASSUME NEW b \in BOOLEAN, cache' = Recorded(b), NEW g \in Files, cache'[g] # None
          PROVE  cache'[g].stamp <= writes
      <4>1. cache'[g] = cache[g] \/ cache'[g].stamp = t.meta
        <5>1. CASE g = t.file
          BY <2>1, <3>2, <5>1, RecordedCache
        <5>2. CASE g # t.file
          BY <2>1, <3>2, <5>2, RecordedCache
        <5> QED
          BY <5>1, <5>2
      <4> QED
        BY <3>2, <4>1
    <3> QED
      BY <3>1, <3>2
  <2> QED
    BY <2>1, <2>2, <2>3
<1>10. ASSUME Analyze PROVE StampOK'
  BY <1>10, AnalyzeTask DEF Analyze, world, intake, sandbox, history, Changed, Points
<1>11. ASSUME Verdict PROVE StampOK'
  <2>1. UNCHANGED <<disk, writes>> /\ t.file \in Files
    BY <1>11 DEF Verdict, world, sandbox
  <2>2. t'.meta <= writes /\ t'.id <= writes
    <3>1. Step("check") \/ Done
      BY <1>11 DEF Verdict
    <3>2. "check" \in Points /\ 0 <= writes
      BY DEF Points
    <3> QED
      BY <3>1, <3>2, StepTask, DoneTask
  <2>3. \A g \in Files : cache'[g] # None => cache'[g].stamp <= writes
    <3>1. UNCHANGED cache \/ \E b \in BOOLEAN : cache' = Recorded(b)
      BY <1>11 DEF Verdict
    <3>2. ASSUME NEW b \in BOOLEAN, cache' = Recorded(b), NEW g \in Files, cache'[g] # None
          PROVE  cache'[g].stamp <= writes
      <4>1. cache'[g] = cache[g] \/ cache'[g].stamp = t.meta
        <5>1. CASE g = t.file
          BY <2>1, <3>2, <5>1, RecordedCache
        <5>2. CASE g # t.file
          BY <2>1, <3>2, <5>2, RecordedCache
        <5> QED
          BY <5>1, <5>2
      <4> QED
        BY <3>2, <4>1
    <3> QED
      BY <3>1, <3>2
  <2>4. \A g \in Files : sb'[g].id = sb[g].id
    BY <1>11, <2>1, VerdictThreads DEF Verdict
  <2> QED
    BY <2>1, <2>2, <2>3, <2>4
<1>12. ASSUME RevalidateAgain PROVE StampOK'
  BY <1>12, StepTask, DoneTask DEF RevalidateAgain, world, intake, sandbox, history, Changed, Points
<1>13. ASSUME Take PROVE StampOK'
  BY <1>13, StepTask, DoneTask, QuarantineWorld DEF Take, world, intake, sandbox, history, Changed, Points
<1>14. ASSUME EditTrusted PROVE StampOK'
  BY <1>14 DEF EditTrusted, world, intake, sandbox, history, Changed, Points
<1>15. ASSUME NEW f \in Files, SbCapture(f) PROVE StampOK'
  BY <1>15, SbCaptureThreads, SbDoneThreads DEF SbCapture, world, intake, sandbox, history, Changed, Points
<1>16. ASSUME NEW f \in Files, Detonate(f) PROVE StampOK'
  BY <1>16, SbStepThreads, SbDoneThreads DEF Detonate, world, intake, sandbox, history, Changed, Points
<1>17. ASSUME NEW f \in Files, SbRevalidate(f) PROVE StampOK'
  BY <1>17, SbStepThreads, SbDoneThreads DEF SbRevalidate, world, intake, sandbox, history, Changed, Points
<1>18. ASSUME NEW f \in Files, SbTake(f) PROVE StampOK'
  BY <1>18, QuarantineWorld, SbDoneThreads DEF SbTake, world, intake, sandbox, history, Changed, Points
<1>19. ASSUME NEW f \in Files, Age(f) PROVE StampOK'
  BY <1>19, AgeWorld DEF Age, world, intake, sandbox, history, Changed, Points
<1>20. ASSUME NEW f \in Files, Remove(f) PROVE StampOK'
  BY <1>20, RemoveWorld DEF Remove, world, intake, sandbox, history, Changed, Points
<1>21. ASSUME NEW f \in Files, NEW c \in Contents, Appear(f, c) PROVE StampOK'
  <2>1. Changed(f) /\ UNCHANGED <<trusted, vouched, t, cache, sb, taken>>
    BY <1>21, AppearWorld DEF Appear, sandbox
  <2>2. writes' = writes + 1 /\ writes \in Nat
    BY <2>1 DEF Changed
  <2>3. \A g \in Files : There(g)' => disk'[g].stamp <= writes'
    <3> SUFFICES ASSUME NEW g \in Files, There(g)' PROVE disk'[g].stamp <= writes'
      OBVIOUS
    <3>1. CASE g = f
      BY <2>1, <2>2, <3>1 DEF Changed
    <3>2. CASE g # f
      <4>1. disk'[g] = disk[g] /\ There(g)
        BY <2>1, <3>2 DEF Changed
      <4>2. disk[g].stamp \in Nat /\ disk[g].stamp <= writes
        BY <4>1, FileType
      <4> QED
        BY <2>2, <4>1, <4>2
    <3> QED
      BY <3>1, <3>2
  <2>4. /\ \A g \in Files : cache[g] # None => cache[g].stamp \in Nat
        /\ \A g \in Files : sb[g].id \in Nat
        /\ t.meta \in Nat /\ t.id \in Nat
    BY DEF CacheType, Caches, ThreadType, Threads, Tasks
  <2> QED
    BY <2>1, <2>2, <2>3, <2>4
<1>22. ASSUME NEW f \in Files, NEW c \in Contents, Rewrite(f, c) PROVE StampOK'
  <2>1. Changed(f) /\ UNCHANGED <<trusted, vouched, t, cache, sb, taken>>
    BY <1>22, RewriteWorld DEF Rewrite, sandbox
  <2>2. writes' = writes + 1 /\ writes \in Nat
    BY <2>1 DEF Changed
  <2>3. \A g \in Files : There(g)' => disk'[g].stamp <= writes'
    <3> SUFFICES ASSUME NEW g \in Files, There(g)' PROVE disk'[g].stamp <= writes'
      OBVIOUS
    <3>1. CASE g = f
      BY <2>1, <2>2, <3>1 DEF Changed
    <3>2. CASE g # f
      <4>1. disk'[g] = disk[g] /\ There(g)
        BY <2>1, <3>2 DEF Changed
      <4>2. disk[g].stamp \in Nat /\ disk[g].stamp <= writes
        BY <4>1, FileType
      <4> QED
        BY <2>2, <4>1, <4>2
    <3> QED
      BY <3>1, <3>2
  <2>4. /\ \A g \in Files : cache[g] # None => cache[g].stamp \in Nat
        /\ \A g \in Files : sb[g].id \in Nat
        /\ t.meta \in Nat /\ t.id \in Nat
    BY DEF CacheType, Caches, ThreadType, Threads, Tasks
  <2> QED
    BY <2>1, <2>2, <2>3, <2>4
<1>23. ASSUME NEW f \in Files, DedupExpires(f) PROVE StampOK'
  BY <1>23 DEF DedupExpires, world, intake, sandbox, history, Changed, Points
<1>24. CASE UNCHANGED vars
  BY <1>24 DEF vars, world, intake, sandbox, history
<1> QED
  BY <1>1, <1>2, <1>3, <1>4, <1>5, <1>6, <1>7, <1>8, <1>9, <1>10, <1>11, <1>12, <1>13, <1>14, <1>15, <1>16, <1>17, <1>18, <1>19, <1>20, <1>21, <1>22, <1>23, <1>24
     DEF Next, Loop, Scan, Sandbox, Programs

LEMMA AnalysisStep ==
  ASSUME IInv, [Next]_vars
  PROVE  AnalysisOK'
<1> USE WatcherAssumption DEF IInv, Types, StampOK, AnalysisOK, TaskType, WorldType, Kept, Carries, Reads, There, Same, Stable, Unread
<1>1. ASSUME Receive PROVE AnalysisOK'
  BY <1>1 DEF Receive, world, intake, sandbox, history, Changed, Points
<1>2. ASSUME Flush PROVE AnalysisOK'
  BY <1>2 DEF Flush, Mishap, NoMishap, world, intake, sandbox, history, Changed, Points
<1>3. ASSUME NEW f \in Files, Examine(f) PROVE AnalysisOK'
  BY <1>3, ExamineTask DEF Examine, Mishap, NoMishap, world, intake, sandbox, history, Changed, Points
<1>4. ASSUME Capture PROVE AnalysisOK'
  BY <1>4, CaptureTask, DoneTask DEF Capture, world, intake, sandbox, history, Changed, Points
<1>5. ASSUME CheckCache PROVE AnalysisOK'
  BY <1>5, StepTask, DoneTask DEF CheckCache, world, intake, sandbox, history, Changed, Points
<1>6. ASSUME Revalidate PROVE AnalysisOK'
  BY <1>6, StepTask, DoneTask DEF Revalidate, world, intake, sandbox, history, Changed, Points
<1>7. ASSUME Open PROVE AnalysisOK'
  BY <1>7, StepTask, DoneTask DEF Open, Mishap, NoMishap, world, intake, sandbox, history, Changed, Points
<1>8. ASSUME ScanClam PROVE AnalysisOK'
  BY <1>8, ClamTask, DoneTask DEF ScanClam, Mishap, NoMishap, world, intake, sandbox, history, Changed, Points
<1>9. ASSUME SkipArgus PROVE AnalysisOK'
  BY <1>9, StepTask, DoneTask DEF SkipArgus, world, intake, sandbox, history, Changed, Points
<1>10. ASSUME Analyze PROVE AnalysisOK'
  BY <1>10, AnalyzeTask DEF Analyze, Mishap, NoMishap, world, intake, sandbox, history, Changed, Points
<1>11. ASSUME Verdict PROVE AnalysisOK'
  BY <1>11, StepTask, DoneTask, VerdictThreads DEF Verdict, Mishap, NoMishap, world, intake, sandbox, history, Changed, Points
<1>12. ASSUME RevalidateAgain PROVE AnalysisOK'
  BY <1>12, StepTask, DoneTask DEF RevalidateAgain, world, intake, sandbox, history, Changed, Points
<1>13. ASSUME Take PROVE AnalysisOK'
  BY <1>13, StepTask, DoneTask, QuarantineWorld DEF Take, Mishap, NoMishap, world, intake, sandbox, history, Changed, Points
<1>14. ASSUME EditTrusted PROVE AnalysisOK'
  BY <1>14 DEF EditTrusted, world, intake, sandbox, history, Changed, Points
<1>15. ASSUME NEW f \in Files, SbCapture(f) PROVE AnalysisOK'
  BY <1>15, SbCaptureThreads, SbDoneThreads DEF SbCapture, world, intake, sandbox, history, Changed, Points
<1>16. ASSUME NEW f \in Files, Detonate(f) PROVE AnalysisOK'
  BY <1>16, SbStepThreads, SbDoneThreads DEF Detonate, Mishap, NoMishap, world, intake, sandbox, history, Changed, Points
<1>17. ASSUME NEW f \in Files, SbRevalidate(f) PROVE AnalysisOK'
  BY <1>17, SbStepThreads, SbDoneThreads DEF SbRevalidate, world, intake, sandbox, history, Changed, Points
<1>18. ASSUME NEW f \in Files, SbTake(f) PROVE AnalysisOK'
  BY <1>18, QuarantineWorld, SbDoneThreads DEF SbTake, Mishap, NoMishap, world, intake, sandbox, history, Changed, Points
<1>19. ASSUME NEW f \in Files, Age(f) PROVE AnalysisOK'
  BY <1>19, AgeWorld DEF Age, world, intake, sandbox, history, Changed, Points
<1>20. ASSUME NEW f \in Files, Remove(f) PROVE AnalysisOK'
  BY <1>20, RemoveWorld DEF Remove, world, intake, sandbox, history, Changed, Points
<1>21. ASSUME NEW f \in Files, NEW c \in Contents, Appear(f, c) PROVE AnalysisOK'
  <2>1. Changed(f) /\ UNCHANGED <<trusted, vouched, t, cache, sb, taken>>
    BY <1>21, AppearWorld DEF Appear, sandbox
  <2>2. ASSUME Stable', t.at = "verdict", Same(t.file, t.meta)'
        PROVE  Stable /\ Same(t.file, t.meta) /\ disk'[t.file] = disk[t.file]
    <3>1. t.file \in Files /\ t.meta \in Stamps /\ t.meta <= writes
      BY <2>2 DEF Tasks
    <3> QED
      BY <2>1, <2>2, <3>1, ChangedSame
  <2>3. Stable' /\ t.at = "verdict" /\ Same(t.file, t.meta)' =>
          /\ t'.sha = disk'[t'.file].content \/ (t'.sha = "clean" /\ Unread')
          /\ Unread' \/ t'.partial \/ t'.score = disk'[t'.file].content
    BY <2>1, <2>2 DEF Changed, Unread
  <2> QED
    BY <2>1, <2>3
<1>22. ASSUME NEW f \in Files, NEW c \in Contents, Rewrite(f, c) PROVE AnalysisOK'
  <2>1. Changed(f) /\ UNCHANGED <<trusted, vouched, t, cache, sb, taken>>
    BY <1>22, RewriteWorld DEF Rewrite, sandbox
  <2>2. ASSUME Stable', t.at = "verdict", Same(t.file, t.meta)'
        PROVE  Stable /\ Same(t.file, t.meta) /\ disk'[t.file] = disk[t.file]
    <3>1. t.file \in Files /\ t.meta \in Stamps /\ t.meta <= writes
      BY <2>2 DEF Tasks
    <3> QED
      BY <2>1, <2>2, <3>1, ChangedSame
  <2>3. Stable' /\ t.at = "verdict" /\ Same(t.file, t.meta)' =>
          /\ t'.sha = disk'[t'.file].content \/ (t'.sha = "clean" /\ Unread')
          /\ Unread' \/ t'.partial \/ t'.score = disk'[t'.file].content
    BY <2>1, <2>2 DEF Changed, Unread
  <2> QED
    BY <2>1, <2>3
<1>23. ASSUME NEW f \in Files, DedupExpires(f) PROVE AnalysisOK'
  BY <1>23 DEF DedupExpires, world, intake, sandbox, history, Changed, Points
<1>24. CASE UNCHANGED vars
  BY <1>24 DEF vars, world, intake, sandbox, history
<1> QED
  BY <1>1, <1>2, <1>3, <1>4, <1>5, <1>6, <1>7, <1>8, <1>9, <1>10, <1>11, <1>12, <1>13, <1>14, <1>15, <1>16, <1>17, <1>18, <1>19, <1>20, <1>21, <1>22, <1>23, <1>24
     DEF Next, Loop, Scan, Sandbox, Programs

LEMMA FoundStep ==
  ASSUME IInv, [Next]_vars
  PROVE  FoundOK'
<1> USE WatcherAssumption DEF IInv, Types, StampOK, AnalysisOK, FoundOK, TaskType, WorldType, Kept, Carries, Reads, There, Same, Stable
<1>1. ASSUME Receive PROVE FoundOK'
  BY <1>1 DEF Receive, world, intake, sandbox, history, Changed, Points
<1>2. ASSUME Flush PROVE FoundOK'
  BY <1>2 DEF Flush, Mishap, NoMishap, world, intake, sandbox, history, Changed, Points
<1>3. ASSUME NEW f \in Files, Examine(f) PROVE FoundOK'
  BY <1>3, ExamineTask DEF Examine, Mishap, NoMishap, world, intake, sandbox, history, Changed, Points
<1>4. ASSUME Capture PROVE FoundOK'
  BY <1>4, CaptureTask, DoneTask DEF Capture, world, intake, sandbox, history, Changed, Points
<1>5. ASSUME CheckCache PROVE FoundOK'
  BY <1>5, StepTask, DoneTask DEF CheckCache, world, intake, sandbox, history, Changed, Points
<1>6. ASSUME Revalidate PROVE FoundOK'
  BY <1>6, StepTask, DoneTask DEF Revalidate, world, intake, sandbox, history, Changed, Points
<1>7. ASSUME Open PROVE FoundOK'
  BY <1>7, StepTask, DoneTask DEF Open, Mishap, NoMishap, world, intake, sandbox, history, Changed, Points
<1>8. ASSUME ScanClam PROVE FoundOK'
  BY <1>8, ClamTask, DoneTask DEF ScanClam, Mishap, NoMishap, world, intake, sandbox, history, Changed, Points
<1>9. ASSUME SkipArgus PROVE FoundOK'
  BY <1>9, StepTask, DoneTask DEF SkipArgus, world, intake, sandbox, history, Changed, Points
<1>10. ASSUME Analyze PROVE FoundOK'
  BY <1>10, AnalyzeTask DEF Analyze, Mishap, NoMishap, world, intake, sandbox, history, Changed, Points
<1>11. ASSUME Verdict PROVE FoundOK'
  BY <1>11, StepTask, DoneTask, VerdictThreads DEF Verdict, Mishap, NoMishap, world, intake, sandbox, history, Changed, Points
<1>12. ASSUME RevalidateAgain PROVE FoundOK'
  BY <1>12, StepTask, DoneTask DEF RevalidateAgain, world, intake, sandbox, history, Changed, Points
<1>13. ASSUME Take PROVE FoundOK'
  BY <1>13, StepTask, DoneTask, QuarantineWorld DEF Take, Mishap, NoMishap, world, intake, sandbox, history, Changed, Points
<1>14. ASSUME EditTrusted PROVE FoundOK'
  BY <1>14 DEF EditTrusted, world, intake, sandbox, history, Changed, Points
<1>15. ASSUME NEW f \in Files, SbCapture(f) PROVE FoundOK'
  BY <1>15, SbCaptureThreads, SbDoneThreads DEF SbCapture, world, intake, sandbox, history, Changed, Points
<1>16. ASSUME NEW f \in Files, Detonate(f) PROVE FoundOK'
  BY <1>16, SbStepThreads, SbDoneThreads DEF Detonate, Mishap, NoMishap, world, intake, sandbox, history, Changed, Points
<1>17. ASSUME NEW f \in Files, SbRevalidate(f) PROVE FoundOK'
  BY <1>17, SbStepThreads, SbDoneThreads DEF SbRevalidate, world, intake, sandbox, history, Changed, Points
<1>18. ASSUME NEW f \in Files, SbTake(f) PROVE FoundOK'
  BY <1>18, QuarantineWorld, SbDoneThreads DEF SbTake, Mishap, NoMishap, world, intake, sandbox, history, Changed, Points
<1>19. ASSUME NEW f \in Files, Age(f) PROVE FoundOK'
  BY <1>19, AgeWorld DEF Age, world, intake, sandbox, history, Changed, Points
<1>20. ASSUME NEW f \in Files, Remove(f) PROVE FoundOK'
  BY <1>20, RemoveWorld DEF Remove, world, intake, sandbox, history, Changed, Points
<1>21. ASSUME NEW f \in Files, NEW c \in Contents, Appear(f, c) PROVE FoundOK'
  <2>1. Changed(f) /\ UNCHANGED <<trusted, vouched, t, cache, sb, taken>>
    BY <1>21, AppearWorld DEF Appear, sandbox
  <2>2. ASSUME Stable', t.at # "next", Same(t.file, t.id)'
        PROVE  Stable /\ Same(t.file, t.id) /\ disk'[t.file] = disk[t.file]
    <3>1. t.file \in Files /\ t.id \in Stamps /\ t.id <= writes
      BY <2>2 DEF Tasks
    <3> QED
      BY <2>1, <2>2, <3>1, ChangedSame
  <2> QED
    BY <2>1, <2>2
<1>22. ASSUME NEW f \in Files, NEW c \in Contents, Rewrite(f, c) PROVE FoundOK'
  <2>1. Changed(f) /\ UNCHANGED <<trusted, vouched, t, cache, sb, taken>>
    BY <1>22, RewriteWorld DEF Rewrite, sandbox
  <2>2. ASSUME Stable', t.at # "next", Same(t.file, t.id)'
        PROVE  Stable /\ Same(t.file, t.id) /\ disk'[t.file] = disk[t.file]
    <3>1. t.file \in Files /\ t.id \in Stamps /\ t.id <= writes
      BY <2>2 DEF Tasks
    <3> QED
      BY <2>1, <2>2, <3>1, ChangedSame
  <2> QED
    BY <2>1, <2>2
<1>23. ASSUME NEW f \in Files, DedupExpires(f) PROVE FoundOK'
  BY <1>23 DEF DedupExpires, world, intake, sandbox, history, Changed, Points
<1>24. CASE UNCHANGED vars
  BY <1>24 DEF vars, world, intake, sandbox, history
<1> QED
  BY <1>1, <1>2, <1>3, <1>4, <1>5, <1>6, <1>7, <1>8, <1>9, <1>10, <1>11, <1>12, <1>13, <1>14, <1>15, <1>16, <1>17, <1>18, <1>19, <1>20, <1>21, <1>22, <1>23, <1>24
     DEF Next, Loop, Scan, Sandbox, Programs

LEMMA DetonatedStep ==
  ASSUME IInv, [Next]_vars
  PROVE  DetonatedOK'
<1> USE WatcherAssumption DEF IInv, Types, StampOK, DetonatedOK, TaskType, WorldType, Kept, There, Same, Stable
<1>1. ASSUME Receive PROVE DetonatedOK'
  BY <1>1 DEF Receive, world, intake, sandbox, history, Changed
<1>2. ASSUME Flush PROVE DetonatedOK'
  BY <1>2 DEF Flush, Mishap, NoMishap, world, intake, sandbox, history, Changed
<1>3. ASSUME NEW f \in Files, Examine(f) PROVE DetonatedOK'
  BY <1>3 DEF Examine, Mishap, NoMishap, world, intake, sandbox, history, Changed
<1>4. ASSUME Capture PROVE DetonatedOK'
  BY <1>4 DEF Capture, world, intake, sandbox, history, Changed
<1>5. ASSUME CheckCache PROVE DetonatedOK'
  BY <1>5 DEF CheckCache, world, intake, sandbox, history, Changed
<1>6. ASSUME Revalidate PROVE DetonatedOK'
  BY <1>6 DEF Revalidate, world, intake, sandbox, history, Changed
<1>7. ASSUME Open PROVE DetonatedOK'
  BY <1>7 DEF Open, Mishap, NoMishap, world, intake, sandbox, history, Changed
<1>8. ASSUME ScanClam PROVE DetonatedOK'
  BY <1>8 DEF ScanClam, Mishap, NoMishap, world, intake, sandbox, history, Changed
<1>9. ASSUME SkipArgus PROVE DetonatedOK'
  BY <1>9 DEF SkipArgus, world, intake, sandbox, history, Changed
<1>10. ASSUME Analyze PROVE DetonatedOK'
  BY <1>10 DEF Analyze, Mishap, NoMishap, world, intake, sandbox, history, Changed
<1>11. ASSUME Verdict PROVE DetonatedOK'
  BY <1>11, VerdictThreads DEF Verdict, Mishap, NoMishap, world, intake, sandbox, history, Changed
<1>12. ASSUME RevalidateAgain PROVE DetonatedOK'
  BY <1>12 DEF RevalidateAgain, world, intake, sandbox, history, Changed
<1>13. ASSUME Take PROVE DetonatedOK'
  BY <1>13, QuarantineWorld DEF Take, Mishap, NoMishap, world, intake, sandbox, history, Changed
<1>14. ASSUME EditTrusted PROVE DetonatedOK'
  BY <1>14 DEF EditTrusted, world, intake, sandbox, history, Changed
<1>15. ASSUME NEW f \in Files, SbCapture(f) PROVE DetonatedOK'
  BY <1>15, SbCaptureThreads, SbDoneThreads DEF SbCapture, world, intake, sandbox, history, Changed
<1>16. ASSUME NEW f \in Files, Detonate(f) PROVE DetonatedOK'
  BY <1>16, SbStepThreads, SbDoneThreads DEF Detonate, Mishap, NoMishap, world, intake, sandbox, history, Changed
<1>17. ASSUME NEW f \in Files, SbRevalidate(f) PROVE DetonatedOK'
  BY <1>17, SbStepThreads, SbDoneThreads DEF SbRevalidate, world, intake, sandbox, history, Changed
<1>18. ASSUME NEW f \in Files, SbTake(f) PROVE DetonatedOK'
  BY <1>18, QuarantineWorld, SbDoneThreads DEF SbTake, Mishap, NoMishap, world, intake, sandbox, history, Changed
<1>19. ASSUME NEW f \in Files, Age(f) PROVE DetonatedOK'
  BY <1>19, AgeWorld DEF Age, world, intake, sandbox, history, Changed
<1>20. ASSUME NEW f \in Files, Remove(f) PROVE DetonatedOK'
  BY <1>20, RemoveWorld DEF Remove, world, intake, sandbox, history, Changed
<1>21. ASSUME NEW f \in Files, NEW c \in Contents, Appear(f, c) PROVE DetonatedOK'
  <2>1. Changed(f) /\ UNCHANGED <<trusted, vouched, t, cache, sb, taken>>
    BY <1>21, AppearWorld DEF Appear, sandbox
  <2>2. ASSUME NEW g \in Files, Stable', sb[g].at = "check", Same(g, sb[g].id)'
        PROVE  Stable /\ Same(g, sb[g].id) /\ disk'[g] = disk[g]
    <3>1. sb[g].id \in Stamps /\ sb[g].id <= writes
      BY DEF ThreadType, Threads
    <3> QED
      BY <2>1, <2>2, <3>1, ChangedSame
  <2> QED
    BY <2>1, <2>2
<1>22. ASSUME NEW f \in Files, NEW c \in Contents, Rewrite(f, c) PROVE DetonatedOK'
  <2>1. Changed(f) /\ UNCHANGED <<trusted, vouched, t, cache, sb, taken>>
    BY <1>22, RewriteWorld DEF Rewrite, sandbox
  <2>2. ASSUME NEW g \in Files, Stable', sb[g].at = "check", Same(g, sb[g].id)'
        PROVE  Stable /\ Same(g, sb[g].id) /\ disk'[g] = disk[g]
    <3>1. sb[g].id \in Stamps /\ sb[g].id <= writes
      BY DEF ThreadType, Threads
    <3> QED
      BY <2>1, <2>2, <3>1, ChangedSame
  <2> QED
    BY <2>1, <2>2
<1>23. ASSUME NEW f \in Files, DedupExpires(f) PROVE DetonatedOK'
  BY <1>23 DEF DedupExpires, world, intake, sandbox, history, Changed
<1>24. CASE UNCHANGED vars
  BY <1>24 DEF vars, world, intake, sandbox, history
<1> QED
  BY <1>1, <1>2, <1>3, <1>4, <1>5, <1>6, <1>7, <1>8, <1>9, <1>10, <1>11, <1>12, <1>13, <1>14, <1>15, <1>16, <1>17, <1>18, <1>19, <1>20, <1>21, <1>22, <1>23, <1>24
     DEF Next, Loop, Scan, Sandbox, Programs

LEMMA TakeStep ==
  ASSUME IInv, [Next]_vars
  PROVE  TakeOK'
<1> USE WatcherAssumption DEF IInv, Types, AnalysisOK, FoundOK, DetonatedOK, TakeOK, TaskType, WorldType, Kept, Carries, There, Same, Stable, Committed
<1>1. ASSUME Receive PROVE TakeOK'
  BY <1>1 DEF Receive, world, intake, sandbox, history, Changed, Points
<1>2. ASSUME Flush PROVE TakeOK'
  BY <1>2 DEF Flush, Mishap, NoMishap, world, intake, sandbox, history, Changed, Points
<1>3. ASSUME NEW f \in Files, Examine(f) PROVE TakeOK'
  BY <1>3, ExamineTask DEF Examine, Mishap, NoMishap, world, intake, sandbox, history, Changed, Points
<1>4. ASSUME Capture PROVE TakeOK'
  BY <1>4, CaptureTask, DoneTask DEF Capture, world, intake, sandbox, history, Changed, Points
<1>5. ASSUME CheckCache PROVE TakeOK'
  BY <1>5, StepTask, DoneTask DEF CheckCache, world, intake, sandbox, history, Changed, Points
<1>6. ASSUME Revalidate PROVE TakeOK'
  BY <1>6, StepTask, DoneTask DEF Revalidate, world, intake, sandbox, history, Changed, Points
<1>7. ASSUME Open PROVE TakeOK'
  BY <1>7, StepTask, DoneTask DEF Open, Mishap, NoMishap, world, intake, sandbox, history, Changed, Points
<1>8. ASSUME ScanClam PROVE TakeOK'
  BY <1>8, ClamTask, DoneTask DEF ScanClam, Mishap, NoMishap, world, intake, sandbox, history, Changed, Points
<1>9. ASSUME SkipArgus PROVE TakeOK'
  BY <1>9, StepTask, DoneTask DEF SkipArgus, world, intake, sandbox, history, Changed, Points
<1>10. ASSUME Analyze PROVE TakeOK'
  BY <1>10, AnalyzeTask DEF Analyze, Mishap, NoMishap, world, intake, sandbox, history, Changed, Points
<1>11. ASSUME Verdict PROVE TakeOK'
  <2>1. UNCHANGED <<disk, taken>> /\ t.file \in Files
    BY <1>11 DEF Verdict, world
  <2>2. t'.at # "take"
    <3>1. Step("check") \/ Done
      BY <1>11 DEF Verdict
    <3> QED
      BY <3>1, StepTask, DoneTask DEF Points
  <2>3. /\ mishaps \subseteq mishaps'
        /\ \A g \in Files : sb'[g].at = "take" => sb[g].at = "take"
    BY <1>11, <2>1, VerdictThreads DEF Verdict
  <2> QED
    BY <2>1, <2>2, <2>3
<1>12. ASSUME RevalidateAgain PROVE TakeOK'
  BY <1>12, StepTask, DoneTask DEF RevalidateAgain, world, intake, sandbox, history, Changed, Points
<1>13. ASSUME Take PROVE TakeOK'
  BY <1>13, StepTask, DoneTask, QuarantineWorld DEF Take, Mishap, NoMishap, world, intake, sandbox, history, Changed, Points
<1>14. ASSUME EditTrusted PROVE TakeOK'
  BY <1>14 DEF EditTrusted, world, intake, sandbox, history, Changed, Points
<1>15. ASSUME NEW f \in Files, SbCapture(f) PROVE TakeOK'
  BY <1>15, SbCaptureThreads, SbDoneThreads DEF SbCapture, world, intake, sandbox, history, Changed, Points
<1>16. ASSUME NEW f \in Files, Detonate(f) PROVE TakeOK'
  BY <1>16, SbStepThreads, SbDoneThreads DEF Detonate, Mishap, NoMishap, world, intake, sandbox, history, Changed, Points
<1>17. ASSUME NEW f \in Files, SbRevalidate(f) PROVE TakeOK'
  BY <1>17, SbStepThreads, SbDoneThreads DEF SbRevalidate, world, intake, sandbox, history, Changed, Points
<1>18. ASSUME NEW f \in Files, SbTake(f) PROVE TakeOK'
  BY <1>18, QuarantineWorld, SbDoneThreads DEF SbTake, Mishap, NoMishap, world, intake, sandbox, history, Changed, Points
<1>19. ASSUME NEW f \in Files, Age(f) PROVE TakeOK'
  BY <1>19, AgeWorld DEF Age, world, intake, sandbox, history, Changed, Points
<1>20. ASSUME NEW f \in Files, Remove(f) PROVE TakeOK'
  BY <1>20, RemoveWorld DEF Remove, world, intake, sandbox, history, Changed, Points
<1>21. ASSUME NEW f \in Files, NEW c \in Contents, Appear(f, c) PROVE TakeOK'
  <2>1. Changed(f) /\ UNCHANGED <<trusted, vouched, t, cache, sb, taken>>
    BY <1>21, AppearWorld DEF Appear, sandbox
  <2>2. SUFFICES ASSUME Stable', "late" \notin mishaps'
                 PROVE  /\ t.at = "take" /\ There(t.file)' => disk'[t.file].content # "clean"
                        /\ \A g \in Files : sb[g].at = "take" /\ There(g)' => disk'[g].content # "clean"
                        /\ "clean" \notin taken
    BY <2>1
  <2>3. Stable /\ "late" \notin mishaps /\ ~Committed(f)
    BY <2>1, <2>2 DEF Changed
  <2>4. \A g \in Files \ {f} : disk'[g] = disk[g]
    BY <2>1 DEF Changed
  <2>5. t.at = "take" => t.file \in Files \ {f}
    BY <2>3
  <2>6. \A g \in Files : sb[g].at = "take" => g # f
    BY <2>3
  <2>7. t.at = "take" /\ There(t.file)' => disk'[t.file].content # "clean"
    BY <2>1, <2>3, <2>4, <2>5
  <2>8. \A g \in Files : sb[g].at = "take" /\ There(g)' => disk'[g].content # "clean"
    BY <2>3, <2>4, <2>6
  <2> QED
    BY <2>3, <2>7, <2>8
<1>22. ASSUME NEW f \in Files, NEW c \in Contents, Rewrite(f, c) PROVE TakeOK'
  <2>1. Changed(f) /\ UNCHANGED <<trusted, vouched, t, cache, sb, taken>>
    BY <1>22, RewriteWorld DEF Rewrite, sandbox
  <2>2. SUFFICES ASSUME Stable', "late" \notin mishaps'
                 PROVE  /\ t.at = "take" /\ There(t.file)' => disk'[t.file].content # "clean"
                        /\ \A g \in Files : sb[g].at = "take" /\ There(g)' => disk'[g].content # "clean"
                        /\ "clean" \notin taken
    BY <2>1
  <2>3. Stable /\ "late" \notin mishaps /\ ~Committed(f)
    BY <2>1, <2>2 DEF Changed
  <2>4. \A g \in Files \ {f} : disk'[g] = disk[g]
    BY <2>1 DEF Changed
  <2>5. t.at = "take" => t.file \in Files \ {f}
    BY <2>3
  <2>6. \A g \in Files : sb[g].at = "take" => g # f
    BY <2>3
  <2>7. t.at = "take" /\ There(t.file)' => disk'[t.file].content # "clean"
    BY <2>1, <2>3, <2>4, <2>5
  <2>8. \A g \in Files : sb[g].at = "take" /\ There(g)' => disk'[g].content # "clean"
    BY <2>3, <2>4, <2>6
  <2> QED
    BY <2>3, <2>7, <2>8
<1>23. ASSUME NEW f \in Files, DedupExpires(f) PROVE TakeOK'
  BY <1>23 DEF DedupExpires, world, intake, sandbox, history, Changed, Points
<1>24. CASE UNCHANGED vars
  BY <1>24 DEF vars, world, intake, sandbox, history
<1> QED
  BY <1>1, <1>2, <1>3, <1>4, <1>5, <1>6, <1>7, <1>8, <1>9, <1>10, <1>11, <1>12, <1>13, <1>14, <1>15, <1>16, <1>17, <1>18, <1>19, <1>20, <1>21, <1>22, <1>23, <1>24
     DEF Next, Loop, Scan, Sandbox, Programs

LEMMA CacheStep ==
  ASSUME IInv, [Next]_vars
  PROVE  CleanWasScanned'
<1> USE WatcherAssumption DEF IInv, Types, StampOK, AnalysisOK, CleanWasScanned, Hit, TaskType, WorldType, Kept, There, Same, Stable
<1>1. ASSUME Receive PROVE CleanWasScanned'
  BY <1>1 DEF Receive, world, intake, sandbox, history, Changed
<1>2. ASSUME Flush PROVE CleanWasScanned'
  BY <1>2 DEF Flush, Mishap, NoMishap, world, intake, sandbox, history, Changed
<1>3. ASSUME NEW f \in Files, Examine(f) PROVE CleanWasScanned'
  BY <1>3 DEF Examine, Mishap, NoMishap, world, intake, sandbox, history, Changed
<1>4. ASSUME Capture PROVE CleanWasScanned'
  BY <1>4 DEF Capture, world, intake, sandbox, history, Changed
<1>5. ASSUME CheckCache PROVE CleanWasScanned'
  <2>1. UNCHANGED <<disk, vouched, mishaps>>
    BY <1>5 DEF CheckCache, world, history
  <2>2. \A g \in Files : cache'[g] = cache[g] \/ cache'[g] = None
    BY <1>5 DEF CheckCache, CacheType, Caches
  <2> QED
    BY <2>1, <2>2
<1>6. ASSUME Revalidate PROVE CleanWasScanned'
  BY <1>6 DEF Revalidate, world, intake, sandbox, history, Changed
<1>7. ASSUME Open PROVE CleanWasScanned'
  BY <1>7 DEF Open, Mishap, NoMishap, world, intake, sandbox, history, Changed
<1>8. ASSUME ScanClam PROVE CleanWasScanned'
  BY <1>8 DEF ScanClam, Mishap, NoMishap, world, intake, sandbox, history, Changed
<1>9. ASSUME SkipArgus PROVE CleanWasScanned'
  <2>1. UNCHANGED <<disk, vouched, mishaps>> /\ t.file \in Files
    BY <1>9 DEF SkipArgus, world, history
  <2>2. UNCHANGED cache \/ cache' = Recorded(FALSE)
    BY <1>9 DEF SkipArgus
  <2>3. \A g \in Files : cache'[g] = cache[g] \/ ~cache'[g].clean
    <3> SUFFICES ASSUME NEW g \in Files, cache' = Recorded(FALSE)
                 PROVE  cache'[g] = cache[g] \/ ~cache'[g].clean
      BY <2>2
    <3>1. CASE g = t.file
      BY <2>1, <3>1, RecordedCache
    <3>2. CASE g # t.file
      BY <2>1, <3>2, RecordedCache
    <3> QED
      BY <3>1, <3>2
  <2> QED
    BY <2>1, <2>3
<1>10. ASSUME Analyze PROVE CleanWasScanned'
  BY <1>10 DEF Analyze, Mishap, NoMishap, world, intake, sandbox, history, Changed
<1>11. ASSUME Verdict PROVE CleanWasScanned'
  <2>1. UNCHANGED <<disk, vouched>> /\ t.file \in Files /\ t.at = "verdict"
    BY <1>11 DEF Verdict, world
  <2>2. mishaps \subseteq mishaps'
    BY <1>11, <2>1, VerdictThreads DEF Verdict
  <2>3. SUFFICES ASSUME mishaps' \cap {"inplace", "heuristics", "excluded"} = {},
                        NEW g \in Files, There(g), Hit(g, disk[g].stamp)', cache'[g].clean
                 PROVE  disk[g].content # "bad" \/ "bad" \in vouched
    BY <2>1
  <2>4. Stable /\ mishaps \cap {"inplace", "heuristics", "excluded"} = {}
        /\ ~Mishap("excluded")
    BY <2>2, <2>3 DEF Mishap
  <2>5. CASE cache'[g] = cache[g]
    BY <2>1, <2>3, <2>4, <2>5
  <2>6. CASE cache'[g] # cache[g]
    <3>1. PICK b \in BOOLEAN :
            /\ cache' = Recorded(b)
            /\ b => \/ t.sha \in trusted
                    \/ ~t.error /\ ~t.partial /\ t.score # "bad"
      BY <1>11, <2>4, <2>6 DEF Verdict
    <3>2. g = t.file /\ There(g) /\ cache'[g].stamp = t.meta /\ cache'[g].clean = b
      BY <2>1, <2>6, <3>1, RecordedCache
    <3>3. b /\ disk[g].stamp = t.meta
      BY <2>1, <2>3, <3>2
    <3>4. /\ t.sha = disk[g].content \/ (t.sha = "clean" /\ t.error)
          /\ t.error \/ t.partial \/ t.score = disk[g].content
      BY <2>1, <2>2, <2>3, <2>4, <3>2, <3>3 DEF Unread
    <3>5. "clean" \notin trusted
      BY DEF Threats
    <3> QED
      BY <3>1, <3>3, <3>4, <3>5
  <2> QED
    BY <2>5, <2>6
<1>12. ASSUME RevalidateAgain PROVE CleanWasScanned'
  BY <1>12 DEF RevalidateAgain, world, intake, sandbox, history, Changed
<1>13. ASSUME Take PROVE CleanWasScanned'
  BY <1>13, QuarantineWorld DEF Take, Mishap, NoMishap, world, intake, sandbox, history, Changed
<1>14. ASSUME EditTrusted PROVE CleanWasScanned'
  BY <1>14 DEF EditTrusted, world, intake, sandbox, history, Changed
<1>15. ASSUME NEW f \in Files, SbCapture(f) PROVE CleanWasScanned'
  BY <1>15 DEF SbCapture, world, intake, sandbox, history, Changed
<1>16. ASSUME NEW f \in Files, Detonate(f) PROVE CleanWasScanned'
  BY <1>16 DEF Detonate, Mishap, NoMishap, world, intake, sandbox, history, Changed
<1>17. ASSUME NEW f \in Files, SbRevalidate(f) PROVE CleanWasScanned'
  BY <1>17 DEF SbRevalidate, world, intake, sandbox, history, Changed
<1>18. ASSUME NEW f \in Files, SbTake(f) PROVE CleanWasScanned'
  BY <1>18, QuarantineWorld DEF SbTake, Mishap, NoMishap, world, intake, sandbox, history, Changed
<1>19. ASSUME NEW f \in Files, Age(f) PROVE CleanWasScanned'
  BY <1>19, AgeWorld DEF Age, world, intake, sandbox, history, Changed
<1>20. ASSUME NEW f \in Files, Remove(f) PROVE CleanWasScanned'
  BY <1>20, RemoveWorld DEF Remove, world, intake, sandbox, history, Changed
<1>21. ASSUME NEW f \in Files, NEW c \in Contents, Appear(f, c) PROVE CleanWasScanned'
  <2>1. Changed(f) /\ UNCHANGED <<trusted, vouched, t, cache, sb, taken>>
    BY <1>21, AppearWorld DEF Appear, sandbox
  <2>2. ASSUME Stable', NEW g \in Files, There(g)', Hit(g, disk[g].stamp)'
        PROVE  Stable /\ There(g) /\ disk'[g] = disk[g]
    <3>1. cache[g] \in [stamp : Stamps, fp : Contents, clean : BOOLEAN]
      BY <2>1, <2>2 DEF CacheType, Caches
    <3>2. cache[g].stamp \in Stamps /\ cache[g].stamp <= writes /\ disk'[g].stamp = cache[g].stamp
      BY <2>1, <2>2, <3>1
    <3> QED
      BY <2>1, <2>2, <3>2, ChangedSame
  <2>3. mishaps \subseteq mishaps'
    BY <2>1 DEF Changed
  <2>4. UNCHANGED <<vouched, cache>>
    BY <2>1
  <2> QED
    BY <2>2, <2>3, <2>4
<1>22. ASSUME NEW f \in Files, NEW c \in Contents, Rewrite(f, c) PROVE CleanWasScanned'
  <2>1. Changed(f) /\ UNCHANGED <<trusted, vouched, t, cache, sb, taken>>
    BY <1>22, RewriteWorld DEF Rewrite, sandbox
  <2>2. ASSUME Stable', NEW g \in Files, There(g)', Hit(g, disk[g].stamp)'
        PROVE  Stable /\ There(g) /\ disk'[g] = disk[g]
    <3>1. cache[g] \in [stamp : Stamps, fp : Contents, clean : BOOLEAN]
      BY <2>1, <2>2 DEF CacheType, Caches
    <3>2. cache[g].stamp \in Stamps /\ cache[g].stamp <= writes /\ disk'[g].stamp = cache[g].stamp
      BY <2>1, <2>2, <3>1
    <3> QED
      BY <2>1, <2>2, <3>2, ChangedSame
  <2>3. mishaps \subseteq mishaps'
    BY <2>1 DEF Changed
  <2>4. UNCHANGED <<vouched, cache>>
    BY <2>1
  <2> QED
    BY <2>2, <2>3, <2>4
<1>23. ASSUME NEW f \in Files, DedupExpires(f) PROVE CleanWasScanned'
  BY <1>23 DEF DedupExpires, world, intake, sandbox, history, Changed
<1>24. CASE UNCHANGED vars
  BY <1>24 DEF vars, world, intake, sandbox, history
<1> QED
  BY <1>1, <1>2, <1>3, <1>4, <1>5, <1>6, <1>7, <1>8, <1>9, <1>10, <1>11, <1>12, <1>13, <1>14, <1>15, <1>16, <1>17, <1>18, <1>19, <1>20, <1>21, <1>22, <1>23, <1>24
     DEF Next, Loop, Scan, Sandbox, Programs

-----------------------------------------------------------------------------
(* The theorems.                                                           *)

LEMMA TypesAreTypeOK == Types => TypeOK
BY DEF Types, WorldType, IntakeType, TaskType, CacheType, ThreadType, HistoryType,
       Disks, Tasks, Caches, Threads, TypeOK, Threats, Contents

LEMMA InitIInv == Init => IInv
<1> SUFFICES ASSUME Init PROVE IInv
  OBVIOUS
<1> USE WatcherAssumption DEF Init
<1>1. Types
  <2>1. Cardinality({}) = 0 /\ 0 \in Stamps
    BY FS_EmptySet DEF Stamps
  <2>2. WorldType
    BY <2>1 DEF WorldType, Disks, Threats, Contents
  <2>3. IntakeType
    <3>1. queue \in Seq(Files) /\ Len(queue) = 0 /\ 0 <= QueueCap /\ 0 <= DebounceCap
      OBVIOUS
    <3> QED
      BY <2>1, <3>1 DEF IntakeType
  <2>4. TaskType /\ CacheType /\ HistoryType
    BY IdleType DEF TaskType, CacheType, Caches, HistoryType
  <2>5. ThreadType
    BY <2>1 DEF ThreadType, Threads
  <2> QED
    BY <2>2, <2>3, <2>4, <2>5 DEF Types
<1>2. StampOK /\ AnalysisOK /\ FoundOK /\ DetonatedOK
  BY IdleType DEF StampOK, AnalysisOK, FoundOK, DetonatedOK, There, Same
<1>3. TakeOK /\ CleanWasScanned
  BY IdleType DEF TakeOK, CleanWasScanned, There
<1> QED
  BY <1>1, <1>2, <1>3 DEF IInv

\* The invariant of the proofs holds in every behaviour.
THEOREM Invariance == Spec => []IInv
<1>1. IInv /\ [Next]_vars => IInv'
  <2> SUFFICES ASSUME IInv, [Next]_vars PROVE IInv'
    OBVIOUS
  <2>1. Types'
    BY WorldStep, IntakeStep, TaskStep, CacheTypeStep, ThreadStep, HistoryStep DEF Types
  <2>2. StampOK' /\ AnalysisOK' /\ FoundOK'
    BY StampStep, AnalysisStep, FoundStep
  <2>3. DetonatedOK' /\ TakeOK' /\ CleanWasScanned'
    BY DetonatedStep, TakeStep, CacheStep
  <2> QED
    BY <2>1, <2>2, <2>3 DEF IInv
<1> QED
  BY InitIInv, <1>1, PTL DEF Spec

\* Every variable has its type; in particular neither the channel nor the
\* debounce set outgrows its cap.
THEOREM TypeCorrect == Spec => []TypeOK
<1>1. IInv => TypeOK
  BY TypesAreTypeOK DEF IInv
<1> QED
  BY Invariance, <1>1, PTL

\* What the cache lets pass was found clean by every layer, or is trusted: an
\* entry that fits the file was made of a whole analysis of what it holds.
THEOREM CleanWasScannedHolds == Spec => []CleanWasScanned
<1>1. IInv => CleanWasScanned
  BY DEF IInv
<1> QED
  BY Invariance, <1>1, PTL

\* What is taken from the user is what was found: the second look compares the
\* file with the one that was captured before the scan.
THEOREM TakesWhatItFoundHolds == Spec => []TakesWhatItFound
<1>1. IInv => TakesWhatItFound
  BY DEF IInv, TakeOK, Stable, TakesWhatItFound
<1> QED
  BY Invariance, <1>1, PTL

=============================================================================
