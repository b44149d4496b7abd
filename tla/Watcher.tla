-------------------------------- MODULE Watcher --------------------------------
(***************************************************************************)
(* The pipeline of the real-time watcher, from the notification of a       *)
(* change to the quarantine of what was found.                             *)
(*                                                                         *)
(*   - the notify callback and its bounded channel;                        *)
(*   - watcher_loop: the debounce set and its overflow into a rescan of    *)
(*     the directory, the filters, the captured identity of the file, the  *)
(*     cache, ClamAV, ARGUS under the budget, the cache again, a second    *)
(*     look at the identity, the quarantine;                               *)
(*   - the threads that detonate a suspect file in the sandbox.            *)
(*                                                                         *)
(* Meanwhile programs create, write and remove the files, and the          *)
(* administrator edits the list of trusted hashes. Files is one watched    *)
(* directory, without the names and sizes the filters of the loop skip.    *)
(***************************************************************************)
EXTENDS Naturals, Sequences, FiniteSets

CONSTANTS
  Files,
  Visible,      \* the files in a Downloads, Desktop or Documents folder
  QueueCap,     \* NOTIFY_QUEUE_CAP
  DebounceCap,  \* DEBOUNCE_CAP
  RescanCap,    \* OVERFLOW_RESCAN_CAP
  Faults,       \* what may go wrong, a subset of Mishaps
  MaxFaults,    \* bound on the kinds of faults in one behaviour
  MaxWrites,    \* bound on changes to the files
  MaxTrust,     \* bound on edits of the trusted hashes
  None

Contents == {"clean", "grey", "bad"}   \* "grey" shows itself in the sandbox only
Threats == {"grey", "bad"}

(***************************************************************************)
(* Ways in which a file passes unseen, or is taken for another:            *)
(*   unseen     notify reports an error, or does not watch the directory:  *)
(*              it was missing when the watcher started, or watch failed;  *)
(*   dropped    the channel was full, and nothing rescans;                 *)
(*   truncated  the rescan of an overflow stopped at its cap;              *)
(*   young      outside the visible folders, created 500 ms ago or less;   *)
(*   restored   the path was restored from quarantine half a minute ago;   *)
(*   locked     the file could not be opened;                              *)
(*   error      a scanner failed on the file;                              *)
(*   heuristics the settings had ARGUS switched off;                       *)
(*   partial    the budget was spent before every layer had looked;        *)
(*   excluded   the settings exclude the detection by its name;            *)
(*   kept       the quarantine failed;                                     *)
(*   unproved   no sandbox, or the same path was detonated a minute ago;   *)
(*   inplace    the file was rewritten under the watcher's eyes in the     *)
(*              same second and at the same size: its identity stayed;     *)
(*   late       the file changed after the second look at its identity.    *)
(***************************************************************************)
Mishaps == {"unseen", "dropped", "truncated", "young", "restored", "locked", "error",
            "heuristics", "partial", "excluded", "kept", "unproved", "inplace", "late"}

ASSUME WatcherAssumption ==
  /\ Visible \subseteq Files /\ IsFiniteSet(Files)
  /\ Faults \subseteq Mishaps
  /\ {QueueCap, DebounceCap, RescanCap} \subseteq Nat \ {0}
  /\ {MaxFaults, MaxWrites, MaxTrust} \subseteq Nat
  /\ None \notin Files

VARIABLES
  disk,     \* the files
  trusted,  \* contents on the list of trusted hashes
  queue,    \* the notify channel
  recent,   \* the debounce set
  overflow, \* overflow_dirs names the directory
  batch,    \* what is left of the batch under way
  t,        \* the watcher thread at work on one file
  cache,    \* the watcher's own ScanCache
  sb,       \* the sandbox thread of each file
  dedup,    \* sandbox_dedup
  writes, edits,
  mishaps,  \* (history)
  vouched,  \* contents that were ever trusted (history)
  taken     \* contents that were quarantined (history)

world == <<disk, trusted, writes, edits, vouched>>
intake == <<queue, recent, overflow, batch>>
sandbox == <<sb, dedup>>
history == <<mishaps, taken>>
vars == <<world, intake, t, cache, sandbox, history>>

\* The stamp is what FileIdentity compares: index, size and second of the last
\* write. A change that keeps it is rare, and happens.
Stamps == 0 .. MaxWrites
File == [content : Contents, stamp : Stamps, young : BOOLEAN]

Points == {"next", "capture", "cache", "revalidate", "open", "clam", "argus",
           "verdict", "check", "take"}
Idle == [at |-> "next", file |-> None, meta |-> 0, id |-> 0, found |-> FALSE, sha |-> "clean",
         score |-> "clean", error |-> FALSE, partial |-> FALSE]

TypeOK ==
  /\ disk \in [Files -> File \cup {None}]
  /\ trusted \subseteq Contents /\ vouched \subseteq Contents
  /\ queue \in Seq(Files) /\ Len(queue) <= QueueCap
  /\ recent \subseteq Files /\ Cardinality(recent) <= DebounceCap
  /\ overflow \in BOOLEAN
  /\ batch \subseteq Files
  /\ t \in [at : Points, file : Files \cup {None}, meta : Stamps, id : Stamps,
            found : BOOLEAN, sha : Contents, score : Contents, error : BOOLEAN,
            partial : BOOLEAN]
  /\ cache \in [Files -> [stamp : Stamps, fp : Contents, clean : BOOLEAN] \cup {None}]
  /\ sb \in [Files -> [at : {"off", "capture", "detonate", "check", "take"}, id : Stamps]]
  /\ dedup \subseteq Files
  /\ writes \in Stamps /\ edits \in 0 .. MaxTrust
  /\ mishaps \subseteq Mishaps /\ taken \subseteq Contents

Init ==
  /\ disk = [f \in Files |-> None]
  /\ trusted \in SUBSET Threats /\ vouched = trusted
  /\ queue = << >> /\ recent = {} /\ overflow = FALSE /\ batch = {}
  /\ t = Idle
  /\ cache = [f \in Files |-> None]
  /\ sb = [f \in Files |-> [at |-> "off", id |-> 0]] /\ dedup = {}
  /\ writes = 0 /\ edits = 0
  /\ mishaps = {} /\ taken = {}

-----------------------------------------------------------------------------
(* Faults.                                                                 *)

May(m) == m \in Faults /\ (m \in mishaps \/ Cardinality(mishaps) < MaxFaults)
Mishap(m) == mishaps' = mishaps \cup {m}
NoMishap == UNCHANGED mishaps

There(f) == disk[f] # None
Same(f, id) == There(f) /\ disk[f].stamp = id

-----------------------------------------------------------------------------
(* The files and the notify callback.                                      *)

\* The last look at the file is behind, and the quarantine ahead.
Committed(f) == (t.file = f /\ t.at = "take") \/ sb[f].at = "take"
Late(f) == IF Committed(f) THEN {"late"} ELSE {}

\* try_send: a full channel drops the event and counts it. An error of notify is
\* logged, and what is not watched sends nothing.
Emit(f, other) ==
  \/ /\ Len(queue) < QueueCap
     /\ queue' = Append(queue, f) /\ mishaps' = mishaps \cup other
  \/ /\ Len(queue) >= QueueCap
     /\ mishaps' = mishaps \cup other \cup {"dropped"} /\ UNCHANGED queue
  \/ /\ May("unseen")
     /\ mishaps' = mishaps \cup other \cup {"unseen"} /\ UNCHANGED queue

\* A file appears: it is created with its content, or renamed into place.
Appear(f, c) ==
  /\ writes < MaxWrites /\ writes' = writes + 1
  /\ ~There(f)
  /\ disk' = [disk EXCEPT ![f] = [content |-> c, stamp |-> writes + 1, young |-> TRUE]]
  /\ Emit(f, Late(f))
  /\ UNCHANGED <<trusted, edits, vouched, recent, overflow, batch, t, cache, sandbox,
                 taken>>

\* A program writes the file.
Rewrite(f, c) ==
  /\ writes < MaxWrites /\ writes' = writes + 1
  /\ There(f) /\ c # disk[f].content
  /\ \E kept \in BOOLEAN :
       /\ kept => May("inplace")
       /\ disk' = [disk EXCEPT ![f].content = c,
                               ![f].stamp = IF kept THEN @ ELSE writes + 1]
       /\ Emit(f, Late(f) \cup (IF kept THEN {"inplace"} ELSE {}))
  /\ UNCHANGED <<trusted, edits, vouched, recent, overflow, batch, t, cache, sandbox,
                 taken>>

\* A removal is not an event the loop looks at.
Remove(f) ==
  /\ There(f)
  /\ disk' = [disk EXCEPT ![f] = None]
  /\ UNCHANGED <<trusted, writes, edits, vouched, intake, t, cache, sandbox, history>>

Age(f) ==
  /\ There(f) /\ disk[f].young
  /\ disk' = [disk EXCEPT ![f].young = FALSE]
  /\ UNCHANGED <<trusted, writes, edits, vouched, intake, t, cache, sandbox, history>>

\* load_trusted_hashes, after a change of the settings.
EditTrusted ==
  /\ edits < MaxTrust /\ edits' = edits + 1
  /\ trusted' \in SUBSET Threats \ {trusted}
  /\ vouched' = vouched \cup trusted'
  /\ UNCHANGED <<disk, writes, intake, t, cache, sandbox, history>>

-----------------------------------------------------------------------------
(* watcher_loop: intake.                                                   *)

\* One event; a path that is no file is passed over. Above the cap of the
\* debounce set its directory is noted for a rescan.
Receive ==
  /\ t.at = "next" /\ batch = {} /\ queue # << >>
  /\ queue' = Tail(queue)
  /\ LET f == Head(queue)
         room == Cardinality(recent) < DebounceCap
     IN /\ recent' = IF There(f) /\ room THEN recent \cup {f} ELSE recent
        /\ overflow' = (overflow \/ (There(f) /\ ~room))
  /\ UNCHANGED <<batch, world, t, cache, sandbox, history>>

Present == {f \in Files : There(f)}

\* What collect_overflow_rescan_files may add to the batch: the files of the
\* directory, until the batch has the sum of the two caps.
Rescans ==
  LET room == DebounceCap + RescanCap - Cardinality(recent) IN
  IF ~overflow THEN {{}}
  ELSE {found \in SUBSET Present :
          IF Cardinality(Present) <= room THEN found = Present
                                          ELSE Cardinality(found) = room}

\* Mutant: the directories noted for a rescan are forgotten.
FlushRecent ==
  /\ t.at = "next" /\ batch = {} /\ (recent # {} \/ overflow)
  /\ recent' = {} /\ overflow' = FALSE /\ batch' = recent
  /\ UNCHANGED <<queue, world, t, cache, sandbox, history>>

\* The debounce delay is over, or the fast path forces the flush.
Flush ==
  /\ t.at = "next" /\ batch = {} /\ (recent # {} \/ overflow)
  /\ recent' = {} /\ overflow' = FALSE
  /\ \E found \in Rescans :
       /\ batch' = recent \cup found
       /\ IF overflow /\ found # Present THEN Mishap("truncated") ELSE NoMishap
  /\ UNCHANGED <<queue, world, t, cache, sandbox, taken>>

-----------------------------------------------------------------------------
(* watcher_loop: one file.                                                 *)

Step(at) == t' = [t EXCEPT !.at = at]
Done == t' = Idle

\* The filters, up to the metadata: files younger than 500 ms are passed over
\* unless they are where downloads land, and then those a restore has marked.
Examine(f) ==
  /\ t.at = "next" /\ f \in batch
  /\ batch' = batch \ {f}
  /\ \/ ~There(f) /\ UNCHANGED t /\ NoMishap
     \/ There(f) /\ disk[f].young /\ f \notin Visible /\ UNCHANGED t /\ Mishap("young")
     \/ /\ There(f) /\ (~disk[f].young \/ f \in Visible)
        /\ May("restored") /\ Mishap("restored") /\ UNCHANGED t
     \/ /\ There(f) /\ (~disk[f].young \/ f \in Visible)
        /\ t' = [t EXCEPT !.at = "capture", !.file = f, !.meta = disk[f].stamp]
        /\ NoMishap
  /\ UNCHANGED <<queue, recent, overflow, world, cache, sandbox, taken>>

\* FileIdentity::capture.
Capture ==
  /\ t.at = "capture"
  /\ \/ ~There(t.file) /\ Done
     \/ There(t.file) /\ t' = [t EXCEPT !.at = "cache", !.id = disk[t.file].stamp]
  /\ UNCHANGED <<intake, world, cache, sandbox, history>>

\* check_with_metadata: the metadata read before, the content of now. An entry
\* whose content does not fit is removed.
Hit(f, stamp) ==
  /\ cache[f] # None /\ There(f)
  /\ cache[f].stamp = stamp /\ cache[f].fp = disk[f].content

CheckCache ==
  LET f == t.file IN
  /\ t.at = "cache"
  /\ \/ Hit(f, t.meta) /\ cache[f].clean /\ Done /\ UNCHANGED cache
     \/ Hit(f, t.meta) /\ ~cache[f].clean /\ Step("revalidate") /\ UNCHANGED cache
     \/ /\ ~Hit(f, t.meta) /\ Step("revalidate")
        /\ cache' = IF cache[f] # None /\ There(f) /\ cache[f].stamp = t.meta
                    THEN [cache EXCEPT ![f] = None] ELSE cache
  /\ UNCHANGED <<intake, world, sandbox, history>>

\* FileIdentity::revalidate, before the scan: whatever changed the file has sent
\* an event of its own.
Revalidate ==
  /\ t.at = "revalidate"
  /\ \/ Same(t.file, t.id) /\ Step("open")
     \/ ~Same(t.file, t.id) /\ Done
  /\ UNCHANGED <<intake, world, cache, sandbox, history>>

Open ==
  /\ t.at = "open"
  /\ \/ There(t.file) /\ Step("clam") /\ NoMishap
     \/ ~There(t.file) /\ Done /\ NoMishap
     \/ There(t.file) /\ May("locked") /\ Done /\ Mishap("locked")
  /\ UNCHANGED <<intake, world, cache, sandbox, taken>>

\* scan_file_clamav. What is bad is found here or by ARGUS; the scan may fail, or
\* spend the budget of the file.
ScanClam ==
  /\ t.at = "clam"
  /\ \/ ~There(t.file) /\ Done /\ NoMishap
     \/ /\ There(t.file)
        /\ \E infected \in {FALSE, disk[t.file].content = "bad"} :
             \/ /\ t' = [t EXCEPT !.at = "argus", !.found = infected] /\ NoMishap
             \/ /\ May("error") /\ ~infected /\ Mishap("error")
                /\ t' = [t EXCEPT !.at = "argus", !.error = TRUE]
             \/ /\ May("partial") /\ Mishap("partial")
                /\ t' = [t EXCEPT !.at = "argus", !.found = infected, !.partial = TRUE]
  /\ UNCHANGED <<intake, world, cache, sandbox, taken>>

\* cache.record_with_metadata: the metadata of before the scan, the content of
\* now.
Recorded(clean) ==
  IF There(t.file)
  THEN [cache EXCEPT ![t.file] = [stamp |-> t.meta, fp |-> disk[t.file].content,
                                  clean |-> clean]]
  ELSE cache

\* The budget was spent before ARGUS: a file that looks clean is not cached.
SkipArgus ==
  /\ t.at = "argus" /\ t.partial
  /\ \/ ~There(t.file) /\ Done /\ UNCHANGED cache
     \/ There(t.file) /\ t.found /\ Step("check") /\ cache' = Recorded(FALSE)
     \/ There(t.file) /\ ~t.found /\ Done /\ UNCHANGED cache
  /\ UNCHANGED <<intake, world, sandbox, history>>

\* analyze_file_with_tracker, when ClamAV left some of the budget: it hashes what
\* it reads; it too may fail or stop half way. A whole analysis finds what is bad
\* and leaves a score in between for what is grey. With the heuristics switched
\* off it is not called: the score is 0, and there is no hash.
Analyze ==
  /\ t.at = "argus"
  /\ \/ /\ There(t.file) /\ NoMishap
        /\ LET c == disk[t.file].content
           IN t' = [t EXCEPT !.at = "verdict", !.sha = c, !.score = c]
     \/ /\ There(t.file) => May("error")
        /\ IF There(t.file) THEN Mishap("error") ELSE NoMishap
        /\ t' = [t EXCEPT !.at = "verdict", !.error = TRUE]
     \/ /\ There(t.file) /\ May("partial") /\ Mishap("partial")
        /\ \E s \in {"clean", disk[t.file].content} :
             t' = [t EXCEPT !.at = "verdict", !.sha = disk[t.file].content, !.score = s,
                            !.partial = TRUE]
     \/ May("heuristics") /\ Mishap("heuristics") /\ Step("verdict")
  /\ UNCHANGED <<intake, world, cache, sandbox, taken>>

\* should_sandbox: a thread of its own, once a minute for a path.
Detonates == t.score = "grey" /\ ~t.found
Spawn ==
  \/ /\ ~Detonates /\ UNCHANGED sandbox /\ NoMishap
  \/ /\ Detonates /\ t.file \notin dedup
     /\ sb' = [sb EXCEPT ![t.file].at = "capture"]
     /\ dedup' = dedup \cup {t.file} /\ NoMishap
  \/ /\ Detonates /\ t.file \in dedup
     /\ Mishap("unproved") /\ UNCHANGED sandbox

\* Mutant: a verdict that is not whole is cached like any other.
VerdictCachesPartial ==
  LET threat == t.found \/ t.score = "bad" IN
  /\ t.at = "verdict"
  /\ Spawn
  /\ cache' = IF ~t.error \/ threat THEN Recorded(~threat) ELSE cache
  /\ IF threat /\ t.sha \notin trusted THEN Step("check") ELSE Done
  /\ UNCHANGED <<intake, world, taken>>

\* The trusted hashes (ARGUS has hashed the file it analysed), the unified
\* verdict, the cache: neither an error nor a partial analysis is clean, and an
\* error beside a find of ClamAV is that of ARGUS. An excluded detection is none.
Verdict ==
  LET threat == t.found \/ t.score = "bad" IN
  /\ t.at = "verdict"
  /\ \/ /\ t.sha \in trusted /\ Spawn
        /\ cache' = Recorded(TRUE) /\ Done
     \/ /\ t.sha \notin trusted /\ Spawn
        /\ cache' = IF (t.found \/ ~t.error) /\ (threat \/ ~t.partial)
                    THEN Recorded(~threat) ELSE cache
        /\ IF threat THEN Step("check") ELSE Done
     \/ /\ t.sha \notin trusted /\ threat
        /\ May("excluded") /\ Mishap("excluded")
        /\ cache' = IF ~t.error /\ ~t.partial THEN Recorded(TRUE) ELSE cache
        /\ Done /\ UNCHANGED sandbox
  /\ UNCHANGED <<intake, world, taken>>

\* Mutant: the identity is not looked at again.
RevalidateNever ==
  /\ t.at = "check" /\ Step("take")
  /\ UNCHANGED <<intake, world, cache, sandbox, history>>

\* revalidate, before the quarantine.
RevalidateAgain ==
  /\ t.at = "check"
  /\ \/ Same(t.file, t.id) /\ Step("take")
     \/ ~Same(t.file, t.id) /\ Done
  /\ UNCHANGED <<intake, world, cache, sandbox, history>>

\* quarantine_file takes what the path names (see Quarantine).
QuarantineFile(f) ==
  \/ /\ There(f) /\ NoMishap
     /\ taken' = taken \cup {disk[f].content}
     /\ disk' = [disk EXCEPT ![f] = None]
  \/ ~There(f) /\ NoMishap /\ UNCHANGED <<disk, taken>>
  \/ There(f) /\ May("kept") /\ Mishap("kept") /\ UNCHANGED <<disk, taken>>

Take ==
  /\ t.at = "take"
  /\ QuarantineFile(t.file) /\ Done
  /\ UNCHANGED <<trusted, writes, edits, vouched, intake, cache, sandbox>>

-----------------------------------------------------------------------------
(* sandbox_detonation_background.                                          *)

SbStep(f, at) == sb' = [sb EXCEPT ![f].at = at]
SbDone(f) == sb' = [sb EXCEPT ![f] = [at |-> "off", id |-> 0]]

\* Without an identity the thread does nothing that counts.
SbCapture(f) ==
  /\ sb[f].at = "capture"
  /\ \/ ~There(f) /\ SbDone(f)
     \/ There(f) /\ sb' = [sb EXCEPT ![f] = [at |-> "detonate", id |-> disk[f].stamp]]
  /\ UNCHANGED <<world, intake, t, cache, dedup, history>>

\* What runs is what the path names now.
Detonate(f) ==
  /\ sb[f].at = "detonate"
  /\ \/ There(f) /\ disk[f].content = "grey" /\ SbStep(f, "check") /\ NoMishap
     \/ ~(There(f) /\ disk[f].content = "grey") /\ SbDone(f) /\ NoMishap
     \/ There(f) /\ May("unproved") /\ Mishap("unproved") /\ SbDone(f)
  /\ UNCHANGED <<world, intake, t, cache, dedup, taken>>

\* The hash of what the watcher had read, "grey", may be trusted by now.
SbRevalidate(f) ==
  /\ sb[f].at = "check"
  /\ IF Same(f, sb[f].id) /\ "grey" \notin trusted THEN SbStep(f, "take") ELSE SbDone(f)
  /\ UNCHANGED <<world, intake, t, cache, dedup, history>>

SbTake(f) ==
  /\ sb[f].at = "take"
  /\ QuarantineFile(f) /\ SbDone(f)
  /\ UNCHANGED <<trusted, writes, edits, vouched, intake, t, cache, dedup>>

\* SANDBOX_DEDUP_SECS is longer than a detonation.
DedupExpires(f) ==
  /\ f \in dedup /\ sb[f].at = "off"
  /\ dedup' = dedup \ {f}
  /\ UNCHANGED <<world, intake, t, cache, sb, history>>

-----------------------------------------------------------------------------
Scan ==
  \/ Capture \/ CheckCache \/ Revalidate \/ Open \/ ScanClam \/ SkipArgus \/ Analyze
  \/ Verdict \/ RevalidateAgain \/ Take
Loop == Receive \/ Flush \/ (\E f \in Files : Examine(f)) \/ Scan
Sandbox(f) == SbCapture(f) \/ Detonate(f) \/ SbRevalidate(f) \/ SbTake(f)
Programs(f) == Age(f) \/ Remove(f) \/ \E c \in Contents : Appear(f, c) \/ Rewrite(f, c)

Next ==
  \/ Loop \/ EditTrusted
  \/ \E f \in Files : Sandbox(f) \/ Programs(f) \/ DedupExpires(f)

\* The watcher's thread and the sandbox threads run; recv_timeout and the
\* debounce delay end. Programs and administrators owe nothing.
Spec == /\ Init /\ [][Next]_vars
        /\ WF_vars(Loop)
        /\ \A f \in Files : WF_vars(Sandbox(f))

-----------------------------------------------------------------------------
(* Properties.                                                             *)

\* A file the watcher's cache lets pass was found clean, whole, by every layer,
\* or its hash was trusted: never an error, never a half analysis, never the
\* content that came after; but for a file rewritten in the same second and size,
\* and for settings that had ARGUS switched off or excluded a detection, whose
\* entries outlive the setting.
CleanWasScanned ==
  mishaps \cap {"inplace", "heuristics", "excluded"} = {} =>
    \A f \in Files :
      There(f) /\ Hit(f, disk[f].stamp) /\ cache[f].clean =>
        disk[f].content # "bad" \/ "bad" \in vouched

\* "Quarantining wrong file is CRITICAL": what is taken from the user is what was
\* found, by the watcher or by the sandbox, whatever replaced it meanwhile; but
\* for a change after the second look, or one that keeps the identity.
TakesWhatItFound ==
  mishaps \cap {"inplace", "late"} = {} => "clean" \notin taken

\* A threat on the disk does not stay: it is quarantined, replaced, removed or
\* trusted, or one of the named accidents has happened. A file that changes under
\* the scan is scanned again, and none is lost to the overflow of the debounce set.
Threat(f) == There(f) /\ disk[f].content \in Threats \ vouched
ThreatsEnd == \A f \in Files : Threat(f) ~> (~Threat(f) \/ mishaps # {})

=============================================================================
