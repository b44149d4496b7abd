--------------------------- MODULE SignatureUpdate ---------------------------
(***************************************************************************)
(* The update pipeline of the enhanced signature sets                      *)
(* (src/crates/sentinelld/src/engine/update_pipeline.rs) and the two IPC   *)
(* calls that drive it, sources.update and sources.rollback.               *)
(*                                                                         *)
(* What matters is on disk: four directories and the version ledger, which *)
(* survive a crash of the service at any point.  Each filesystem call that *)
(* a crash, or a concurrent rollback, can separate from the next one is an *)
(* action.  A directory maps each file name to the release its content     *)
(* comes from (None: the file is not there), so a SHA-256 match is "the    *)
(* content is that of the release".  A directory that does not exist is    *)
(* an empty one.                                                           *)
(***************************************************************************)
EXTENDS Integers, FiniteSets

CONSTANTS
    Providers,    \* SignatureProvider.id
    HasManifest,  \* providers with an update_url: the others are local
    Files,        \* file names
    Releases,     \* what a provider has published over time
    ProviderOf,   \* its provider
    Epoch,        \* its updated_at
    FilesOf,      \* the files its manifest lists
    None

ASSUME SignatureUpdateAssumption ==
    /\ HasManifest \subseteq Providers
    /\ ProviderOf \in [Releases -> Providers]
    /\ Epoch \in [Releases -> Nat \ {0}]
    /\ FilesOf \in [Releases -> SUBSET Files]
    /\ \A r, s \in Releases :
          ProviderOf[r] = ProviderOf[s] /\ Epoch[r] = Epoch[s] => r = s
    /\ None \notin Releases \cup Providers

VARIABLES
    active,    \* signatures/enhanced
    old,       \* signatures/enhanced_old
    pending,   \* signatures/enhanced_pending
    staging,   \* update_staging/<provider>; only that of the current update
               \* is ever read, and it is emptied first
    ledger,    \* enhanced_versions.json: last accepted epoch, 0 if none
    \* the thread that runs update_provider (SOURCES_UPDATE_IN_PROGRESS)
    pc,
    provider,
    files,     \* the names that were downloaded
    manifest,  \* the release whose manifest was fetched
    had,       \* had_existing
    \* the thread that runs rollback
    rpc,
    listing,   \* the names read_dir returned that are still to be removed
    \* history, read by the properties only
    newest,    \* the newest epoch of each provider that was active since the
               \* ledger last read as empty
    activated, \* some set was ever activated
    trimmed,   \* a rollback has removed a file of the active set
    stranded   \* a crash, or a restore that failed, left the set in the backup

disk == <<active, old, pending, staging, ledger>>
run  == <<provider, files, manifest, had>>
back == <<rpc, listing>>
hist == <<newest, activated, trimmed, stranded>>
vars == <<disk, pc, run, back, hist>>

Dirs == [Files -> Releases \cup {None}]
Empty == [f \in Files |-> None]
NoLedger == [p \in Providers |-> 0]
Names(d) == {f \in Files : d[f] # None}

\* remove_dir_all whose error is ignored: any part of d may be left.
Leftovers(d) == {[f \in Files |-> IF f \in S THEN d[f] ELSE None] : S \in SUBSET Files}

UpdatePoints ==
    {"idle", "download", "verify", "manifest", "ledger", "activate", "move",
     "dropold", "look", "backup", "swap", "restore", "scrub", "finish", "cleanup"}
RollbackPoints == {"idle", "remove", "sweep"}

Init ==
    /\ active = Empty /\ old = Empty /\ pending = Empty /\ staging = Empty
    /\ ledger = NoLedger
    /\ pc = "idle"
    /\ provider = None
    /\ files = {}
    /\ manifest = None
    /\ had = FALSE
    /\ rpc = "idle"
    /\ listing = {}
    /\ newest = NoLedger
    /\ activated = FALSE
    /\ trimmed = FALSE
    /\ stranded = FALSE

-----------------------------------------------------------------------------
(* update_provider.  Every failure cleans the staging directory up.        *)

Fail == pc' = "cleanup"

\* The single-flight flag, then prepare_staging.
Start(p) ==
    /\ pc = "idle"
    /\ provider' = p
    /\ files' = {}
    /\ manifest' = None
    /\ staging' = Empty
    /\ pc' = "download"
    /\ UNCHANGED <<active, old, pending, ledger, had, back, hist>>

\* A mirror or a local directory may lack files and may hold those of several
\* releases; no file at all, or an input or output error, fails the update.
Download ==
    /\ pc = "download"
    /\ staging' \in [Files -> {r \in Releases : ProviderOf[r] = provider} \cup {None}]
    /\ files' = Names(staging')
    /\ \/ files' # {} /\ pc' = "verify"
       \/ Fail
    /\ UNCHANGED <<active, old, pending, ledger, provider, manifest, had, back, hist>>

\* verify_staged: every downloaded file is still there (and well formed).
Verify ==
    /\ pc = "verify"
    /\ \/ /\ files \subseteq Names(staging)
          /\ pc' = IF provider \in HasManifest THEN "manifest" ELSE "activate"
       \/ Fail
    /\ UNCHANGED <<disk, run, back, hist>>

\* Mutant: only the staged files are checked against the manifest.
CheckManifestOneWay ==
    /\ pc = "manifest"
    /\ \/ \E m \in Releases :
             /\ ProviderOf[m] = provider
             /\ \A f \in files : f \in FilesOf[m] /\ staging[f] = m
             /\ manifest' = m
             /\ pc' = "ledger"
       \/ Fail /\ UNCHANGED manifest
    /\ UNCHANGED <<disk, provider, files, had, back, hist>>

\* fetch_and_verify_manifest: every listed file is staged with the listed
\* content, and every staged file is listed.
CheckManifest ==
    /\ pc = "manifest"
    /\ \/ \E m \in Releases :
             /\ ProviderOf[m] = provider
             /\ \A f \in FilesOf[m] : staging[f] = m
             /\ files \subseteq FilesOf[m]
             /\ manifest' = m
             /\ pc' = "ledger"
       \/ Fail /\ UNCHANGED manifest
    /\ UNCHANGED <<disk, provider, files, had, back, hist>>

\* The ledger is saved; the baselines that were not read are gone from it.
Record(read) ==
    /\ ledger' = [read EXCEPT ![provider] = Epoch[manifest]]
    /\ newest' = IF read = ledger THEN newest ELSE NoLedger
    /\ pc' = "activate"

\* Mutant: any manifest is accepted and recorded.
EnforceNothing ==
    /\ pc = "ledger"
    /\ \/ \E read \in {ledger, NoLedger} : Record(read)
       \/ Fail /\ UNCHANGED <<ledger, newest>>
    /\ UNCHANGED <<active, old, pending, staging, run, back, activated, trimmed, stranded>>

\* enforce_anti_rollback: refuse an older manifest, record any other, before
\* anything is activated.  A ledger that is missing, cannot be read or does not
\* parse (it is renamed into place, but not synced before a loss of power) reads
\* as empty: any manifest is accepted, and every provider's baseline is lost.
EnforceAntiRollback ==
    /\ pc = "ledger"
    /\ \/ \E read \in {ledger, NoLedger} :
             Epoch[manifest] >= read[provider] /\ Record(read)
       \/ Fail /\ UNCHANGED <<ledger, newest>>
    /\ UNCHANGED <<active, old, pending, staging, run, back, activated, trimmed, stranded>>

-----------------------------------------------------------------------------
(* activate.                                                               *)

\* Mutant: a stale pending directory that cannot be removed is ignored.
PreparePendingAnyway ==
    /\ pc = "activate"
    /\ pending' \in Leftovers(pending)
    /\ pc' = "move"
    /\ UNCHANGED <<active, old, staging, ledger, run, back, hist>>

\* A stale pending directory that cannot be removed fails the update.
PreparePending ==
    /\ pc = "activate"
    /\ \/ pending' = Empty /\ pc' = "move"
       \/ pending' \in Leftovers(pending) /\ Fail
    /\ UNCHANGED <<active, old, staging, ledger, run, back, hist>>

\* Rename, or copy and then try to remove the source.
MoveFile(f) ==
    /\ pc = "move"
    /\ f \in files \ Names(pending)
    /\ staging[f] # None
    /\ pending' = [pending EXCEPT ![f] = staging[f]]
    /\ staging' \in {staging, [staging EXCEPT ![f] = None]}
    /\ UNCHANGED <<active, old, ledger, pc, run, back, hist>>

MoveFails ==
    /\ pc = "move"
    /\ files \ Names(pending) # {}
    /\ pending' \in Leftovers(pending)
    /\ Fail
    /\ UNCHANGED <<active, old, staging, ledger, run, back, hist>>

AllMoved ==
    /\ pc = "move"
    /\ files \subseteq Names(pending)
    /\ pc' = "dropold"
    /\ UNCHANGED <<disk, run, back, hist>>

DropOld ==
    /\ pc = "dropold"
    /\ old' \in Leftovers(old)
    /\ pc' = "look"
    /\ UNCHANGED <<active, pending, staging, ledger, run, back, hist>>

LookForExisting ==
    /\ pc = "look"
    /\ had' = (active # Empty)
    /\ pc' = IF had' THEN "backup" ELSE "swap"
    /\ UNCHANGED <<disk, provider, files, manifest, back, hist>>

\* Rename active to old, which fails if old is still there.
Backup ==
    /\ pc = "backup"
    /\ \/ /\ old = Empty
          /\ old' = active
          /\ active' = Empty
          /\ pc' = "swap"
          /\ UNCHANGED pending
       \/ /\ pending' \in Leftovers(pending)
          /\ Fail
          /\ UNCHANGED <<active, old>>
    /\ UNCHANGED <<staging, ledger, run, back, hist>>

\* Rename pending to active.
Swap ==
    /\ pc = "swap"
    /\ \/ /\ active = Empty
          /\ active' = pending
          /\ pending' = Empty
          /\ newest' = [newest EXCEPT ![provider] =
                          IF provider \in HasManifest /\ Epoch[manifest] > @
                          THEN Epoch[manifest] ELSE @]
          /\ activated' = TRUE
          /\ trimmed' = FALSE
          /\ stranded' = FALSE
          /\ pc' = "finish"
       \/ /\ pc' = "restore"
          /\ UNCHANGED <<active, pending, hist>>
    /\ UNCHANGED <<old, staging, ledger, run, back>>

\* Mutant: the backup stays where it is when the swap fails.
RestoreForgotten ==
    /\ pc = "restore"
    /\ pc' = "scrub"
    /\ UNCHANGED <<active, old, pending, staging, ledger, run, back, hist>>

\* The swap failed: rename old back to active, ignoring an error.
Restore ==
    /\ pc = "restore"
    /\ \/ had /\ active = Empty /\ active' = old /\ old' = Empty /\ UNCHANGED stranded
       \/ stranded' = (stranded \/ had) /\ UNCHANGED <<active, old>>
    /\ pc' = "scrub"
    /\ UNCHANGED <<pending, staging, ledger, run, back, newest, activated, trimmed>>

Scrub ==
    /\ pc = "scrub"
    /\ pending' \in Leftovers(pending)
    /\ Fail
    /\ UNCHANGED <<active, old, staging, ledger, run, back, hist>>

Finish ==
    /\ pc = "finish"
    /\ old' \in Leftovers(old)
    /\ pending' \in Leftovers(pending)
    /\ pc' = "cleanup"
    /\ UNCHANGED <<active, staging, ledger, run, back, hist>>

\* cleanup_staging, then the call returns and drops the single-flight flag.
Cleanup ==
    /\ pc = "cleanup"
    /\ staging' \in Leftovers(staging)
    /\ provider' = None
    /\ files' = {}
    /\ manifest' = None
    /\ had' = FALSE
    /\ pc' = "idle"
    /\ UNCHANGED <<active, old, pending, ledger, back, hist>>

-----------------------------------------------------------------------------
(* sources.rollback, which does not take the single-flight flag: list the  *)
(* active directory, remove each name, then sweep the staging directories. *)

RollbackList ==
    /\ rpc = "idle"
    /\ listing' = Names(active)
    /\ rpc' = "remove"
    /\ UNCHANGED <<disk, pc, run, hist>>

\* Removed by path: after a swap this is the new file of that name.  An error
\* is ignored.
RollbackRemove(f) ==
    /\ rpc = "remove"
    /\ f \in listing
    /\ listing' = listing \ {f}
    /\ \/ active' = [active EXCEPT ![f] = None] /\ trimmed' = (trimmed \/ active[f] # None)
       \/ UNCHANGED <<active, trimmed>>
    /\ UNCHANGED <<old, pending, staging, ledger, pc, run, rpc, newest, activated, stranded>>

RollbackRemoved ==
    /\ rpc = "remove"
    /\ listing = {}
    /\ rpc' = "sweep"
    /\ UNCHANGED <<disk, pc, run, listing, hist>>

RollbackSweep ==
    /\ rpc = "sweep"
    /\ staging' \in Leftovers(staging)
    /\ rpc' \in {"sweep", "idle"}
    /\ UNCHANGED <<active, old, pending, ledger, pc, run, listing, hist>>

\* The service stops and starts again.  Nothing looks at the directories then.
Crash ==
    /\ pc # "idle" \/ rpc # "idle"
    /\ pc' = "idle" /\ provider' = None /\ files' = {} /\ manifest' = None
    /\ had' = FALSE
    /\ rpc' = "idle" /\ listing' = {}
    /\ stranded' = (stranded \/ (had /\ pc \in {"swap", "restore"}))
    /\ UNCHANGED <<disk, newest, activated, trimmed>>

-----------------------------------------------------------------------------
Activate ==
    \/ PreparePending \/ (\E f \in Files : MoveFile(f)) \/ MoveFails \/ AllMoved
    \/ DropOld \/ LookForExisting \/ Backup \/ Swap \/ Restore \/ Scrub \/ Finish

UpdateProvider ==
    \/ \E p \in Providers : Start(p)
    \/ Download \/ Verify \/ CheckManifest \/ EnforceAntiRollback
    \/ Activate \/ Cleanup

Rollback ==
    \/ RollbackList \/ RollbackRemoved \/ RollbackSweep
    \/ \E f \in Files : RollbackRemove(f)

Next == UpdateProvider \/ Rollback \/ Crash

Spec == Init /\ [][Next]_vars

-----------------------------------------------------------------------------
(* Properties.                                                             *)

TypeOK ==
    /\ {active, old, pending, staging} \subseteq Dirs
    /\ ledger \in [Providers -> Nat]
    /\ pc \in UpdatePoints
    /\ provider \in IF pc = "idle" THEN {None} ELSE Providers
    /\ files \subseteq Files
    /\ manifest \in Releases \cup {None}
    /\ had \in BOOLEAN
    /\ rpc \in RollbackPoints
    /\ listing \subseteq Files
    /\ newest \in [Providers -> Nat]
    /\ {activated, trimmed, stranded} \subseteq BOOLEAN

\* The files of d are all of one provider, and of one release of it where
\* there is a manifest to tell releases apart.
OneSet(d) ==
    \A f, g \in Names(d) :
        /\ ProviderOf[d[f]] = ProviderOf[d[g]]
        /\ ProviderOf[d[f]] \in HasManifest => d[f] = d[g]

\* d is a release, complete.
IsRelease(d) ==
    \E r \in Releases : d = [f \in Files |-> IF f \in FilesOf[r] THEN r ELSE None]

\* "never mix providers": whatever crashes, fails or is rolled back in
\* between, the active directory holds files of one provider only, and of one
\* release of it.
NeverMixed == OneSet(active)

\* "never partially activate": the active set of a provider with a manifest is
\* a complete release, unless a rollback has removed files from it.
NeverPartial ==
    (\E f \in Names(active) : ProviderOf[active[f]] \in HasManifest) =>
        IsRelease(active) \/ trimmed

\* Anti-rollback (SR-08): the active set of a provider is never older than one
\* that was active before it, across failed activations, restores and crashes;
\* before it, but after the ledger last read as empty, from where it starts again
\* for all providers.
NoDowngrade ==
    \A f \in Names(active) :
        ProviderOf[active[f]] \in HasManifest =>
            Epoch[active[f]] >= newest[ProviderOf[active[f]]]

\* d is a complete release, or a set of a provider that has no manifest to say
\* what is complete.
IsUsable(d) ==
    IsRelease(d) \/ \E f \in Names(d) : ProviderOf[d[f]] \notin HasManifest

\* "Never remove existing files until new ones are fully in place": once a
\* set has been activated, a complete one is in the active directory
\* or in its backup, through every failure of an update.  The exceptions: a
\* rollback was asked for, or the set was stranded in the backup, which the
\* next update removes before it has put anything in its place.
KeepsASet ==
    activated /\ ~trimmed /\ ~stranded =>
        IsUsable(active) \/ IsUsable(old)

=============================================================================
