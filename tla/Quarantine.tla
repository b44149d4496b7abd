----------------------------- MODULE Quarantine -----------------------------
(***************************************************************************)
(* The quarantine of sentinelld: quarantine_file, quarantine_restore,      *)
(* quarantine_restore_as and quarantine_delete of ipc/state.rs with the    *)
(* file operations of quarantine/mod.rs, and the realtime watcher that     *)
(* quarantines what it detects (watcher/mod.rs).                           *)
(*                                                                         *)
(* A quarantined file lives in three stores that share no transaction: the *)
(* original on disk, its encrypted copy in the vault, its row in the       *)
(* database.  The database lock is held for one statement at a time and no *)
(* call knows of another, so every access to a store is an action, and the *)
(* service may stop between any two.                                       *)
(*                                                                         *)
(* A file's bytes are a member of Contents; the file that a restore call r *)
(* has created and not completed is r itself, and whatever is read of it   *)
(* meanwhile is the Fragment.                                              *)
(***************************************************************************)
EXTENDS FiniteSets

CONSTANTS
    Paths,
    Contents,    \* files of the user
    Ids,         \* quarantine_file calls: each draws a fresh quarantine id
    Realtime,    \* those the watcher makes
    Restores,    \* quarantine_restore and quarantine_restore_as calls
    Deletes,     \* quarantine_delete calls, of a client or of the retention
    Fragment,
    None

\* QuarantineRow.status
Statuses == {"quarantined", "restored", "deleted", "failed"}

ASSUME QuarantineAssumption ==
    /\ Realtime \subseteq Ids
    /\ Contents \cap Restores = {}
    /\ Fragment \notin Contents \cup Restores
    /\ IsFiniteSet(Paths)
    /\ IsFiniteSet(Ids)
    /\ None \notin Contents \cup Restores \cup Paths \cup Ids \cup Statuses \cup {Fragment}

VARIABLES
    disk,      \* the file at each path
    vault,     \* <id>.vault
    row,       \* the status column of the quarantine table
    origin,    \* its original_path column
    suppress,  \* restore_suppress: paths marked less than 30 s ago
    apc,       \* quarantine_file calls
    seen,      \* the file the watcher captured (FileIdentity), then the one
               \* that was copied
    rpc, rid, dest, rstatus, got,  \* restore calls: the id, the destination,
                                   \* the status read, the bytes decrypted
    dpc, did,  \* delete calls
    \* history, read by the properties only
    outside,   \* contents that have not appeared on disk yet
    deleted,   \* contents that were taken from the disk, or that a delete call
               \* has removed from the vault
    purged,    \* ids whose vault file a restore has purged
    mishaps    \* "fragment": a file was copied that a restore was writing;
               \* "stray": a finalize removed another file than was copied

stores      == <<disk, vault, row>>
addVars     == <<origin, apc, seen>>
restoreVars == <<rpc, rid, dest, rstatus, got>>
deleteVars  == <<dpc, did>>
hist        == <<outside, deleted, purged, mishaps>>
vars == <<stores, suppress, addVars, restoreVars, deleteVars, hist>>

Blobs    == Contents \cup {Fragment}

\* What a reader of the file finds now.
Bytes(b) == IF b \in Restores THEN Fragment ELSE b

Init ==
    /\ disk = [p \in Paths |-> None]
    /\ vault = [q \in Ids |-> None]
    /\ row = [q \in Ids |-> None]
    /\ origin = [q \in Ids |-> None]
    /\ suppress = {}
    /\ apc = [q \in Ids |-> "new"]
    /\ seen = [q \in Ids |-> None]
    /\ rpc = [r \in Restores |-> "new"]
    /\ rid = [r \in Restores |-> None]
    /\ dest = [r \in Restores |-> None]
    /\ rstatus = [r \in Restores |-> None]
    /\ got = [r \in Restores |-> None]
    /\ dpc = [d \in Deletes |-> "new"]
    /\ did = [d \in Deletes |-> None]
    /\ outside = Contents
    /\ deleted = {}
    /\ purged = {}
    /\ mishaps = {}

\* The user, or a program, puts a file on disk or takes one away for good.
Drop(p, c) ==
    /\ disk[p] = None
    /\ c \in outside
    /\ disk' = [disk EXCEPT ![p] = c]
    /\ outside' = outside \ {c}
    /\ UNCHANGED <<vault, row, suppress, addVars, restoreVars, deleteVars,
                   deleted, purged, mishaps>>

Take(p) ==
    /\ disk[p] \in Contents
    /\ disk' = [disk EXCEPT ![p] = None]
    /\ deleted' = deleted \cup {disk[p]}
    /\ UNCHANGED <<vault, row, suppress, addVars, restoreVars, deleteVars,
                   outside, purged, mishaps>>

-----------------------------------------------------------------------------
(* The watcher, one thread: an event of a path that is not suppressed      *)
(* captures the identity of the file; after the scan the identity is       *)
(* validated again, then quarantine_file is called with the path.          *)

Watch(q, p) ==
    /\ q \in Realtime
    /\ apc[q] = "new"
    /\ \A k \in Realtime : apc[k] \in {"new", "done"}
    /\ p \notin suppress
    /\ disk[p] # None
    /\ seen' = [seen EXCEPT ![q] = disk[p]]
    /\ origin' = [origin EXCEPT ![q] = p]
    /\ apc' = [apc EXCEPT ![q] = "watched"]
    /\ UNCHANGED <<stores, suppress, restoreVars, deleteVars, hist>>

Revalidate(q) ==
    /\ apc[q] = "watched"
    /\ apc' = [apc EXCEPT ![q] =
                 IF disk[origin[q]] = seen[q] THEN "prepare" ELSE "done"]
    /\ UNCHANGED <<stores, suppress, origin, seen, restoreVars, deleteVars, hist>>

\* quarantine.add, the start-up scan: no look at suppress.
Add(q, p) ==
    /\ q \in Ids \ Realtime
    /\ apc[q] = "new"
    /\ origin' = [origin EXCEPT ![q] = p]
    /\ apc' = [apc EXCEPT ![q] = "prepare"]
    /\ UNCHANGED <<stores, suppress, seen, restoreVars, deleteVars, hist>>

-----------------------------------------------------------------------------
(* quarantine_file.                                                        *)

\* prepare_quarantine_file: encrypt the file into the vault.  A partial vault
\* file is removed on any error.
Prepare(q) ==
    /\ apc[q] = "prepare"
    /\ \/ /\ disk[origin[q]] # None
          /\ vault' = [vault EXCEPT ![q] = Bytes(disk[origin[q]])]
          /\ seen' = [seen EXCEPT ![q] = disk[origin[q]]]
          /\ mishaps' = IF disk[origin[q]] \in Restores
                        THEN mishaps \cup {"fragment"} ELSE mishaps
          /\ apc' = [apc EXCEPT ![q] = "insert"]
       \/ /\ apc' = [apc EXCEPT ![q] = "done"]
          /\ UNCHANGED <<vault, seen, mishaps>>
    /\ UNCHANGED <<disk, row, suppress, origin, restoreVars, deleteVars,
                   outside, deleted, purged>>

Insert(q) ==
    /\ apc[q] = "insert"
    /\ row' = [row EXCEPT ![q] = "quarantined"]
    /\ apc' = [apc EXCEPT ![q] = "finalize"]
    /\ UNCHANGED <<disk, vault, suppress, origin, seen, restoreVars, deleteVars, hist>>

\* Mutant: the error is swallowed.
InsertFailsUnseen(q) ==
    /\ apc[q] = "insert"
    /\ apc' = [apc EXCEPT ![q] = "finalize"]
    /\ UNCHANGED <<stores, suppress, origin, seen, restoreVars, deleteVars, hist>>

\* The insert fails: remove the vault file, ignoring an error.
InsertFails(q) ==
    /\ apc[q] = "insert"
    /\ vault' \in {vault, [vault EXCEPT ![q] = None]}
    /\ apc' = [apc EXCEPT ![q] = "done"]
    /\ UNCHANGED <<disk, row, suppress, origin, seen, restoreVars, deleteVars, hist>>

\* finalize_quarantine_file: remove whatever the path names now.
Finalize(q) ==
    /\ apc[q] = "finalize"
    /\ disk[origin[q]] # None
    /\ disk' = [disk EXCEPT ![origin[q]] = None]
    /\ mishaps' = IF disk[origin[q]] = seen[q] THEN mishaps ELSE mishaps \cup {"stray"}
    /\ apc' = [apc EXCEPT ![q] = "done"]
    /\ UNCHANGED <<vault, row, suppress, origin, seen, restoreVars, deleteVars,
                   outside, deleted, purged>>

\* The original is gone, or cannot be removed: the vault file goes first ...
FinalizeFails(q) ==
    /\ apc[q] = "finalize"
    /\ vault' \in {vault, [vault EXCEPT ![q] = None]}
    /\ apc' = [apc EXCEPT ![q] = "failed"]
    /\ UNCHANGED <<disk, row, suppress, origin, seen, restoreVars, deleteVars, hist>>

\* ... then the row, if the database takes it, and the vault file once more.
MarkFailed(q) ==
    /\ apc[q] = "failed"
    /\ row' \in {row, [row EXCEPT ![q] = "failed"]}
    /\ apc' = [apc EXCEPT ![q] = "cleanup"]
    /\ UNCHANGED <<disk, vault, suppress, origin, seen, restoreVars, deleteVars, hist>>

RemoveOrphan(q) ==
    /\ apc[q] = "cleanup"
    /\ vault' \in {vault, [vault EXCEPT ![q] = None]}
    /\ apc' = [apc EXCEPT ![q] = "done"]
    /\ UNCHANGED <<disk, row, suppress, origin, seen, restoreVars, deleteVars, hist>>

-----------------------------------------------------------------------------
(* quarantine_restore (p is the row's original path) and                   *)
(* quarantine_restore_as (p is the caller's).                              *)

ReadRow(r, q, p) ==
    /\ rpc[r] = "new"
    /\ row[q] # None
    /\ rid' = [rid EXCEPT ![r] = q]
    /\ dest' = [dest EXCEPT ![r] = p]
    /\ rstatus' = [rstatus EXCEPT ![r] = row[q]]
    /\ rpc' = [rpc EXCEPT ![r] = "mark"]
    /\ UNCHANGED <<stores, suppress, addVars, got, deleteVars, hist>>

RestoreTo(r, point) ==
    /\ rpc' = [rpc EXCEPT ![r] = point]
    /\ UNCHANGED <<addVars, rid, dest, rstatus, deleteVars>>

Mark(r) ==
    /\ rpc[r] = "mark"
    /\ suppress' = suppress \cup {dest[r]}
    /\ RestoreTo(r, "check")
    /\ UNCHANGED <<stores, got, hist>>

\* The status that was read, the vault file, the destination.
Check(r) ==
    /\ rpc[r] = "check"
    /\ \/ /\ rstatus[r] = "quarantined"
          /\ vault[rid[r]] # None
          /\ disk[dest[r]] = None
          /\ RestoreTo(r, "create")
       \/ RestoreTo(r, "unmark")
    /\ UNCHANGED <<stores, suppress, got, hist>>

\* open_no_follow: create_new fails if the file exists by now.
Create(r) ==
    /\ rpc[r] = "create"
    /\ IF disk[dest[r]] = None
       THEN /\ disk' = [disk EXCEPT ![dest[r]] = r]
            /\ RestoreTo(r, "decrypt")
       ELSE /\ RestoreTo(r, "unmark")
            /\ UNCHANGED disk
    /\ UNCHANGED <<vault, row, suppress, got, hist>>

\* decrypt_vault_streaming opens the vault file ...
OpenVault(r) ==
    /\ rpc[r] = "decrypt"
    /\ IF vault[rid[r]] # None
       THEN /\ got' = [got EXCEPT ![r] = vault[rid[r]]]
            /\ RestoreTo(r, "write")
       ELSE /\ RestoreTo(r, "unlink")
            /\ UNCHANGED got
    /\ UNCHANGED <<stores, suppress, hist>>

\* ... and writes through the open handle, to a file that may have been
\* unlinked since.  Reading, writing or the hash check may fail.
Write(r) ==
    /\ rpc[r] = "write"
    /\ \/ /\ disk' = [p \in Paths |-> IF disk[p] = r THEN got[r] ELSE disk[p]]
          /\ RestoreTo(r, "commit")
       \/ /\ RestoreTo(r, "unlink")
          /\ UNCHANGED disk
    /\ UNCHANGED <<vault, row, suppress, got, hist>>

\* Remove the partial output, by path, ignoring an error.
Unlink(r) ==
    /\ rpc[r] = "unlink"
    /\ disk' \in {disk, [disk EXCEPT ![dest[r]] = None]}
    /\ RestoreTo(r, "unmark")
    /\ UNCHANGED <<vault, row, suppress, got, hist>>

\* unmark_restore_in_progress.
Unmark(r) ==
    /\ rpc[r] = "unmark"
    /\ suppress' = suppress \ {dest[r]}
    /\ RestoreTo(r, "done")
    /\ UNCHANGED <<stores, got, hist>>

\* Mutant: the vault file is purged before the row says so.
CommitAfterPurge(r) ==
    /\ rpc[r] = "commit"
    /\ vault' = [vault EXCEPT ![rid[r]] = None]
    /\ purged' = purged \cup {rid[r]}
    /\ RestoreTo(r, "purge")
    /\ UNCHANGED <<disk, row, suppress, got, outside, deleted, mishaps>>

\* The row first.  A file that could not be synced, or a database that fails,
\* ends the call here and leaves the vault file.
Commit(r) ==
    /\ rpc[r] = "commit"
    /\ \/ /\ row' = [row EXCEPT ![rid[r]] = "restored"]
          /\ RestoreTo(r, "purge")
       \/ /\ UNCHANGED row
          /\ \E point \in {"unmark", "done"} : RestoreTo(r, point)
    /\ UNCHANGED <<disk, vault, suppress, got, hist>>

\* purge_vault_after_restore: an error is only logged.
Purge(r) ==
    /\ rpc[r] = "purge"
    /\ \/ /\ vault' = [vault EXCEPT ![rid[r]] = None]
          /\ purged' = purged \cup {rid[r]}
       \/ UNCHANGED <<vault, purged>>
    /\ RestoreTo(r, "done")
    /\ UNCHANGED <<disk, row, suppress, got, outside, deleted, mishaps>>

\* A mark is 30 s old.  Timing: no restore takes that long to write its file.
Expire(p) ==
    /\ p \in suppress
    /\ \A r \in Restores : dest[r] = p => rpc[r] \in {"new", "purge", "done"}
    /\ suppress' = suppress \ {p}
    /\ UNCHANGED <<stores, addVars, restoreVars, deleteVars, hist>>

-----------------------------------------------------------------------------
(* quarantine_delete.                                                      *)

\* Read the row; anything but a quarantined one is refused.
CheckDeletable(d, q) ==
    /\ dpc[d] = "new"
    /\ row[q] # None
    /\ did' = [did EXCEPT ![d] = q]
    /\ dpc' = [dpc EXCEPT ![d] = IF row[q] = "quarantined" THEN "remove" ELSE "done"]
    /\ UNCHANGED <<stores, suppress, addVars, restoreVars, hist>>

\* delete_vault_file fails if the file is gone.
DeleteVaultFile(d) ==
    /\ dpc[d] = "remove"
    /\ \/ /\ vault[did[d]] # None
          /\ vault' = [vault EXCEPT ![did[d]] = None]
          /\ deleted' = deleted \cup ({vault[did[d]]} \cap Contents)
          /\ dpc' = [dpc EXCEPT ![d] = "update"]
       \/ /\ dpc' = [dpc EXCEPT ![d] = "done"]
          /\ UNCHANGED <<vault, deleted>>
    /\ UNCHANGED <<disk, row, suppress, addVars, restoreVars, did, outside, purged,
                   mishaps>>

\* The vault file is gone whether or not the database takes the status.
UpdateDeleted(d) ==
    /\ dpc[d] = "update"
    /\ row' \in {row, [row EXCEPT ![did[d]] = "deleted"]}
    /\ dpc' = [dpc EXCEPT ![d] = "done"]
    /\ UNCHANGED <<disk, vault, suppress, addVars, restoreVars, did, hist>>

-----------------------------------------------------------------------------
\* The service stops and starts again: every call in progress and every mark
\* is gone, what the stores hold stays.
Crash ==
    /\ \/ \E q \in Ids : apc[q] \notin {"new", "done"}
       \/ \E r \in Restores : rpc[r] \notin {"new", "done"}
       \/ \E d \in Deletes : dpc[d] \notin {"new", "done"}
    /\ apc' = [q \in Ids |-> IF apc[q] = "new" THEN "new" ELSE "done"]
    /\ rpc' = [r \in Restores |-> IF rpc[r] = "new" THEN "new" ELSE "done"]
    /\ dpc' = [d \in Deletes |-> IF dpc[d] = "new" THEN "new" ELSE "done"]
    /\ suppress' = {}
    /\ UNCHANGED <<stores, origin, seen, rid, dest, rstatus, got, did, hist>>

QuarantineFile(q) ==
    \/ Prepare(q) \/ Insert(q) \/ InsertFails(q)
    \/ Finalize(q) \/ FinalizeFails(q) \/ MarkFailed(q) \/ RemoveOrphan(q)

Watcher(q) == Revalidate(q) \/ \E p \in Paths : Watch(q, p)

Restore(r) ==
    \/ \E q \in Ids, p \in Paths : ReadRow(r, q, p)
    \/ Mark(r) \/ Check(r) \/ Create(r) \/ OpenVault(r) \/ Write(r)
    \/ Unlink(r) \/ Unmark(r) \/ Commit(r) \/ Purge(r)

Delete(d) ==
    \/ \E q \in Ids : CheckDeletable(d, q)
    \/ DeleteVaultFile(d) \/ UpdateDeleted(d)

Next ==
    \/ \E p \in Paths : Take(p) \/ \E c \in Contents : Drop(p, c)
    \/ \E q \in Ids, p \in Paths : Add(q, p)
    \/ \E q \in Ids : Watcher(q) \/ QuarantineFile(q)
    \/ \E r \in Restores : Restore(r)
    \/ \E d \in Deletes : Delete(d)
    \/ \E p \in Paths : Expire(p)
    \/ Crash

Spec == Init /\ [][Next]_vars

-----------------------------------------------------------------------------
(* Properties.                                                             *)

AddPoints == {"new", "watched", "prepare", "insert", "finalize", "failed",
              "cleanup", "done"}
RestorePoints == {"new", "mark", "check", "create", "decrypt", "write", "unlink",
                  "unmark", "commit", "purge", "done"}
DeletePoints == {"new", "remove", "update", "done"}

TypeOK ==
    /\ disk \in [Paths -> Blobs \cup Restores \cup {None}]
    /\ vault \in [Ids -> Blobs \cup {None}]
    /\ row \in [Ids -> Statuses \cup {None}]
    /\ origin \in [Ids -> Paths \cup {None}]
    /\ suppress \subseteq Paths
    /\ apc \in [Ids -> AddPoints]
    /\ seen \in [Ids -> Blobs \cup Restores \cup {None}]
    /\ rpc \in [Restores -> RestorePoints]
    /\ rid \in [Restores -> Ids \cup {None}]
    /\ dest \in [Restores -> Paths \cup {None}]
    /\ rstatus \in [Restores -> Statuses \cup {None}]
    /\ got \in [Restores -> Blobs \cup {None}]
    /\ dpc \in [Deletes -> DeletePoints]
    /\ did \in [Deletes -> Ids \cup {None}]
    /\ outside \subseteq Contents
    /\ deleted \subseteq Contents
    /\ purged \subseteq Ids
    /\ mishaps \subseteq {"fragment", "stray"}

\* c can be had: it is on disk, or in the vault under a row that restore
\* accepts.
Recoverable(c) ==
    \/ \E p \in Paths : disk[p] = c
    \/ \E q \in Ids : vault[q] = c /\ row[q] = "quarantined"

\* No failure, crash or interleaving of quarantine, restore and delete calls
\* loses a file nobody deleted or took away, but for two: a file was quarantined while a
\* restore was writing it, or a finalize removed another file than the one that
\* was copied.
NothingLost ==
    mishaps = {} =>
        \A c \in Contents \ (outside \cup deleted) : Recoverable(c)

\* "Commit DB status BEFORE purging vault": a row never says quarantined after
\* a restore has purged its vault file, whatever else runs or fails.
PurgedAfterCommit == \A q \in purged : row[q] # "quarantined"

=============================================================================
