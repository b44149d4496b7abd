--------------------------- MODULE QuarantineProofs ---------------------------
(***************************************************************************)
(* Proofs about the quarantine, for any number of files, paths and calls:  *)
(* the types are right, the database row precedes the purge of the vault   *)
(* file, and no file is lost, whatever runs at the same time, fails or     *)
(* crashes.                                                                *)
(*                                                                         *)
(* The purge is a step of its own after the commit, so the argument is     *)
(* about the life of a row: it appears once, before any restore or delete  *)
(* can have read it, and once it has left "quarantined" nothing brings it  *)
(* back.                                                                   *)
(*                                                                         *)
(* That no file is lost is a matter of counting.  The copies of a file are *)
(* those on disk and those in the vault that no call under way takes out   *)
(* of the reach of restore.  They outnumber the removals that finalize has *)
(* still to make: an insert adds one of each, a finalize takes one of each *)
(* away, and a restore writes its copy before it gives the vault's up.     *)
(***************************************************************************)
EXTENDS Quarantine, Integers, FiniteSetTheorems, TLAPS

\* A row appears with the insert of its only quarantine_file call.
RowsOK ==
    \A q \in Ids :
        /\ apc[q] \in {"new", "watched", "prepare", "insert"} => row[q] = None
        /\ apc[q] # "new" => origin[q] \in Paths

\* Restore and delete calls work on rows that exist.
CallsOK ==
    /\ \A r \in Restores : rpc[r] # "new" =>
          rid[r] \in Ids /\ dest[r] \in Paths /\ row[rid[r]] # None
    /\ \A d \in Deletes : dpc[d] # "new" => did[d] \in Ids /\ row[did[d]] # None

\* The row of an id that is purged, or about to be, says so.
PurgesOK ==
    /\ \A q \in purged : row[q] \notin {None, "quarantined"}
    /\ \A r \in Restores : rpc[r] = "purge" => row[rid[r]] \notin {None, "quarantined"}

VaultInv == TypeOK /\ RowsOK /\ CallsOK /\ PurgesOK

LEMMA InitVaultInv == Init => VaultInv
BY QuarantineAssumption
   DEF Init, VaultInv, TypeOK, RowsOK, CallsOK, PurgesOK, Blobs, Statuses, AddPoints,
       RestorePoints, DeletePoints

-----------------------------------------------------------------------------
(* Type correctness.                                                       *)

LEMMA StepTypeOK == VaultInv /\ [Next]_vars => TypeOK'
<1> SUFFICES ASSUME VaultInv, [Next]_vars PROVE TypeOK'
    OBVIOUS
<1> USE QuarantineAssumption
    DEF VaultInv, TypeOK, RowsOK, CallsOK, Statuses, AddPoints, RestorePoints,
        DeletePoints, Blobs, stores, addVars, restoreVars, deleteVars, hist
<1>1. ASSUME NEW p \in Paths, NEW c \in Contents, Drop(p, c) PROVE TypeOK'
    BY <1>1 DEF Drop
<1>2. ASSUME NEW p \in Paths, Take(p) PROVE TypeOK'
    BY <1>2 DEF Take
<1>3. ASSUME NEW q \in Ids, NEW p \in Paths, Add(q, p) PROVE TypeOK'
    BY <1>3 DEF Add
<1>4. ASSUME NEW q \in Ids, Watcher(q) PROVE TypeOK'
  <2>1. ASSUME NEW p \in Paths, Watch(q, p) PROVE TypeOK'
      BY <2>1 DEF Watch
  <2>2. CASE Revalidate(q) BY <2>2 DEF Revalidate
  <2> QED BY <1>4, <2>1, <2>2 DEF Watcher
<1>5. ASSUME NEW q \in Ids, QuarantineFile(q) PROVE TypeOK'
  <2>1. CASE Prepare(q)
    <3>1. origin[q] \in Paths
        BY <2>1 DEF Prepare
    <3>3. CASE disk[origin[q]] # None /\ apc' = [apc EXCEPT ![q] = "insert"]
      <4>1. Bytes(disk[origin[q]]) \in Blobs
          BY <3>1, <3>3 DEF Bytes
      <4>2. /\ vault' = [vault EXCEPT ![q] = Bytes(disk[origin[q]])]
            /\ seen' = [seen EXCEPT ![q] = disk[origin[q]]]
            /\ mishaps' \in {mishaps \cup {"fragment"}, mishaps}
          BY <2>1, <3>3 DEF Prepare
      <4> QED BY <2>1, <3>1, <3>3, <4>1, <4>2 DEF Prepare
    <3>4. CASE UNCHANGED <<vault, seen, mishaps>> /\ apc' = [apc EXCEPT ![q] = "done"]
        BY <2>1, <3>4 DEF Prepare
    <3> QED BY <2>1, <3>3, <3>4 DEF Prepare
  <2>2. CASE Insert(q) BY <2>2 DEF Insert
  <2>3. CASE InsertFails(q) BY <2>3 DEF InsertFails
  <2>4. CASE Finalize(q) BY <2>4 DEF Finalize
  <2>5. CASE FinalizeFails(q) BY <2>5 DEF FinalizeFails
  <2>6. CASE MarkFailed(q) BY <2>6 DEF MarkFailed
  <2>7. CASE RemoveOrphan(q) BY <2>7 DEF RemoveOrphan
  <2> QED BY <1>5, <2>1, <2>2, <2>3, <2>4, <2>5, <2>6, <2>7 DEF QuarantineFile
<1>6. ASSUME NEW r \in Restores, Restore(r) PROVE TypeOK'
  <2> USE DEF RestoreTo
  <2>1. ASSUME NEW q \in Ids, NEW p \in Paths, ReadRow(r, q, p) PROVE TypeOK'
      BY <2>1 DEF ReadRow
  <2>2. CASE Mark(r) BY <2>2 DEF Mark
  <2>3. CASE Check(r) BY <2>3 DEF Check
  <2>4. CASE Create(r) BY <2>4 DEF Create
  <2>5. CASE OpenVault(r) BY <2>5 DEF OpenVault
  <2>6. CASE Write(r) BY <2>6 DEF Write
  <2>7. CASE Unlink(r) BY <2>7 DEF Unlink
  <2>8. CASE Unmark(r) BY <2>8 DEF Unmark
  <2>9. CASE Commit(r) BY <2>9 DEF Commit
  <2>10. CASE Purge(r) BY <2>10 DEF Purge
  <2> QED BY <1>6, <2>1, <2>2, <2>3, <2>4, <2>5, <2>6, <2>7, <2>8, <2>9, <2>10
          DEF Restore
<1>7. ASSUME NEW d \in Deletes, Delete(d) PROVE TypeOK'
  <2>1. ASSUME NEW q \in Ids, CheckDeletable(d, q) PROVE TypeOK'
      BY <2>1 DEF CheckDeletable
  <2>2. CASE DeleteVaultFile(d) BY <2>2 DEF DeleteVaultFile
  <2>3. CASE UpdateDeleted(d) BY <2>3 DEF UpdateDeleted
  <2> QED BY <1>7, <2>1, <2>2, <2>3 DEF Delete
<1>8. ASSUME NEW p \in Paths, Expire(p) PROVE TypeOK'
    BY <1>8 DEF Expire
<1>9. CASE Crash BY <1>9 DEF Crash
<1>10. CASE UNCHANGED vars BY <1>10 DEF vars
<1> QED BY <1>1, <1>2, <1>3, <1>4, <1>5, <1>6, <1>7, <1>8, <1>9, <1>10 DEF Next

-----------------------------------------------------------------------------
(* The life of a row.                                                      *)

\* No step removes a row or takes it back to "quarantined".
LEMMA RowStep ==
    ASSUME VaultInv, [Next]_vars, NEW q \in Ids
    PROVE  /\ row[q] # None => row'[q] # None
           /\ row[q] \notin {None, "quarantined"} => row'[q] \notin {None, "quarantined"}
<1> USE QuarantineAssumption DEF VaultInv, TypeOK, RowsOK, Statuses, AddPoints, stores
<1> DEFINE Ages ==
      /\ row[q] # None => row'[q] # None
      /\ row[q] \notin {None, "quarantined"} => row'[q] \notin {None, "quarantined"}
<1>1. CASE \E k \in Ids : Insert(k)
  <2>1. PICK k \in Ids : Insert(k)
      BY <1>1
  <2>2. row[k] = None /\ row' = [row EXCEPT ![k] = "quarantined"]
      BY <2>1 DEF Insert
  <2> QED BY <2>2
<1>2. CASE \E k \in Ids : MarkFailed(k)
    BY <1>2 DEF MarkFailed
<1>3. CASE \E r \in Restores : Commit(r)
    BY <1>3 DEF Commit
<1>4. CASE \E d \in Deletes : UpdateDeleted(d)
    BY <1>4 DEF UpdateDeleted
<1>5. CASE row' = row
    BY <1>5
<1>6. \/ row' = row
      \/ \E k \in Ids : Insert(k) \/ MarkFailed(k)
      \/ \E r \in Restores : Commit(r)
      \/ \E d \in Deletes : UpdateDeleted(d)
  <2>1. ASSUME NEW k \in Ids, Watcher(k) PROVE row' = row
      BY <2>1 DEF Watcher, Watch, Revalidate
  <2>2. ASSUME NEW k \in Ids, QuarantineFile(k)
        PROVE  row' = row \/ Insert(k) \/ MarkFailed(k)
      BY <2>2 DEF QuarantineFile, Prepare, InsertFails, Finalize, FinalizeFails,
                  RemoveOrphan
  <2>3. ASSUME NEW r \in Restores, Restore(r) PROVE row' = row \/ Commit(r)
      BY <2>3 DEF Restore, ReadRow, Mark, Check, Create, OpenVault, Write, Unlink,
                  Unmark, Purge
  <2>4. ASSUME NEW d \in Deletes, Delete(d) PROVE row' = row \/ UpdateDeleted(d)
      BY <2>4 DEF Delete, CheckDeletable, DeleteVaultFile
  <2>5. CASE UNCHANGED vars BY <2>5 DEF vars
  <2> QED BY <2>1, <2>2, <2>3, <2>4, <2>5 DEF Next, Take, Drop, Add, Expire, Crash
<1> QED BY <1>1, <1>2, <1>3, <1>4, <1>5, <1>6

LEMMA StepRowsOK == VaultInv /\ [Next]_vars => RowsOK'
<1> SUFFICES ASSUME VaultInv, [Next]_vars PROVE RowsOK'
    OBVIOUS
<1> USE QuarantineAssumption
    DEF VaultInv, TypeOK, RowsOK, AddPoints, stores, addVars
<1>1. ASSUME NEW q \in Ids, NEW p \in Paths, Add(q, p) PROVE RowsOK'
    BY <1>1 DEF Add
<1>2. ASSUME NEW q \in Ids, Watcher(q) PROVE RowsOK'
    BY <1>2 DEF Watcher, Watch, Revalidate
<1>3. ASSUME NEW q \in Ids, QuarantineFile(q) PROVE RowsOK'
    BY <1>3 DEF QuarantineFile, Prepare, Insert, InsertFails, Finalize, FinalizeFails,
                MarkFailed, RemoveOrphan
<1>4. ASSUME NEW r \in Restores, Restore(r) PROVE RowsOK'
  <2>1. CASE Commit(r)
      BY <2>1 DEF Commit, RestoreTo, CallsOK
  <2>2. CASE ~Commit(r)
      BY <1>4, <2>2 DEF Restore, ReadRow, Mark, Check, Create, OpenVault, Write, Unlink,
                        Unmark, Purge, RestoreTo
  <2> QED BY <2>1, <2>2
<1>5. ASSUME NEW d \in Deletes, Delete(d) PROVE RowsOK'
    BY <1>5 DEF Delete, CheckDeletable, DeleteVaultFile, UpdateDeleted, CallsOK
<1>6. CASE Crash BY <1>6 DEF Crash
<1>7. CASE UNCHANGED <<row, apc, origin>> BY <1>7
<1>8. CASE UNCHANGED vars BY <1>7, <1>8 DEF vars
<1> QED BY <1>1, <1>2, <1>3, <1>4, <1>5, <1>6, <1>7, <1>8 DEF Next, Take, Drop, Expire

LEMMA StepCallsOK == VaultInv /\ [Next]_vars => CallsOK'
<1> SUFFICES ASSUME VaultInv, [Next]_vars PROVE CallsOK'
    OBVIOUS
<1>0. \A q \in Ids : row[q] # None => row'[q] # None
    BY RowStep
<1> USE QuarantineAssumption
    DEF VaultInv, TypeOK, CallsOK, RestorePoints, DeletePoints, stores, restoreVars,
        deleteVars
<1>1. ASSUME NEW r \in Restores, Restore(r) PROVE CallsOK'
  <2>1. ASSUME NEW q \in Ids, NEW p \in Paths, ReadRow(r, q, p) PROVE CallsOK'
      BY <2>1 DEF ReadRow
  <2>2. CASE UNCHANGED <<rid, dest, did, dpc>> /\ rpc[r] # "new"
             /\ \E point \in RestorePoints : rpc' = [rpc EXCEPT ![r] = point]
      BY <1>0, <2>2
  <2> QED BY <1>1, <2>1, <2>2
          DEF Restore, Mark, Check, Create, OpenVault, Write, Unlink, Unmark, Commit,
              Purge, RestoreTo
<1>2. ASSUME NEW d \in Deletes, Delete(d) PROVE CallsOK'
  <2>1. ASSUME NEW q \in Ids, CheckDeletable(d, q) PROVE CallsOK'
      BY <2>1 DEF CheckDeletable
  <2>2. CASE DeleteVaultFile(d) \/ UpdateDeleted(d)
      BY <1>0, <2>2 DEF DeleteVaultFile, UpdateDeleted
  <2> QED BY <1>2, <2>1, <2>2 DEF Delete
<1>3. CASE UNCHANGED <<rpc, rid, dest, dpc, did>>
    BY <1>0, <1>3
<1>4. CASE Crash BY <1>0, <1>4 DEF Crash
<1>5. CASE UNCHANGED vars BY <1>3, <1>5 DEF vars
<1>6. ASSUME NEW q \in Ids, Watcher(q) \/ QuarantineFile(q) \/ \E p \in Paths : Add(q, p)
      PROVE  UNCHANGED <<rpc, rid, dest, dpc, did>>
    BY <1>6 DEF Watcher, Watch, Revalidate, Add, QuarantineFile, Prepare, Insert,
                InsertFails, Finalize, FinalizeFails, MarkFailed, RemoveOrphan
<1> QED BY <1>1, <1>2, <1>3, <1>4, <1>5, <1>6 DEF Next, Take, Drop, Expire

LEMMA StepPurgesOK == VaultInv /\ [Next]_vars => PurgesOK'
<1> SUFFICES ASSUME VaultInv, [Next]_vars PROVE PurgesOK'
    OBVIOUS
<1>0. \A q \in Ids : row[q] \notin {None, "quarantined"} => row'[q] \notin {None, "quarantined"}
    BY RowStep
<1> USE QuarantineAssumption
    DEF VaultInv, TypeOK, CallsOK, PurgesOK, RestorePoints, Statuses, stores, restoreVars,
        hist
<1>1. ASSUME NEW r \in Restores, Restore(r) PROVE PurgesOK'
  <2>1. CASE Commit(r)
      BY <1>0, <2>1 DEF Commit, RestoreTo
  <2>2. CASE Purge(r)
      BY <1>0, <2>2 DEF Purge, RestoreTo
  <2>3. ASSUME NEW q \in Ids, NEW p \in Paths, ReadRow(r, q, p) PROVE PurgesOK'
      BY <1>0, <2>3 DEF ReadRow
  <2>4. CASE UNCHANGED <<rid, purged>>
             /\ \E point \in RestorePoints \ {"purge"} : rpc' = [rpc EXCEPT ![r] = point]
      BY <1>0, <2>4
  <2> QED BY <1>1, <2>1, <2>2, <2>3, <2>4
          DEF Restore, Mark, Check, Create, OpenVault, Write, Unlink, Unmark, RestoreTo
<1>2. CASE UNCHANGED <<rpc, rid, purged>>
    BY <1>0, <1>2
<1>3. CASE Crash BY <1>0, <1>3 DEF Crash
<1>4. CASE UNCHANGED vars BY <1>2, <1>4 DEF vars
<1>5. ASSUME NEW q \in Ids, Watcher(q) \/ QuarantineFile(q) \/ \E p \in Paths : Add(q, p)
      PROVE  UNCHANGED <<rpc, rid, purged>>
    BY <1>5 DEF Watcher, Watch, Revalidate, Add, QuarantineFile, Prepare, Insert,
                InsertFails, Finalize, FinalizeFails, MarkFailed, RemoveOrphan
<1>6. ASSUME NEW d \in Deletes, Delete(d) PROVE UNCHANGED <<rpc, rid, purged>>
    BY <1>6 DEF Delete, CheckDeletable, DeleteVaultFile, UpdateDeleted
<1> QED BY <1>1, <1>2, <1>3, <1>4, <1>5, <1>6 DEF Next, Take, Drop, Expire

-----------------------------------------------------------------------------
LEMMA VaultInvariant == Spec => []VaultInv
<1>1. VaultInv /\ [Next]_vars => VaultInv'
    BY StepTypeOK, StepRowsOK, StepCallsOK, StepPurgesOK DEF VaultInv
<1> QED BY InitVaultInv, <1>1, PTL DEF Spec

\* The stores, the calls and the history keep their types, for any sets of
\* files, paths, quarantine, restore and delete calls.
THEOREM TypeCorrect == Spec => []TypeOK
<1>1. VaultInv => TypeOK
    BY DEF VaultInv
<1> QED BY VaultInvariant, <1>1, PTL

\* "Commit DB status BEFORE purging vault": a row never says quarantined after a
\* restore has purged its vault file, whatever other calls, failures and crashes
\* come between.
THEOREM PurgedAfterCommitHolds == Spec => []PurgedAfterCommit
<1>1. VaultInv => PurgedAfterCommit
    BY DEF VaultInv, PurgesOK, PurgedAfterCommit
<1> QED BY VaultInvariant, <1>1, PTL

-----------------------------------------------------------------------------
(* Nothing is lost.                                                        *)

Copies(c) == {p \in Paths : disk[p] = c}

\* Vault copies that restore accepts, and that no call is about to give up.
Safe(c) ==
    {q \in Ids :
        /\ vault[q] = c
        /\ row[q] = "quarantined"
        /\ apc[q] \notin {"failed", "cleanup"}
        /\ \A r \in Restores : rpc[r] = "commit" => rid[r] # q}

\* Calls that are about to remove c from the disk.
Removals(c) == {q \in Ids : apc[q] = "finalize" /\ seen[q] = c}

Kept(c) == Cardinality(Copies(c)) + Cardinality(Safe(c)) > Cardinality(Removals(c))

CopiesOutnumber ==
    mishaps = {} => \A c \in Contents \ (outside \cup deleted) : Kept(c)

\* Without a mishap what is about to be removed is what was copied.
SeenOK ==
    mishaps = {} =>
        \A q \in Ids :
            /\ apc[q] \in {"insert", "finalize"} => seen[q] \in Contents
            /\ apc[q] = "insert" => vault[q] = seen[q]
            /\ apc[q] = "finalize" => vault[q] \in {None, seen[q]}

\* Without a mishap a file under restoration stays where it was created.
PartialOK ==
    mishaps = {} =>
        \A r \in Restores :
            rpc[r] \in {"decrypt", "write", "unlink"} => disk[dest[r]] = r

\* A vault file is never replaced by another one.
CopiedOK ==
    /\ \A r \in Restores : rpc[r] = "write" => vault[rid[r]] \in {None, got[r]}
    /\ \A d \in Deletes : dpc[d] = "update" => vault[did[d]] = None

\* A file that has not appeared yet is nowhere.
OutsideOK ==
    \A c \in outside :
        /\ \A p \in Paths : disk[p] # c
        /\ \A q \in Ids : vault[q] # c /\ seen[q] # c
        /\ \A r \in Restores : got[r] # c

\* Without a mishap no fragment was copied.
FragmentOK ==
    mishaps = {} =>
        /\ \A p \in Paths : disk[p] # Fragment
        /\ \A q \in Ids : vault[q] # Fragment
        /\ \A r \in Restores : got[r] # Fragment

LossInv ==
    CopiesOutnumber /\ SeenOK /\ PartialOK /\ CopiedOK /\ OutsideOK /\ FragmentOK

LEMMA InitLossInv == Init => LossInv
BY QuarantineAssumption
   DEF Init, LossInv, CopiesOutnumber, SeenOK, PartialOK, CopiedOK, OutsideOK, FragmentOK

\* No history is forgotten.
LEMMA HistoryStep ==
    ASSUME [Next]_vars
    PROVE  mishaps \subseteq mishaps' /\ deleted \subseteq deleted' /\ outside' \subseteq outside
<1> USE DEF hist
<1>1. ASSUME NEW q \in Ids, Watcher(q) \/ QuarantineFile(q)
      PROVE  mishaps \subseteq mishaps' /\ deleted' = deleted /\ outside' = outside
    BY <1>1 DEF Watcher, Watch, Revalidate, QuarantineFile, Prepare, Insert, InsertFails,
                Finalize, FinalizeFails, MarkFailed, RemoveOrphan
<1>2. ASSUME NEW r \in Restores, Restore(r)
      PROVE  mishaps' = mishaps /\ deleted' = deleted /\ outside' = outside
    BY <1>2 DEF Restore, ReadRow, Mark, Check, Create, OpenVault, Write, Unlink, Unmark,
                Commit, Purge
<1>3. ASSUME NEW d \in Deletes, Delete(d)
      PROVE  mishaps' = mishaps /\ deleted \subseteq deleted' /\ outside' = outside
    BY <1>3 DEF Delete, CheckDeletable, DeleteVaultFile, UpdateDeleted
<1>4. CASE UNCHANGED vars BY <1>4 DEF vars
<1> QED BY <1>1, <1>2, <1>3, <1>4 DEF Next, Take, Drop, Add, Expire, Crash

LEMMA StepSeenOK == VaultInv /\ LossInv /\ [Next]_vars => SeenOK'
<1> SUFFICES ASSUME VaultInv, LossInv, [Next]_vars, mishaps' = {} PROVE SeenOK'
    BY DEF SeenOK
<1>0. mishaps = {}
    BY HistoryStep
<1> USE <1>0, QuarantineAssumption
    DEF VaultInv, TypeOK, RowsOK, LossInv, SeenOK, AddPoints, stores, addVars
<1>1. ASSUME NEW q \in Ids, NEW p \in Paths, Add(q, p) \/ Watch(q, p) PROVE SeenOK'
    BY <1>1 DEF Add, Watch
<1>2. ASSUME NEW q \in Ids, Revalidate(q) PROVE SeenOK'
    BY <1>2 DEF Revalidate
<1>3. ASSUME NEW q \in Ids, Prepare(q) PROVE SeenOK'
  <2>1. CASE apc' = [apc EXCEPT ![q] = "done"] /\ UNCHANGED <<vault, seen>>
      BY <2>1
  <2>2. CASE apc' = [apc EXCEPT ![q] = "insert"]
    <3>1. /\ disk[origin[q]] # None
          /\ vault' = [vault EXCEPT ![q] = Bytes(disk[origin[q]])]
          /\ seen' = [seen EXCEPT ![q] = disk[origin[q]]]
          /\ mishaps' = IF disk[origin[q]] \in Restores
                        THEN mishaps \cup {"fragment"} ELSE mishaps
        BY <1>3, <2>2 DEF Prepare
    <3>2. disk[origin[q]] \in Contents
        BY <1>3, <3>1 DEF Prepare, Blobs, FragmentOK
    <3>3. Bytes(disk[origin[q]]) = disk[origin[q]]
        BY <3>2 DEF Bytes
    <3> QED BY <2>2, <3>1, <3>2, <3>3
  <2> QED BY <1>3, <2>1, <2>2 DEF Prepare
<1>4. ASSUME NEW q \in Ids, QuarantineFile(q), ~Prepare(q) PROVE SeenOK'
    BY <1>4 DEF QuarantineFile, Insert, InsertFails, Finalize, FinalizeFails, MarkFailed,
                RemoveOrphan
<1>5. CASE /\ UNCHANGED <<apc, seen>>
           /\ \A q \in Ids : vault'[q] = vault[q] \/ (row[q] # None /\ vault'[q] = None)
  <2> SUFFICES ASSUME NEW q \in Ids
               PROVE  /\ apc[q] \in {"insert", "finalize"} => seen[q] \in Contents
                      /\ apc[q] = "insert" => vault'[q] = seen[q]
                      /\ apc[q] = "finalize" => vault'[q] \in {None, seen[q]}
      BY <1>5 DEF SeenOK
  <2> QED BY <1>5
<1>6. ASSUME NEW r \in Restores, Restore(r) PROVE SeenOK'
  <2>1. CASE Purge(r) BY <1>5, <2>1 DEF Purge, RestoreTo, CallsOK
  <2>2. CASE ~Purge(r)
      BY <1>5, <1>6, <2>2 DEF Restore, ReadRow, Mark, Check, Create, OpenVault, Write, Unlink,
                         Unmark, Commit, RestoreTo
  <2> QED BY <2>1, <2>2
<1>7. ASSUME NEW d \in Deletes, Delete(d) PROVE SeenOK'
  <2>1. CASE DeleteVaultFile(d) BY <1>5, <2>1 DEF DeleteVaultFile, CallsOK
  <2>2. CASE ~DeleteVaultFile(d)
      BY <1>5, <1>7, <2>2 DEF Delete, CheckDeletable, UpdateDeleted
  <2> QED BY <2>1, <2>2
<1>8. CASE Crash BY <1>8 DEF Crash
<1>9. CASE UNCHANGED vars BY <1>5, <1>9 DEF vars
<1> QED BY <1>1, <1>2, <1>3, <1>4, <1>5, <1>6, <1>7, <1>8, <1>9
        DEF Next, Take, Drop, Watcher, Expire

\* What comes to the vault: nothing, or what the path holds, for a call that has
\* no row yet.
LEMMA VaultStep ==
    ASSUME VaultInv, LossInv, [Next]_vars, NEW q \in Ids
    PROVE  \/ vault'[q] = vault[q]
           \/ vault'[q] = None
           \/ /\ row[q] = None
              /\ disk[origin[q]] # None
              /\ origin[q] \in Paths
              /\ vault'[q] = Bytes(disk[origin[q]])
              /\ disk[origin[q]] \in Restores => mishaps' # {}
<1> USE QuarantineAssumption DEF VaultInv, TypeOK, RowsOK, AddPoints, stores
<1>1. ASSUME NEW k \in Ids, Prepare(k)
      PROVE  \/ vault' = vault
             \/ /\ row[k] = None
                /\ disk[origin[k]] # None
                /\ origin[k] \in Paths
                /\ vault' = [vault EXCEPT ![k] = Bytes(disk[origin[k]])]
                /\ disk[origin[k]] \in Restores => mishaps' # {}
    BY <1>1 DEF Prepare
<1>2. ASSUME NEW k \in Ids, QuarantineFile(k), ~Prepare(k)
      PROVE  vault' \in {vault, [vault EXCEPT ![k] = None]}
    BY <1>2 DEF QuarantineFile, Insert, InsertFails, Finalize, FinalizeFails, MarkFailed,
                RemoveOrphan
<1>3. ASSUME NEW k \in Ids, Watcher(k) PROVE vault' = vault
    BY <1>3 DEF Watcher, Watch, Revalidate
<1>4. ASSUME NEW r \in Restores, Restore(r)
      PROVE  vault' = vault \/ vault' = [vault EXCEPT ![rid[r]] = None]
    BY <1>4 DEF Restore, ReadRow, Mark, Check, Create, OpenVault, Write, Unlink, Unmark,
                Commit, Purge
<1>5. ASSUME NEW d \in Deletes, Delete(d)
      PROVE  vault' = vault \/ vault' = [vault EXCEPT ![did[d]] = None]
    BY <1>5 DEF Delete, CheckDeletable, DeleteVaultFile, UpdateDeleted
<1>6. CASE vault' = vault BY <1>6
<1>7. CASE \E k \in Ids \cup {None} : vault' = [vault EXCEPT ![k] = None] BY <1>7
<1>8. CASE \E k \in Ids : Prepare(k)
    BY <1>1, <1>8
<1>9. CASE UNCHANGED vars BY <1>9 DEF vars
<1> QED BY <1>2, <1>3, <1>4, <1>5, <1>6, <1>7, <1>8, <1>9
        DEF Next, Take, Drop, Add, Expire, Crash

\* What comes to a path: nothing, a new file, a file under restoration, what a
\* restore has decrypted.
LEMMA DiskStep ==
    ASSUME VaultInv, LossInv, [Next]_vars, NEW p \in Paths
    PROVE  \/ disk'[p] = disk[p]
           \/ disk'[p] = None
           \/ disk[p] = None /\ disk'[p] \in outside \ outside'
           \/ disk[p] = None /\ disk'[p] \in Restores
           \/ \E r \in Restores : disk[p] = r /\ rpc[r] = "write" /\ disk'[p] = got[r]
<1> USE QuarantineAssumption DEF VaultInv, TypeOK, stores
<1>1. ASSUME NEW k \in Paths, NEW c \in Contents, Drop(k, c)
      PROVE  disk[k] = None /\ c \in outside \ outside' /\ disk' = [disk EXCEPT ![k] = c]
    BY <1>1 DEF Drop
<1>2. ASSUME NEW k \in Ids, Watcher(k) \/ QuarantineFile(k)
      PROVE  disk' = disk \/ \E i \in Paths \cup {None} : disk' = [disk EXCEPT ![i] = None]
    BY <1>2 DEF Watcher, Watch, Revalidate, QuarantineFile, Prepare, Insert, InsertFails,
                Finalize, FinalizeFails, MarkFailed, RemoveOrphan
<1>3. ASSUME NEW r \in Restores, Restore(r), ~Create(r), ~Write(r)
      PROVE  disk' = disk \/ \E i \in Paths \cup {None} : disk' = [disk EXCEPT ![i] = None]
    BY <1>3 DEF Restore, ReadRow, Mark, Check, OpenVault, Unlink, Unmark, Commit, Purge
<1>4. ASSUME NEW r \in Restores, Create(r)
      PROVE  disk' = disk \/ (disk[dest[r]] = None /\ disk' = [disk EXCEPT ![dest[r]] = r])
    BY <1>4 DEF Create
<1>5. ASSUME NEW r \in Restores, Write(r)
      PROVE  \/ disk' = disk
             \/ /\ rpc[r] = "write"
                /\ disk' = [k \in Paths |-> IF disk[k] = r THEN got[r] ELSE disk[k]]
    BY <1>5 DEF Write
<1>6. ASSUME NEW d \in Deletes, Delete(d) PROVE disk' = disk
    BY <1>6 DEF Delete, CheckDeletable, DeleteVaultFile, UpdateDeleted
<1>7. CASE disk' = disk \/ \E i \in Paths \cup {None} : disk' = [disk EXCEPT ![i] = None]
    BY <1>7
<1>8. CASE \E k \in Paths, c \in Contents : Drop(k, c)
    BY <1>1, <1>8
<1>9. CASE \E r \in Restores : Create(r) \/ Write(r)
    BY <1>4, <1>5, <1>9
<1>10. ASSUME NEW k \in Paths, Take(k) PROVE disk' = [disk EXCEPT ![k] = None]
    BY <1>10 DEF Take
<1>11. CASE UNCHANGED vars BY <1>11 DEF vars
<1> QED BY <1>2, <1>3, <1>6, <1>7, <1>8, <1>9, <1>10, <1>11 DEF Next, Add, Expire, Crash

\* What a restore call has decrypted is what the vault holds.
LEMMA GotStep ==
    ASSUME VaultInv, [Next]_vars, NEW r \in Restores
    PROVE  \/ got'[r] = got[r]
           \/ /\ rpc[r] = "decrypt"
              /\ vault[rid[r]] # None
              /\ got'[r] = vault[rid[r]]
<1> USE QuarantineAssumption DEF VaultInv, TypeOK, restoreVars
<1>1. ASSUME NEW k \in Ids, Watcher(k) \/ QuarantineFile(k) PROVE got' = got
    BY <1>1 DEF Watcher, Watch, Revalidate, QuarantineFile, Prepare, Insert, InsertFails,
                Finalize, FinalizeFails, MarkFailed, RemoveOrphan
<1>2. ASSUME NEW k \in Restores, Restore(k), ~OpenVault(k) PROVE got' = got
    BY <1>2 DEF Restore, ReadRow, Mark, Check, Create, Write, Unlink, Unmark, Commit, Purge
<1>3. ASSUME NEW k \in Restores, OpenVault(k)
      PROVE  \/ got' = got
             \/ /\ rpc[k] = "decrypt"
                /\ vault[rid[k]] # None
                /\ got' = [got EXCEPT ![k] = vault[rid[k]]]
    BY <1>3 DEF OpenVault
<1>4. ASSUME NEW d \in Deletes, Delete(d) PROVE got' = got
    BY <1>4 DEF Delete, CheckDeletable, DeleteVaultFile, UpdateDeleted
<1>5. CASE UNCHANGED vars BY <1>5 DEF vars
<1> QED BY <1>1, <1>2, <1>3, <1>4, <1>5 DEF Next, Take, Drop, Add, Expire, Crash

LEMMA SeenStep ==
    ASSUME VaultInv, [Next]_vars, NEW q \in Ids
    PROVE  seen'[q] = seen[q] \/ \E p \in Paths : disk[p] # None /\ seen'[q] = disk[p]
<1> USE QuarantineAssumption DEF VaultInv, TypeOK, RowsOK, AddPoints, addVars
<1>1. ASSUME NEW k \in Ids, NEW p \in Paths, Watch(k, p)
      PROVE  disk[p] # None /\ seen' = [seen EXCEPT ![k] = disk[p]]
    BY <1>1 DEF Watch
<1>2. ASSUME NEW k \in Ids, Prepare(k)
      PROVE  \/ seen' = seen
             \/ \E p \in Paths : disk[p] # None /\ seen' = [seen EXCEPT ![k] = disk[p]]
    BY <1>2 DEF Prepare
<1>3. ASSUME NEW k \in Ids, QuarantineFile(k), ~Prepare(k) PROVE seen' = seen
    BY <1>3 DEF QuarantineFile, Insert, InsertFails, Finalize, FinalizeFails, MarkFailed,
                RemoveOrphan
<1>4. ASSUME NEW r \in Restores, Restore(r) PROVE seen' = seen
    BY <1>4 DEF Restore, ReadRow, Mark, Check, Create, OpenVault, Write, Unlink, Unmark,
                Commit, Purge, RestoreTo
<1>5. ASSUME NEW d \in Deletes, Delete(d) PROVE seen' = seen
    BY <1>5 DEF Delete, CheckDeletable, DeleteVaultFile, UpdateDeleted
<1>6. CASE seen' = seen BY <1>6
<1>7. CASE \E k \in Ids, p \in Paths : Watch(k, p) BY <1>1, <1>7
<1>8. CASE \E k \in Ids : Prepare(k) BY <1>2, <1>8
<1>9. CASE UNCHANGED vars BY <1>9 DEF vars
<1> QED BY <1>3, <1>4, <1>5, <1>6, <1>7, <1>8, <1>9
        DEF Next, Watcher, Revalidate, Take, Drop, Add, Expire, Crash

LEMMA StepOutsideOK == VaultInv /\ LossInv /\ [Next]_vars => OutsideOK'
<1> SUFFICES ASSUME VaultInv, LossInv, [Next]_vars, NEW c \in outside'
             PROVE  /\ \A p \in Paths : disk'[p] # c
                    /\ \A q \in Ids : vault'[q] # c /\ seen'[q] # c
                    /\ \A r \in Restores : got'[r] # c
    BY DEF OutsideOK
<1>1. /\ c \in outside
      /\ c \in Contents
    BY HistoryStep DEF VaultInv, TypeOK
<1>2. /\ c \notin Restores
      /\ c # None
      /\ c # Fragment
    BY <1>1, QuarantineAssumption
<1>3. ASSUME NEW p \in Paths PROVE disk'[p] # c
    BY <1>1, <1>2, DiskStep DEF LossInv, OutsideOK
<1>4. ASSUME NEW q \in Ids PROVE vault'[q] # c
    BY <1>1, <1>2, VaultStep DEF LossInv, OutsideOK, Bytes
<1>5. ASSUME NEW q \in Ids PROVE seen'[q] # c
    BY <1>1, <1>2, SeenStep DEF LossInv, VaultInv, OutsideOK
<1>6. ASSUME NEW r \in Restores PROVE got'[r] # c
  <2>1. rpc[r] = "decrypt" => rid[r] \in Ids
      BY DEF VaultInv, CallsOK
  <2> QED BY <1>1, <1>2, <2>1, GotStep DEF LossInv, OutsideOK
<1> QED BY <1>3, <1>4, <1>5, <1>6

LEMMA StepFragmentOK == VaultInv /\ LossInv /\ [Next]_vars => FragmentOK'
<1> SUFFICES ASSUME VaultInv, LossInv, [Next]_vars, mishaps' = {}
             PROVE  /\ \A p \in Paths : disk'[p] # Fragment
                    /\ \A q \in Ids : vault'[q] # Fragment
                    /\ \A r \in Restores : got'[r] # Fragment
    BY DEF FragmentOK
<1>1. /\ \A p \in Paths : disk[p] # Fragment
      /\ \A q \in Ids : vault[q] # Fragment
      /\ \A r \in Restores : got[r] # Fragment
    BY HistoryStep DEF LossInv, FragmentOK
<1>2. Fragment \notin outside \cup Restores \cup {None}
    BY QuarantineAssumption DEF VaultInv, TypeOK
<1>3. ASSUME NEW p \in Paths PROVE disk'[p] # Fragment
    BY <1>1, <1>2, DiskStep
<1>4. ASSUME NEW q \in Ids PROVE vault'[q] # Fragment
    BY <1>1, <1>2, VaultStep DEF Bytes
<1>5. ASSUME NEW r \in Restores PROVE got'[r] # Fragment
  <2>1. rpc[r] = "decrypt" => rid[r] \in Ids
      BY DEF VaultInv, CallsOK
  <2> QED BY <1>1, <2>1, GotStep
<1> QED BY <1>3, <1>4, <1>5

LEMMA StepCopiedOK == VaultInv /\ LossInv /\ [Next]_vars => CopiedOK'
<1> SUFFICES ASSUME VaultInv, LossInv, [Next]_vars PROVE CopiedOK'
    OBVIOUS
<1>0. \A q \in Ids : row[q] # None => vault'[q] \in {vault[q], None}
    BY VaultStep
<1> USE DEF VaultInv, CallsOK, LossInv, CopiedOK
<1>1. ASSUME NEW r \in Restores, rpc'[r] = "write"
      PROVE  vault'[rid'[r]] \in {None, got'[r]}
  <2>1. CASE rpc[r] = "write" /\ rid'[r] = rid[r] /\ got'[r] = got[r]
      BY <1>0, <2>1
  <2>2. CASE OpenVault(r)
      BY <1>1, <2>2, QuarantineAssumption DEF OpenVault, RestoreTo, TypeOK, stores
  <2>3. rpc[r] = "write" => got'[r] = got[r]
      BY GotStep
  <2>4. (rpc[r] = "write" /\ rid'[r] = rid[r]) \/ OpenVault(r)
    <3> USE DEF TypeOK, RestorePoints, restoreVars
    <3>1. ASSUME NEW k \in Restores, Restore(k) PROVE (rpc[r] = "write" /\ rid'[r] = rid[r]) \/ OpenVault(r)
        BY <1>1, <3>1 DEF Restore, ReadRow, Mark, Check, Create, OpenVault, Write, Unlink,
                          Unmark, Commit, Purge, RestoreTo
    <3>2. CASE UNCHANGED <<rpc, rid>> BY <1>1, <3>2
    <3>3. ASSUME NEW q \in Ids, Watcher(q) \/ QuarantineFile(q) PROVE UNCHANGED <<rpc, rid>>
        BY <3>3 DEF Watcher, Watch, Revalidate, QuarantineFile, Prepare, Insert,
                    InsertFails, Finalize, FinalizeFails, MarkFailed, RemoveOrphan
    <3>4. ASSUME NEW d \in Deletes, Delete(d) PROVE UNCHANGED <<rpc, rid>>
        BY <3>4 DEF Delete, CheckDeletable, DeleteVaultFile, UpdateDeleted
    <3>5. CASE UNCHANGED vars BY <3>2, <3>5 DEF vars
    <3> QED BY <1>1, <3>1, <3>2, <3>3, <3>4, <3>5 DEF Next, Take, Drop, Add, Expire, Crash
  <2> QED BY <2>1, <2>2, <2>3, <2>4
<1>2. ASSUME NEW d \in Deletes, dpc'[d] = "update" PROVE vault'[did'[d]] = None
  <2>1. CASE dpc[d] = "update" /\ did'[d] = did[d]
      BY <1>0, <2>1
  <2>2. CASE DeleteVaultFile(d)
      BY <1>2, <2>2 DEF DeleteVaultFile, TypeOK
  <2>3. (dpc[d] = "update" /\ did'[d] = did[d]) \/ DeleteVaultFile(d)
    <3> USE DEF TypeOK, DeletePoints, deleteVars
    <3>1. ASSUME NEW k \in Deletes, Delete(k)
          PROVE  (dpc[d] = "update" /\ did'[d] = did[d]) \/ DeleteVaultFile(d)
        BY <1>2, <3>1 DEF Delete, CheckDeletable, DeleteVaultFile, UpdateDeleted
    <3>2. CASE UNCHANGED <<dpc, did>> BY <1>2, <3>2
    <3>3. ASSUME NEW q \in Ids, Watcher(q) \/ QuarantineFile(q) PROVE UNCHANGED <<dpc, did>>
        BY <3>3 DEF Watcher, Watch, Revalidate, QuarantineFile, Prepare, Insert,
                    InsertFails, Finalize, FinalizeFails, MarkFailed, RemoveOrphan
    <3>4. ASSUME NEW r \in Restores, Restore(r) PROVE UNCHANGED <<dpc, did>>
        BY <3>4 DEF Restore, ReadRow, Mark, Check, Create, OpenVault, Write, Unlink,
                    Unmark, Commit, Purge, RestoreTo
    <3>5. CASE UNCHANGED vars BY <3>2, <3>5 DEF vars
    <3> QED BY <1>2, <3>1, <3>2, <3>3, <3>4, <3>5 DEF Next, Take, Drop, Add, Expire, Crash
  <2> QED BY <2>1, <2>2, <2>3
<1> QED BY <1>1, <1>2

LEMMA StepPartialOK == VaultInv /\ LossInv /\ [Next]_vars => PartialOK'
<1> SUFFICES ASSUME VaultInv, LossInv, [Next]_vars, mishaps' = {},
                    NEW r \in Restores, rpc'[r] \in {"decrypt", "write", "unlink"}
             PROVE  disk'[dest'[r]] = r
    BY DEF PartialOK
<1>0. \A k \in Restores : rpc[k] \in {"decrypt", "write", "unlink"} =>
         disk[dest[k]] = k /\ dest[k] \in Paths
    BY HistoryStep DEF LossInv, PartialOK, VaultInv, CallsOK
<1> USE QuarantineAssumption DEF VaultInv, TypeOK, RestorePoints, stores, restoreVars
<1>1. CASE /\ UNCHANGED <<rpc, dest>>
           /\ \A p \in Paths : disk[p] \in Restores => disk'[p] = disk[p]
    BY <1>0, <1>1
<1>2. ASSUME NEW q \in Ids, Watcher(q) \/ QuarantineFile(q) PROVE disk'[dest'[r]] = r
  <2>1. CASE Finalize(q)
    <3>1. disk[origin[q]] \in Contents
        BY <2>1, HistoryStep DEF Finalize, LossInv, SeenOK
    <3> QED BY <1>1, <2>1, <3>1 DEF Finalize
  <2>2. CASE ~Finalize(q)
      BY <1>1, <1>2, <2>2 DEF Watcher, Watch, Revalidate, QuarantineFile, Prepare, Insert,
                         InsertFails, FinalizeFails, MarkFailed, RemoveOrphan
  <2> QED BY <2>1, <2>2
<1>3. ASSUME NEW k \in Restores, Restore(k) PROVE disk'[dest'[r]] = r
  <2> USE DEF RestoreTo
  <2>1. CASE Create(k)
      BY <1>0, <2>1 DEF Create, CallsOK
  <2>2. CASE Write(k)
      BY <1>0, <2>2 DEF Write
  <2>3. CASE Unlink(k)
      BY <1>0, <2>3 DEF Unlink
  <2>4. CASE OpenVault(k)
      BY <1>0, <2>4 DEF OpenVault
  <2>5. CASE ~(Create(k) \/ Write(k) \/ Unlink(k) \/ OpenVault(k))
      BY <1>0, <1>3, <2>5 DEF Restore, ReadRow, Mark, Check, Unmark, Commit, Purge
  <2> QED BY <2>1, <2>2, <2>3, <2>4, <2>5
<1>4. ASSUME NEW d \in Deletes, Delete(d) PROVE disk'[dest'[r]] = r
    BY <1>1, <1>4 DEF Delete, CheckDeletable, DeleteVaultFile, UpdateDeleted
<1>5. ASSUME NEW p \in Paths, Take(p) PROVE disk'[dest'[r]] = r
    BY <1>1, <1>5 DEF Take
<1>6. ASSUME NEW p \in Paths, NEW c \in Contents, Drop(p, c) PROVE disk'[dest'[r]] = r
    BY <1>1, <1>6 DEF Drop
<1>7. CASE Crash BY <1>7 DEF Crash
<1>8. CASE UNCHANGED vars BY <1>1, <1>8 DEF vars
<1> QED BY <1>1, <1>2, <1>3, <1>4, <1>5, <1>6, <1>7, <1>8 DEF Next, Add, Expire

-----------------------------------------------------------------------------
(* Counting copies and removals.                                           *)

LEMMA Sizes ==
    ASSUME NEW c
    PROVE  /\ IsFiniteSet(Copies(c)) /\ IsFiniteSet(Copies(c)')
           /\ IsFiniteSet(Safe(c)) /\ IsFiniteSet(Safe(c)')
           /\ IsFiniteSet(Removals(c)) /\ IsFiniteSet(Removals(c)')
<1>1. /\ Copies(c) \subseteq Paths /\ Copies(c)' \subseteq Paths
      /\ Safe(c) \subseteq Ids /\ Safe(c)' \subseteq Ids
      /\ Removals(c) \subseteq Ids /\ Removals(c)' \subseteq Ids
    BY DEF Copies, Safe, Removals
<1> QED BY <1>1, QuarantineAssumption, FS_Subset

\* A set that loses at most x is at most one smaller; one that gains x is larger.
LEMMA Grows ==
    ASSUME NEW S, NEW T, IsFiniteSet(S), IsFiniteSet(T)
    PROVE  /\ Cardinality(S) \in Nat /\ Cardinality(T) \in Nat
           /\ S \subseteq T => Cardinality(S) <= Cardinality(T)
           /\ \A x : S \ {x} \subseteq T => Cardinality(S) <= Cardinality(T) + 1
           /\ \A x : x \notin S /\ S \cup {x} \subseteq T =>
                 Cardinality(S) + 1 <= Cardinality(T)
<1>1. Cardinality(S) \in Nat /\ Cardinality(T) \in Nat
    BY FS_CardinalityType
<1>2. S \subseteq T => Cardinality(S) <= Cardinality(T)
    BY FS_Subset
<1>3. ASSUME NEW x, S \ {x} \subseteq T PROVE Cardinality(S) <= Cardinality(T) + 1
  <2>1. IsFiniteSet(S \ {x}) /\ Cardinality(S \ {x}) \in Nat
      BY FS_RemoveElement, FS_CardinalityType
  <2>2. Cardinality(S) <= Cardinality(S \ {x}) + 1
    <3>1. CASE x \in S BY <1>1, <2>1, <3>1, FS_RemoveElement
    <3>2. CASE x \notin S
      <4>1. S \ {x} = S BY <3>2
      <4> QED BY <1>1, <4>1
    <3> QED BY <3>1, <3>2
  <2>3. Cardinality(S \ {x}) <= Cardinality(T)
      BY <1>3, FS_Subset
  <2> QED BY <1>1, <2>1, <2>2, <2>3
<1>4. ASSUME NEW x, x \notin S, S \cup {x} \subseteq T
      PROVE  Cardinality(S) + 1 <= Cardinality(T)
  <2>1. Cardinality(S \cup {x}) = Cardinality(S) + 1
      BY <1>4, FS_AddElement
  <2> QED BY <1>4, <2>1, FS_Subset
<1> QED BY <1>1, <1>2, <1>3, <1>4

\* The balance holds through a step that takes no copy away and adds no removal ...
LEMMA KeptMonotone ==
    ASSUME NEW c, Kept(c), Copies(c) \subseteq Copies(c)', Safe(c) \subseteq Safe(c)',
           Removals(c)' \subseteq Removals(c)
    PROVE  Kept(c)'
<1>1. /\ Cardinality(Copies(c)) \in Nat /\ Cardinality(Copies(c)') \in Nat
      /\ Cardinality(Copies(c)) <= Cardinality(Copies(c)')
    BY Sizes, Grows
<1>2. /\ Cardinality(Safe(c)) \in Nat /\ Cardinality(Safe(c)') \in Nat
      /\ Cardinality(Safe(c)) <= Cardinality(Safe(c)')
    BY Sizes, Grows
<1>3. /\ Cardinality(Removals(c)) \in Nat /\ Cardinality(Removals(c)') \in Nat
      /\ Cardinality(Removals(c)') <= Cardinality(Removals(c))
    BY Sizes, Grows
<1> QED BY <1>1, <1>2, <1>3 DEF Kept

\* ... one that adds a vault copy and a removal ...
LEMMA KeptInsert ==
    ASSUME NEW c, NEW q, Kept(c), Copies(c) \subseteq Copies(c)',
           q \notin Safe(c), Safe(c) \cup {q} \subseteq Safe(c)',
           Removals(c)' \ {q} \subseteq Removals(c)
    PROVE  Kept(c)'
<1>1. /\ Cardinality(Copies(c)) \in Nat /\ Cardinality(Copies(c)') \in Nat
      /\ Cardinality(Copies(c)) <= Cardinality(Copies(c)')
    BY Sizes, Grows
<1>2. /\ Cardinality(Safe(c)) \in Nat /\ Cardinality(Safe(c)') \in Nat
      /\ Cardinality(Safe(c)) + 1 <= Cardinality(Safe(c)')
    BY Sizes, Grows
<1>3. /\ Cardinality(Removals(c)) \in Nat /\ Cardinality(Removals(c)') \in Nat
      /\ Cardinality(Removals(c)') <= Cardinality(Removals(c)) + 1
    BY Sizes, Grows
<1> QED BY <1>1, <1>2, <1>3 DEF Kept

\* ... one that ends a removal and takes at most one copy away, ...
LEMMA KeptRemoval ==
    ASSUME NEW c, NEW p, NEW q, Kept(c),
           \/ Copies(c) \ {p} \subseteq Copies(c)' /\ Safe(c) \subseteq Safe(c)'
           \/ Copies(c) \subseteq Copies(c)' /\ Safe(c) \ {p} \subseteq Safe(c)',
           q \notin Removals(c)', Removals(c)' \cup {q} \subseteq Removals(c)
    PROVE  Kept(c)'
<1>1. /\ Cardinality(Copies(c)) \in Nat /\ Cardinality(Copies(c)') \in Nat
      /\ Cardinality(Safe(c)) \in Nat /\ Cardinality(Safe(c)') \in Nat
    BY Sizes, Grows
<1>2. Cardinality(Copies(c)) + Cardinality(Safe(c))
        <= Cardinality(Copies(c)') + Cardinality(Safe(c)') + 1
  <2>1. CASE Copies(c) \ {p} \subseteq Copies(c)' /\ Safe(c) \subseteq Safe(c)'
    <3>1. Cardinality(Copies(c)) <= Cardinality(Copies(c)') + 1
        BY <2>1, Sizes, Grows
    <3>2. Cardinality(Safe(c)) <= Cardinality(Safe(c)')
        BY <2>1, Sizes, Grows
    <3> QED BY <1>1, <3>1, <3>2
  <2>2. CASE Copies(c) \subseteq Copies(c)' /\ Safe(c) \ {p} \subseteq Safe(c)'
    <3>1. Cardinality(Copies(c)) <= Cardinality(Copies(c)')
        BY <2>2, Sizes, Grows
    <3>2. Cardinality(Safe(c)) <= Cardinality(Safe(c)') + 1
        BY <2>2, Sizes, Grows
    <3> QED BY <1>1, <3>1, <3>2
  <2> QED BY <2>1, <2>2
<1>3. /\ Cardinality(Removals(c)) \in Nat /\ Cardinality(Removals(c)') \in Nat
      /\ Cardinality(Removals(c)') + 1 <= Cardinality(Removals(c))
    BY Sizes, Grows
<1> QED BY <1>1, <1>2, <1>3 DEF Kept

\* ... and one that adds a copy on disk for a vault copy.
LEMMA KeptWrite ==
    ASSUME NEW c, NEW p, NEW q, Kept(c),
           p \notin Copies(c), Copies(c) \cup {p} \subseteq Copies(c)',
           Safe(c) \ {q} \subseteq Safe(c)', Removals(c)' \subseteq Removals(c)
    PROVE  Kept(c)'
<1>1. /\ Cardinality(Copies(c)) \in Nat /\ Cardinality(Copies(c)') \in Nat
      /\ Cardinality(Copies(c)) + 1 <= Cardinality(Copies(c)')
    BY Sizes, Grows
<1>2. /\ Cardinality(Safe(c)) \in Nat /\ Cardinality(Safe(c)') \in Nat
      /\ Cardinality(Safe(c)) <= Cardinality(Safe(c)') + 1
    BY Sizes, Grows
<1>3. /\ Cardinality(Removals(c)) \in Nat /\ Cardinality(Removals(c)') \in Nat
      /\ Cardinality(Removals(c)') <= Cardinality(Removals(c))
    BY Sizes, Grows
<1> QED BY <1>1, <1>2, <1>3 DEF Kept

\* A file that was there before is still there, in one step of each kind.
LEMMA StepKept ==
    ASSUME VaultInv, LossInv, [Next]_vars, mishaps' = {},
           NEW c \in Contents, c \notin outside, c \notin deleted', Kept(c)
    PROVE  Kept(c)'
<1> USE QuarantineAssumption
    DEF VaultInv, TypeOK, LossInv, RowsOK, AddPoints, Statuses, stores, addVars
<1>0. mishaps = {} /\ c # None /\ c \notin Restores
    BY HistoryStep
<1>a. CASE UNCHANGED <<disk, vault, row, apc, seen>>
           /\ (UNCHANGED <<rpc, rid>>
                \/ \A r \in Restores : rpc'[r] = "commit" => rpc[r] = "commit" /\ rid'[r] = rid[r])
  <2>1. Copies(c) \subseteq Copies(c)' /\ Safe(c) \subseteq Safe(c)'
        /\ Removals(c)' \subseteq Removals(c)
      BY <1>a DEF Copies, Safe, Removals
  <2> QED BY <2>1, KeptMonotone
<1>1. ASSUME NEW p \in Paths, NEW k \in Contents, Drop(p, k) PROVE Kept(c)'
  <2>1. Copies(c) \subseteq Copies(c)' /\ Safe(c) \subseteq Safe(c)'
        /\ Removals(c)' \subseteq Removals(c)
      BY <1>0, <1>1 DEF Drop, Copies, Safe, Removals, restoreVars
  <2> QED BY <2>1, KeptMonotone
<1>2. ASSUME NEW p \in Paths, Take(p) PROVE Kept(c)'
  <2>1. Copies(c) \subseteq Copies(c)' /\ Safe(c) \subseteq Safe(c)'
        /\ Removals(c)' \subseteq Removals(c)
      BY <1>0, <1>2 DEF Take, Copies, Safe, Removals, restoreVars
  <2> QED BY <2>1, KeptMonotone
<1>3. ASSUME NEW q \in Ids, NEW p \in Paths, Add(q, p) \/ Watch(q, p) PROVE Kept(c)'
  <2>1. Copies(c) \subseteq Copies(c)' /\ Safe(c) \subseteq Safe(c)'
        /\ Removals(c)' \subseteq Removals(c)
      BY <1>3 DEF Add, Watch, Copies, Safe, Removals, restoreVars
  <2> QED BY <2>1, KeptMonotone
<1>4. ASSUME NEW q \in Ids, QuarantineFile(q) \/ Revalidate(q) PROVE Kept(c)'
  <2>1. CASE Insert(q)
    <3>1. /\ row[q] = None /\ apc[q] = "insert" /\ vault[q] = seen[q]
          /\ \A r \in Restores : rpc[r] = "commit" => rid[r] # q
        BY <1>0, <2>1 DEF Insert, SeenOK, CallsOK
    <3>2. Copies(c) \subseteq Copies(c)'
        BY <2>1 DEF Insert, Copies
    <3>3. CASE seen[q] = c
      <4>1. q \notin Safe(c) /\ Safe(c) \cup {q} \subseteq Safe(c)'
          BY <2>1, <3>1, <3>3 DEF Insert, Safe, restoreVars
      <4>2. Removals(c)' \ {q} \subseteq Removals(c)
          BY <2>1 DEF Insert, Removals
      <4> QED BY <3>2, <4>1, <4>2, KeptInsert
    <3>4. CASE seen[q] # c
      <4>1. Safe(c) \subseteq Safe(c)' /\ Removals(c)' \subseteq Removals(c)
          BY <2>1, <3>1, <3>4 DEF Insert, Safe, Removals, restoreVars
      <4> QED BY <3>2, <4>1, KeptMonotone
    <3> QED BY <3>3, <3>4
  <2>2. CASE Finalize(q)
    <3>1. disk[origin[q]] = seen[q] /\ origin[q] \in Paths /\ apc[q] = "finalize"
        BY <2>2 DEF Finalize
    <3>2. Safe(c) \subseteq Safe(c)'
        BY <2>2 DEF Finalize, Safe, restoreVars
    <3>3. CASE seen[q] = c
      <4>1. Copies(c) \ {origin[q]} \subseteq Copies(c)'
          BY <2>2 DEF Finalize, Copies
      <4>2. q \notin Removals(c)' /\ Removals(c)' \cup {q} \subseteq Removals(c)
          BY <2>2, <3>3 DEF Finalize, Removals
      <4> QED BY <3>2, <4>1, <4>2, KeptRemoval
    <3>4. CASE seen[q] # c
      <4>1. Copies(c) \subseteq Copies(c)' /\ Removals(c)' \subseteq Removals(c)
          BY <2>2, <3>1, <3>4 DEF Finalize, Copies, Removals
      <4> QED BY <3>2, <4>1, KeptMonotone
    <3> QED BY <3>3, <3>4
  <2>3. CASE FinalizeFails(q)
    <3>1. vault[q] \in {None, seen[q]} /\ apc[q] = "finalize"
        BY <1>0, <2>3 DEF FinalizeFails, SeenOK
    <3>2. Copies(c) \subseteq Copies(c)'
        BY <2>3 DEF FinalizeFails, Copies
    <3>3. CASE seen[q] = c
      <4>1. Safe(c) \ {q} \subseteq Safe(c)'
          BY <2>3 DEF FinalizeFails, Safe, restoreVars
      <4>2. q \notin Removals(c)' /\ Removals(c)' \cup {q} \subseteq Removals(c)
          BY <2>3, <3>3 DEF FinalizeFails, Removals
      <4> QED BY <3>2, <4>1, <4>2, KeptRemoval
    <3>4. CASE seen[q] # c
      <4>1. Safe(c) \subseteq Safe(c)' /\ Removals(c)' \subseteq Removals(c)
          BY <1>0, <2>3, <3>1, <3>4 DEF FinalizeFails, Safe, Removals, restoreVars
      <4> QED BY <3>2, <4>1, KeptMonotone
    <3> QED BY <3>3, <3>4
  <2>4. CASE Prepare(q)
    <3>1. row[q] = None /\ apc[q] = "prepare"
          /\ apc' \in {[apc EXCEPT ![q] = "insert"], [apc EXCEPT ![q] = "done"]}
          /\ \A k \in Ids \ {q} : vault'[k] = vault[k] /\ seen'[k] = seen[k]
        BY <2>4 DEF Prepare
    <3>2. Copies(c) \subseteq Copies(c)' /\ Safe(c) \subseteq Safe(c)'
        BY <2>4, <3>1 DEF Prepare, Copies, Safe, restoreVars
    <3>3. Removals(c)' \subseteq Removals(c)
        BY <3>1 DEF Removals
    <3> QED BY <3>2, <3>3, KeptMonotone
  <2>5. CASE InsertFails(q) \/ MarkFailed(q) \/ RemoveOrphan(q) \/ Revalidate(q)
    <3>1. Copies(c) \subseteq Copies(c)' /\ Removals(c)' \subseteq Removals(c)
        BY <2>5 DEF InsertFails, MarkFailed, RemoveOrphan, Revalidate, Copies, Removals
    <3>2. CASE InsertFails(q)
        BY <3>1, <3>2, KeptMonotone DEF InsertFails, Safe, restoreVars
    <3>3. CASE MarkFailed(q)
        BY <3>1, <3>3, KeptMonotone DEF MarkFailed, Safe, restoreVars
    <3>4. CASE RemoveOrphan(q)
        BY <3>1, <3>4, KeptMonotone DEF RemoveOrphan, Safe, restoreVars
    <3>5. CASE Revalidate(q)
        BY <3>1, <3>5, KeptMonotone DEF Revalidate, Safe, restoreVars
    <3> QED BY <2>5, <3>2, <3>3, <3>4, <3>5
  <2> QED BY <1>4, <2>1, <2>2, <2>3, <2>4, <2>5 DEF QuarantineFile
<1>5. ASSUME NEW r \in Restores, Restore(r) PROVE Kept(c)'
  <2> USE DEF RestoreTo, RestorePoints, restoreVars
  <2>1. CASE Write(r)
    <3>1. CASE rpc' = [rpc EXCEPT ![r] = "unlink"] /\ UNCHANGED disk
        BY <1>a, <2>1, <3>1 DEF Write
    <3>2. CASE /\ disk' = [p \in Paths |-> IF disk[p] = r THEN got[r] ELSE disk[p]]
               /\ rpc' = [rpc EXCEPT ![r] = "commit"]
      <4>1. /\ rpc[r] = "write" /\ disk[dest[r]] = r /\ dest[r] \in Paths
            /\ vault[rid[r]] \in {None, got[r]}
          BY <1>0, <2>1 DEF Write, PartialOK, CopiedOK, CallsOK
      <4>2. /\ Copies(c) \subseteq Copies(c)' /\ Safe(c) \ {rid[r]} \subseteq Safe(c)'
            /\ Removals(c)' \subseteq Removals(c)
          BY <1>0, <2>1, <3>2 DEF Write, Copies, Safe, Removals
      <4>3. CASE got[r] = c
        <5>1. dest[r] \notin Copies(c) /\ Copies(c) \cup {dest[r]} \subseteq Copies(c)'
            BY <1>0, <3>2, <4>1, <4>2, <4>3 DEF Copies
        <5> QED BY <4>2, <5>1, KeptWrite
      <4>4. CASE got[r] # c
        <5>1. rid[r] \notin Safe(c)
            BY <1>0, <4>1, <4>4 DEF Safe
        <5> QED BY <4>2, <5>1, KeptMonotone
      <4> QED BY <4>3, <4>4
    <3> QED BY <2>1, <3>1, <3>2 DEF Write
  <2>2. CASE Create(r) \/ Unlink(r)
    <3>1. Copies(c) \subseteq Copies(c)'
      <4>1. CASE Create(r) BY <1>0, <4>1 DEF Create, Copies
      <4>2. CASE Unlink(r) BY <1>0, <4>2 DEF Unlink, Copies, PartialOK
      <4> QED BY <2>2, <4>1, <4>2
    <3>2. Safe(c) \subseteq Safe(c)' /\ Removals(c)' \subseteq Removals(c)
        BY <2>2 DEF Create, Unlink, Safe, Removals
    <3> QED BY <3>1, <3>2, KeptMonotone
  <2>3. CASE Commit(r)
    <3>1. Copies(c) \subseteq Copies(c)' /\ Removals(c)' \subseteq Removals(c)
        BY <2>3 DEF Commit, Copies, Removals
    <3>2. rpc[r] = "commit" /\ rid[r] \notin Safe(c)
        BY <2>3 DEF Commit, Safe
    <3>3. Safe(c) \subseteq Safe(c)'
        BY <2>3, <3>2 DEF Commit, Safe
    <3> QED BY <3>1, <3>3, KeptMonotone
  <2>4. CASE Purge(r)
    <3>1. Copies(c) \subseteq Copies(c)' /\ Removals(c)' \subseteq Removals(c)
        BY <2>4 DEF Purge, Copies, Removals
    <3>2. rid[r] \notin Safe(c)
        BY <2>4 DEF Purge, Safe, PurgesOK
    <3>3. Safe(c) \subseteq Safe(c)'
        BY <2>4, <3>2 DEF Purge, Safe
    <3> QED BY <3>1, <3>3, KeptMonotone
  <2>5. CASE ~(Write(r) \/ Create(r) \/ Unlink(r) \/ Commit(r) \/ Purge(r))
      BY <1>a, <1>5, <2>5 DEF Restore, ReadRow, Mark, Check, OpenVault, Unmark
  <2> QED BY <2>1, <2>2, <2>3, <2>4, <2>5
<1>6. ASSUME NEW d \in Deletes, Delete(d) PROVE Kept(c)'
  <2>1. CASE \E q \in Ids : CheckDeletable(d, q)
      BY <1>a, <2>1 DEF CheckDeletable, restoreVars
  <2>2. CASE DeleteVaultFile(d)
    <3>1. Copies(c) \subseteq Copies(c)' /\ Removals(c)' \subseteq Removals(c)
        BY <2>2 DEF DeleteVaultFile, Copies, Removals
    <3>2. UNCHANGED vault
          \/ (vault' = [vault EXCEPT ![did[d]] = None] /\ vault[did[d]] # c)
        BY <2>2 DEF DeleteVaultFile
    <3>3. Safe(c) \subseteq Safe(c)'
        BY <2>2, <3>2 DEF DeleteVaultFile, Safe, restoreVars
    <3> QED BY <3>1, <3>3, KeptMonotone
  <2>3. CASE UpdateDeleted(d)
    <3>1. Copies(c) \subseteq Copies(c)' /\ Removals(c)' \subseteq Removals(c)
        BY <2>3 DEF UpdateDeleted, Copies, Removals
    <3>2. did[d] \notin Safe(c)
        BY <1>0, <2>3 DEF UpdateDeleted, Safe, CopiedOK
    <3>3. Safe(c) \subseteq Safe(c)'
        BY <2>3, <3>2 DEF UpdateDeleted, Safe, restoreVars
    <3> QED BY <3>1, <3>3, KeptMonotone
  <2> QED BY <1>6, <2>1, <2>2, <2>3 DEF Delete
<1>7. CASE Crash
  <2>1. Copies(c) \subseteq Copies(c)' /\ Safe(c) \subseteq Safe(c)'
        /\ Removals(c)' \subseteq Removals(c)
      BY <1>7 DEF Crash, Copies, Safe, Removals
  <2> QED BY <2>1, KeptMonotone
<1>8. CASE UNCHANGED vars
    BY <1>a, <1>8 DEF vars, restoreVars
<1>9. ASSUME NEW p \in Paths, Expire(p) PROVE Kept(c)'
    BY <1>a, <1>9 DEF Expire, restoreVars
<1> QED BY <1>1, <1>2, <1>3, <1>4, <1>5, <1>6, <1>7, <1>8, <1>9 DEF Next, Watcher

\* A file that appears is on disk, and no call has seen it.
LEMMA DropKept ==
    ASSUME VaultInv, LossInv, NEW p \in Paths, NEW c \in Contents, Drop(p, c)
    PROVE  Kept(c)'
<1>1. Copies(c)' # {}
    BY DEF Drop, Copies, VaultInv, TypeOK
<1>2. Removals(c)' = {}
    BY DEF Drop, Removals, LossInv, OutsideOK, addVars
<1>3. /\ Cardinality(Copies(c)') \in Nat /\ Cardinality(Copies(c)') # 0
      /\ Cardinality(Safe(c)') \in Nat
    BY <1>1, Sizes, Grows, FS_EmptySet
<1>4. Cardinality(Removals(c)') = 0
    BY <1>2, FS_EmptySet
<1> QED BY <1>3, <1>4 DEF Kept

LEMMA StepCopiesOutnumber == VaultInv /\ LossInv /\ [Next]_vars => CopiesOutnumber'
<1> SUFFICES ASSUME VaultInv, LossInv, [Next]_vars, mishaps' = {},
                    NEW c \in Contents, c \notin outside', c \notin deleted'
             PROVE  Kept(c)'
    BY DEF CopiesOutnumber
<1>1. mishaps = {} /\ c \notin deleted
    BY HistoryStep
<1>2. CASE c \notin outside
  <2>1. Kept(c)
      BY <1>1, <1>2 DEF LossInv, CopiesOutnumber
  <2> QED BY <1>2, <2>1, StepKept
<1>3. CASE c \in outside
  <2>1. \E p \in Paths : Drop(p, c)
    <3> USE <1>3 DEF hist
    <3>1. ASSUME NEW q \in Ids, Watcher(q) \/ QuarantineFile(q) PROVE outside' = outside
        BY <3>1 DEF Watcher, Watch, Revalidate, QuarantineFile, Prepare, Insert,
                    InsertFails, Finalize, FinalizeFails, MarkFailed, RemoveOrphan
    <3>2. ASSUME NEW r \in Restores, Restore(r) PROVE outside' = outside
        BY <3>2 DEF Restore, ReadRow, Mark, Check, Create, OpenVault, Write, Unlink, Unmark,
                    Commit, Purge
    <3>3. ASSUME NEW d \in Deletes, Delete(d) PROVE outside' = outside
        BY <3>3 DEF Delete, CheckDeletable, DeleteVaultFile, UpdateDeleted
    <3>4. ASSUME NEW p \in Paths, NEW k \in Contents, Drop(p, k), k # c PROVE c \in outside'
        BY <3>4 DEF Drop
    <3>5. CASE UNCHANGED vars BY <3>5 DEF vars
    <3> QED BY <3>1, <3>2, <3>3, <3>4, <3>5 DEF Next, Take, Add, Expire, Crash
  <2> QED BY <2>1, DropKept
<1> QED BY <1>2, <1>3

LEMMA LossInvariant == Spec => [](VaultInv /\ LossInv)
<1>1. VaultInv /\ LossInv /\ [Next]_vars => (VaultInv /\ LossInv)'
  <2> SUFFICES ASSUME VaultInv, LossInv, [Next]_vars PROVE VaultInv' /\ LossInv'
      OBVIOUS
  <2>1. VaultInv'
      BY StepTypeOK, StepRowsOK, StepCallsOK, StepPurgesOK DEF VaultInv
  <2>2. LossInv'
      BY StepCopiesOutnumber, StepSeenOK, StepPartialOK, StepCopiedOK, StepOutsideOK,
         StepFragmentOK DEF LossInv
  <2> QED BY <2>1, <2>2
<1> QED BY InitVaultInv, InitLossInv, <1>1, PTL DEF Spec

\* No failure, crash or interleaving of any number of quarantine, restore and
\* delete calls loses a file nobody deleted, unless a file was quarantined while
\* a restore was writing it or a finalize removed another file than was copied.
THEOREM NothingLostHolds == Spec => []NothingLost
<1>1. VaultInv /\ LossInv => NothingLost
  <2> SUFFICES ASSUME LossInv, mishaps = {}, NEW c \in Contents \ (outside \cup deleted)
               PROVE  Recoverable(c)
      BY DEF NothingLost
  <2>1. Kept(c)
      BY DEF LossInv, CopiesOutnumber
  <2>2. Cardinality(Removals(c)) \in Nat
      BY Sizes, FS_CardinalityType
  <2>3. ~(Copies(c) = {} /\ Safe(c) = {})
    <3>1. SUFFICES ASSUME Copies(c) = {}, Safe(c) = {} PROVE FALSE
        OBVIOUS
    <3>2. Cardinality(Copies(c)) = 0 /\ Cardinality(Safe(c)) = 0
        BY <3>1, FS_EmptySet
    <3> QED BY <2>1, <2>2, <3>2 DEF Kept
  <2> QED BY <2>3 DEF Copies, Safe, Recoverable
<1> QED BY LossInvariant, <1>1, PTL

=============================================================================
