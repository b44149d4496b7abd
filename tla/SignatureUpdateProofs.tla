------------------------ MODULE SignatureUpdateProofs ------------------------
(***************************************************************************)
(* Theorems of SignatureUpdate: what is active is one set, whole and not   *)
(* older than one before it (since the ledger last read as empty), and an  *)
(* update loses no set; for every set of providers, files and releases.    *)
(***************************************************************************)
EXTENDS SignatureUpdate, TLAPS

\* The points at which files have been downloaded, the manifest is verified,
\* and the pending directory is being filled, or is full.
Staged == {"verify", "manifest", "ledger", "activate", "move", "dropold",
           "look", "backup", "swap"}
Verified == Staged \ {"verify", "manifest"}
Filled == {"dropold", "look", "backup", "swap"}

\* Only what was downloaded is staged, all of it of the provider that is
\* updated: a rollback can only take files away.
StagingOK ==
  /\ pc # "idle" =>
       /\ Names(staging) \subseteq files
       /\ \A f \in Names(staging) : ProviderOf[staging[f]] = provider
  /\ pc \in Staged => files # {}

\* A verified manifest lists what was downloaded, and what is still staged has
\* the content it lists; past the ledger it is the manifest recorded there.
ManifestOK ==
  /\ pc \in {"manifest", "ledger"} => provider \in HasManifest
  /\ pc \in Verified /\ provider \in HasManifest =>
       /\ manifest \in Releases /\ ProviderOf[manifest] = provider
       /\ files = FilesOf[manifest]
       /\ \A f \in Names(staging) : staging[f] = manifest
  /\ pc \in Verified \ {"ledger"} /\ provider \in HasManifest =>
       ledger[provider] = Epoch[manifest]

\* What is pending was staged for this update, and in the end all of it.
PendingOK ==
  /\ pc \in Filled \cup {"move"} =>
       \A f \in Names(pending) :
         /\ f \in files
         /\ ProviderOf[pending[f]] = provider
         /\ provider \in HasManifest => pending[f] = manifest
  /\ pc \in Filled => files \subseteq Names(pending)

\* Nothing is activated before it is recorded.
LedgerOK == \A p \in Providers : newest[p] <= ledger[p]

Whole(d) ==
  (\E f \in Names(d) : ProviderOf[d[f]] \in HasManifest) => IsRelease(d) \/ trimmed

NotOlder(d) ==
  \A f \in Names(d) :
    ProviderOf[d[f]] \in HasManifest => Epoch[d[f]] >= newest[ProviderOf[d[f]]]

Good(d) == OneSet(d) /\ Whole(d) /\ NotOlder(d)

\* The set was moved to its backup and is not back.
Away == had /\ pc \in {"swap", "restore"}

\* The active set is good, and so is the backup that may have to be restored.
ActiveOK ==
  /\ Good(active)
  /\ Away => Good(old) /\ active = Empty
  /\ pc = "backup" => had

\* The directory that holds the set.
KeepOK ==
  activated /\ ~trimmed /\ ~stranded =>
    /\ Away => IsUsable(old)
    /\ ~Away => IsUsable(active)

IInv == TypeOK /\ StagingOK /\ ManifestOK /\ PendingOK /\ LedgerOK /\ ActiveOK /\ KeepOK

-----------------------------------------------------------------------------
(* Lemmas on directories.                                                  *)

LEMMA LeftoversType ==
  ASSUME NEW d \in Dirs, NEW e \in Leftovers(d)
  PROVE  /\ e \in Dirs
         /\ \A f \in Files : e[f] # None => f \in Names(d) /\ e[f] = d[f]
         /\ Names(e) \subseteq Names(d)
<1>1. PICK S \in SUBSET Files : e = [f \in Files |-> IF f \in S THEN d[f] ELSE None]
  BY DEF Leftovers
<1> QED
  BY <1>1 DEF Dirs, Names

LEMMA PutType ==
  ASSUME NEW d \in Dirs, NEW f \in Files, NEW v \in Releases \cup {None}
  PROVE  /\ [d EXCEPT ![f] = v] \in Dirs
         /\ [d EXCEPT ![f] = v][f] = v
         /\ \A g \in Files \ {f} : [d EXCEPT ![f] = v][g] = d[g]
         /\ d[f] \in Releases \cup {None}
         /\ d[f] = None /\ v = None => [d EXCEPT ![f] = v] = d
         /\ Names(d) \subseteq Files
BY DEF Dirs, Names

LEMMA EmptyType == Empty \in Dirs /\ Names(Empty) = {}
BY DEF Empty, Dirs, Names

-----------------------------------------------------------------------------
(* Every part of the invariant is kept by every step.                      *)

\* The ledger is written with the baselines that were read, or nothing happens.
LEMMA EnforceIs ==
  ASSUME TypeOK, ManifestOK, EnforceAntiRollback
  PROVE  /\ UNCHANGED <<active, old, pending, staging, run, back, activated, trimmed, stranded>>
         /\ pc = "ledger" /\ provider \in Providers /\ manifest \in Releases
         /\ ledger' \in [Providers -> Nat] /\ newest' \in [Providers -> Nat]
         /\ \A p \in Providers : newest'[p] <= newest[p]
         /\ \/ pc' = "cleanup" /\ UNCHANGED <<ledger, newest>>
            \/ /\ pc' = "activate" /\ ledger'[provider] = Epoch[manifest]
               /\ \/ newest' = NoLedger
                  \/ /\ UNCHANGED newest /\ Epoch[manifest] >= ledger[provider]
                     /\ \A p \in Providers \ {provider} : ledger'[p] = ledger[p]
<1>1. /\ pc = "ledger" /\ provider \in Providers
      /\ manifest \in Releases /\ Epoch[manifest] \in Nat
  BY SignatureUpdateAssumption DEF EnforceAntiRollback, TypeOK, ManifestOK, Staged, Verified
<1>2. /\ ledger \in [Providers -> Nat] /\ newest \in [Providers -> Nat]
      /\ NoLedger \in [Providers -> Nat] /\ \A p \in Providers : NoLedger[p] = 0
  BY DEF TypeOK, NoLedger
<1>3. UNCHANGED <<active, old, pending, staging, run, back, activated, trimmed, stranded>>
  BY DEF EnforceAntiRollback
<1>4. CASE Fail /\ UNCHANGED <<ledger, newest>>
  <2>1. \A p \in Providers : newest[p] <= newest[p]
    BY <1>2
  <2> QED  BY <1>1, <1>2, <1>3, <1>4, <2>1 DEF Fail
<1>5. CASE \E read \in {ledger, NoLedger} : Epoch[manifest] >= read[provider] /\ Record(read)
  <2>1. PICK read \in {ledger, NoLedger} : Epoch[manifest] >= read[provider] /\ Record(read)
    BY <1>5
  <2>2. /\ ledger' \in [Providers -> Nat] /\ ledger'[provider] = Epoch[manifest]
        /\ \A p \in Providers \ {provider} : ledger'[p] = read[p]
    BY <1>1, <1>2, <2>1 DEF Record
  <2>3. pc' = "activate" /\ newest' = IF read = ledger THEN newest ELSE NoLedger
    BY <2>1 DEF Record
  <2>4. newest' \in [Providers -> Nat] /\ \A p \in Providers : newest'[p] <= newest[p]
    BY <1>2, <2>3
  <2> QED  BY <1>1, <1>3, <2>1, <2>2, <2>3, <2>4
<1> QED  BY <1>4, <1>5 DEF EnforceAntiRollback

LEMMA TypeStep ==
  ASSUME IInv, [Next]_vars
  PROVE  TypeOK'
<1> USE SignatureUpdateAssumption, LeftoversType, EmptyType DEF IInv, TypeOK, UpdatePoints, RollbackPoints, ManifestOK, Staged, Verified
<1>1. ASSUME NEW p \in Providers, Start(p) PROVE TypeOK'
  BY <1>1 DEF Start, disk, run, back, hist
<1>2. ASSUME Download PROVE TypeOK'
  <2>1. staging' \in Dirs
    BY <1>2 DEF Download, Dirs
  <2>2. files' \subseteq Files
    BY <1>2 DEF Download, Names
  <2> QED
    BY <1>2, <2>1, <2>2 DEF Download, Fail, disk, run, back, hist
<1>3. ASSUME Verify PROVE TypeOK'
  BY <1>3 DEF Verify, Fail, disk, run, back, hist
<1>4. ASSUME CheckManifest PROVE TypeOK'
  BY <1>4 DEF CheckManifest, Fail, disk, run, back, hist
<1>5. ASSUME EnforceAntiRollback PROVE TypeOK'
  BY <1>5, EnforceIs DEF run, back
<1>6. ASSUME PreparePending PROVE TypeOK'
  BY <1>6 DEF PreparePending, Fail, disk, run, back, hist
<1>7. ASSUME NEW f \in Files, MoveFile(f) PROVE TypeOK'
  <2>1. staging[f] \in Releases \cup {None} /\ pending' \in Dirs
    BY <1>7, PutType DEF MoveFile
  <2>2. staging' \in Dirs
    BY <1>7, PutType DEF MoveFile
  <2> QED
    BY <1>7, <2>1, <2>2 DEF MoveFile, disk, run, back, hist
<1>8. ASSUME MoveFails PROVE TypeOK'
  BY <1>8 DEF MoveFails, Fail, disk, run, back, hist
<1>9. ASSUME AllMoved PROVE TypeOK'
  BY <1>9 DEF AllMoved, disk, run, back, hist
<1>10. ASSUME DropOld PROVE TypeOK'
  BY <1>10 DEF DropOld, disk, run, back, hist
<1>11. ASSUME LookForExisting PROVE TypeOK'
  BY <1>11 DEF LookForExisting, disk, run, back, hist
<1>12. ASSUME Backup PROVE TypeOK'
  BY <1>12 DEF Backup, Fail, disk, run, back, hist
<1>13. ASSUME Swap PROVE TypeOK'
  <2>1. newest' \in [Providers -> Nat]
    <3>1. CASE UNCHANGED newest
      BY <3>1
    <3>2. CASE provider \in HasManifest /\ pc = "swap"
      <4>1. provider \in Providers /\ Epoch[manifest] \in Nat
        BY <3>2
      <4> QED
        BY <1>13, <4>1 DEF Swap, hist
    <3> QED
      BY <1>13, <3>1, <3>2 DEF Swap, hist
  <2>2. /\ active' \in Dirs /\ pending' \in Dirs /\ pc' \in {"finish", "restore"}
        /\ pc = "swap"
    BY <1>13 DEF Swap, hist
  <2>4. activated' \in BOOLEAN /\ trimmed' \in BOOLEAN /\ stranded' \in BOOLEAN
    <3>1. CASE activated' = TRUE /\ trimmed' = FALSE /\ stranded' = FALSE
      BY <3>1
    <3>2. CASE UNCHANGED <<activated, trimmed, stranded>>
      BY <3>2
    <3> QED
      BY <1>13, <3>1, <3>2 DEF Swap, hist
  <2>3. UNCHANGED <<old, staging, ledger, provider, files, manifest, had, rpc, listing>>
    BY <1>13 DEF Swap, run, back
  <2> QED
    BY <2>1, <2>2, <2>3, <2>4
<1>14. ASSUME Restore PROVE TypeOK'
  BY <1>14 DEF Restore, disk, run, back, hist
<1>15. ASSUME Scrub PROVE TypeOK'
  BY <1>15 DEF Scrub, Fail, disk, run, back, hist
<1>16. ASSUME Finish PROVE TypeOK'
  BY <1>16 DEF Finish, disk, run, back, hist
<1>17. ASSUME Cleanup PROVE TypeOK'
  <2>1. staging' \in Dirs
    BY <1>17 DEF Cleanup
  <2>2. /\ provider' = None /\ files' = {} /\ manifest' = None /\ had' = FALSE /\ pc' = "idle"
        /\ UNCHANGED <<active, old, pending, ledger, rpc, listing, newest, activated, trimmed, stranded>>
    BY <1>17 DEF Cleanup, back, hist
  <2>3. pc' \in UpdatePoints /\ provider' \in IF pc' = "idle" THEN {None} ELSE Providers
    BY <2>2
  <2>4. /\ {active, old, pending, staging}' \subseteq Dirs /\ rpc' \in RollbackPoints
        /\ ledger' \in [Providers -> Nat] /\ newest' \in [Providers -> Nat]
    BY <2>1, <2>2
  <2>5. /\ files' \subseteq Files /\ listing' \subseteq Files
        /\ manifest' \in Releases \cup {None}
    BY <2>2
  <2>6. had' \in BOOLEAN /\ activated' \in BOOLEAN /\ trimmed' \in BOOLEAN /\ stranded' \in BOOLEAN
    BY <2>2
  <2> QED
    BY <2>3, <2>4, <2>5, <2>6
<1>18. ASSUME RollbackList PROVE TypeOK'
  <2>1. listing' \subseteq Files
    BY <1>18 DEF RollbackList, Names
  <2> QED
    BY <1>18, <2>1 DEF RollbackList, disk, run, back, hist
<1>19. ASSUME NEW f \in Files, RollbackRemove(f) PROVE TypeOK'
  <2>1. active' \in Dirs
    BY <1>19, PutType DEF RollbackRemove
  <2>2. trimmed' \in BOOLEAN
    BY <1>19 DEF RollbackRemove
  <2>3. listing' \subseteq Files
    BY <1>19 DEF RollbackRemove
  <2>4. UNCHANGED <<old, pending, staging, ledger, pc, provider, files, manifest, had, rpc, newest, activated, stranded>>
    BY <1>19 DEF RollbackRemove, run
  <2> QED
    BY <2>1, <2>2, <2>3, <2>4
<1>20. ASSUME RollbackRemoved PROVE TypeOK'
  BY <1>20 DEF RollbackRemoved, disk, run, back, hist
<1>21. ASSUME RollbackSweep PROVE TypeOK'
  BY <1>21 DEF RollbackSweep, disk, run, back, hist
<1>22. ASSUME Crash PROVE TypeOK'
  BY <1>22 DEF Crash, disk, run, back, hist
<1>23. CASE UNCHANGED vars
  BY <1>23 DEF vars, disk, run, back, hist
<1> QED
  BY <1>1, <1>2, <1>3, <1>4, <1>5, <1>6, <1>7, <1>8, <1>9, <1>10, <1>11, <1>12, <1>13, <1>14, <1>15, <1>16, <1>17, <1>18, <1>19, <1>20, <1>21, <1>22, <1>23
     DEF Next, UpdateProvider, Activate, Rollback

LEMMA StagingStep ==
  ASSUME IInv, [Next]_vars
  PROVE  StagingOK'
<1> USE SignatureUpdateAssumption, LeftoversType, EmptyType DEF IInv, TypeOK, StagingOK, Staged, Names
<1>1. ASSUME NEW p \in Providers, Start(p) PROVE StagingOK'
  BY <1>1 DEF Start, disk, run, back, hist
<1>2. ASSUME Download PROVE StagingOK'
  BY <1>2 DEF Download, Fail, disk, run, back, hist
<1>3. ASSUME Verify PROVE StagingOK'
  BY <1>3 DEF Verify, Fail, disk, run, back, hist
<1>4. ASSUME CheckManifest PROVE StagingOK'
  BY <1>4 DEF CheckManifest, Fail, disk, run, back, hist
<1>5. ASSUME EnforceAntiRollback PROVE StagingOK'
  BY <1>5 DEF EnforceAntiRollback, Fail, disk, run, back, hist
<1>6. ASSUME PreparePending PROVE StagingOK'
  BY <1>6 DEF PreparePending, Fail, disk, run, back, hist
<1>7. ASSUME NEW f \in Files, MoveFile(f) PROVE StagingOK'
  <2>1. staging \in Dirs /\ staging' \in Dirs
    BY <1>7, PutType DEF MoveFile
  <2>2. \A g \in Files : staging'[g] # None => staging'[g] = staging[g]
    BY <1>7, PutType DEF MoveFile
  <2> QED
    BY <1>7, <2>1, <2>2 DEF MoveFile, disk, run, back, hist
<1>8. ASSUME MoveFails PROVE StagingOK'
  BY <1>8 DEF MoveFails, Fail, disk, run, back, hist
<1>9. ASSUME AllMoved PROVE StagingOK'
  BY <1>9 DEF AllMoved, disk, run, back, hist
<1>10. ASSUME DropOld PROVE StagingOK'
  BY <1>10 DEF DropOld, disk, run, back, hist
<1>11. ASSUME LookForExisting PROVE StagingOK'
  BY <1>11 DEF LookForExisting, disk, run, back, hist
<1>12. ASSUME Backup PROVE StagingOK'
  BY <1>12 DEF Backup, Fail, disk, run, back, hist
<1>13. ASSUME Swap PROVE StagingOK'
  BY <1>13 DEF Swap, disk, run, back, hist
<1>14. ASSUME Restore PROVE StagingOK'
  BY <1>14 DEF Restore, disk, run, back, hist
<1>15. ASSUME Scrub PROVE StagingOK'
  BY <1>15 DEF Scrub, Fail, disk, run, back, hist
<1>16. ASSUME Finish PROVE StagingOK'
  BY <1>16 DEF Finish, disk, run, back, hist
<1>17. ASSUME Cleanup PROVE StagingOK'
  BY <1>17 DEF Cleanup, disk, run, back, hist
<1>18. ASSUME RollbackList PROVE StagingOK'
  BY <1>18 DEF RollbackList, disk, run, back, hist
<1>19. ASSUME NEW f \in Files, RollbackRemove(f) PROVE StagingOK'
  BY <1>19 DEF RollbackRemove, disk, run, back, hist
<1>20. ASSUME RollbackRemoved PROVE StagingOK'
  BY <1>20 DEF RollbackRemoved, disk, run, back, hist
<1>21. ASSUME RollbackSweep PROVE StagingOK'
  BY <1>21 DEF RollbackSweep, disk, run, back, hist
<1>22. ASSUME Crash PROVE StagingOK'
  BY <1>22 DEF Crash, disk, run, back, hist
<1>23. CASE UNCHANGED vars
  BY <1>23 DEF vars, disk, run, back, hist
<1> QED
  BY <1>1, <1>2, <1>3, <1>4, <1>5, <1>6, <1>7, <1>8, <1>9, <1>10, <1>11, <1>12, <1>13, <1>14, <1>15, <1>16, <1>17, <1>18, <1>19, <1>20, <1>21, <1>22, <1>23
     DEF Next, UpdateProvider, Activate, Rollback

LEMMA ManifestStep ==
  ASSUME IInv, [Next]_vars
  PROVE  ManifestOK'
<1> USE SignatureUpdateAssumption, LeftoversType, EmptyType DEF IInv, TypeOK, StagingOK, ManifestOK, Staged, Verified, Names
<1>1. ASSUME NEW p \in Providers, Start(p) PROVE ManifestOK'
  BY <1>1 DEF Start, disk, run, back, hist
<1>2. ASSUME Download PROVE ManifestOK'
  BY <1>2 DEF Download, Fail, disk, run, back, hist
<1>3. ASSUME Verify PROVE ManifestOK'
  BY <1>3 DEF Verify, Fail, disk, run, back, hist
<1>4. ASSUME CheckManifest PROVE ManifestOK'
  <2>1. CASE pc' = "cleanup"
    BY <1>4, <2>1 DEF CheckManifest, Fail, disk, run, back, hist
  <2>2. ASSUME NEW m \in Releases, ProviderOf[m] = provider,
               \A f \in FilesOf[m] : staging[f] = m, files \subseteq FilesOf[m],
               manifest' = m, pc' = "ledger"
        PROVE  ManifestOK'
    <3>1. UNCHANGED <<staging, files, provider, ledger>>
      BY <1>4 DEF CheckManifest, disk
    <3>2. FilesOf[m] \subseteq Files /\ m # None
      OBVIOUS
    <3>3. FilesOf[m] \subseteq files
      BY <1>4, <2>2, <3>2 DEF CheckManifest
    <3>4. files = FilesOf[m] /\ \A f \in Names(staging) : staging[f] = m
      BY <1>4, <2>2, <3>3 DEF CheckManifest
    <3>5. pc = "manifest"
      BY <1>4 DEF CheckManifest
    <3> QED
      BY <2>2, <3>1, <3>4, <3>5
  <2> QED
    BY <1>4, <2>1, <2>2 DEF CheckManifest, Fail
<1>5. ASSUME EnforceAntiRollback PROVE ManifestOK'
  BY <1>5, EnforceIs DEF run, back
<1>6. ASSUME PreparePending PROVE ManifestOK'
  BY <1>6 DEF PreparePending, Fail, disk, run, back, hist
<1>7. ASSUME NEW f \in Files, MoveFile(f) PROVE ManifestOK'
  <2>1. staging \in Dirs /\ staging' \in Dirs
    BY <1>7, PutType DEF MoveFile
  <2>2. \A g \in Files : staging'[g] # None => staging'[g] = staging[g]
    BY <1>7, PutType DEF MoveFile
  <2> QED
    BY <1>7, <2>1, <2>2 DEF MoveFile, disk, run, back, hist
<1>8. ASSUME MoveFails PROVE ManifestOK'
  BY <1>8 DEF MoveFails, Fail, disk, run, back, hist
<1>9. ASSUME AllMoved PROVE ManifestOK'
  BY <1>9 DEF AllMoved, disk, run, back, hist
<1>10. ASSUME DropOld PROVE ManifestOK'
  BY <1>10 DEF DropOld, disk, run, back, hist
<1>11. ASSUME LookForExisting PROVE ManifestOK'
  BY <1>11 DEF LookForExisting, disk, run, back, hist
<1>12. ASSUME Backup PROVE ManifestOK'
  BY <1>12 DEF Backup, Fail, disk, run, back, hist
<1>13. ASSUME Swap PROVE ManifestOK'
  BY <1>13 DEF Swap, disk, run, back, hist
<1>14. ASSUME Restore PROVE ManifestOK'
  BY <1>14 DEF Restore, disk, run, back, hist
<1>15. ASSUME Scrub PROVE ManifestOK'
  BY <1>15 DEF Scrub, Fail, disk, run, back, hist
<1>16. ASSUME Finish PROVE ManifestOK'
  BY <1>16 DEF Finish, disk, run, back, hist
<1>17. ASSUME Cleanup PROVE ManifestOK'
  BY <1>17 DEF Cleanup, disk, run, back, hist
<1>18. ASSUME RollbackList PROVE ManifestOK'
  BY <1>18 DEF RollbackList, disk, run, back, hist
<1>19. ASSUME NEW f \in Files, RollbackRemove(f) PROVE ManifestOK'
  BY <1>19 DEF RollbackRemove, disk, run, back, hist
<1>20. ASSUME RollbackRemoved PROVE ManifestOK'
  BY <1>20 DEF RollbackRemoved, disk, run, back, hist
<1>21. ASSUME RollbackSweep PROVE ManifestOK'
  BY <1>21 DEF RollbackSweep, disk, run, back, hist
<1>22. ASSUME Crash PROVE ManifestOK'
  BY <1>22 DEF Crash, disk, run, back, hist
<1>23. CASE UNCHANGED vars
  BY <1>23 DEF vars, disk, run, back, hist
<1> QED
  BY <1>1, <1>2, <1>3, <1>4, <1>5, <1>6, <1>7, <1>8, <1>9, <1>10, <1>11, <1>12, <1>13, <1>14, <1>15, <1>16, <1>17, <1>18, <1>19, <1>20, <1>21, <1>22, <1>23
     DEF Next, UpdateProvider, Activate, Rollback

LEMMA PendingStep ==
  ASSUME IInv, [Next]_vars
  PROVE  PendingOK'
<1> USE SignatureUpdateAssumption, LeftoversType, EmptyType DEF IInv, TypeOK, StagingOK, ManifestOK, PendingOK, Staged, Verified, Filled, Names
<1>1. ASSUME NEW p \in Providers, Start(p) PROVE PendingOK'
  BY <1>1 DEF Start, disk, run, back, hist
<1>2. ASSUME Download PROVE PendingOK'
  BY <1>2 DEF Download, Fail, disk, run, back, hist
<1>3. ASSUME Verify PROVE PendingOK'
  BY <1>3 DEF Verify, Fail, disk, run, back, hist
<1>4. ASSUME CheckManifest PROVE PendingOK'
  BY <1>4 DEF CheckManifest, Fail, disk, run, back, hist
<1>5. ASSUME EnforceAntiRollback PROVE PendingOK'
  BY <1>5, EnforceIs DEF run, back
<1>6. ASSUME PreparePending PROVE PendingOK'
  BY <1>6 DEF PreparePending, Fail, disk, run, back, hist
<1>7. ASSUME NEW f \in Files, MoveFile(f) PROVE PendingOK'
  BY <1>7 DEF MoveFile, disk, run, back, hist
<1>8. ASSUME MoveFails PROVE PendingOK'
  BY <1>8 DEF MoveFails, Fail, disk, run, back, hist
<1>9. ASSUME AllMoved PROVE PendingOK'
  BY <1>9 DEF AllMoved, disk, run, back, hist
<1>10. ASSUME DropOld PROVE PendingOK'
  BY <1>10 DEF DropOld, disk, run, back, hist
<1>11. ASSUME LookForExisting PROVE PendingOK'
  BY <1>11 DEF LookForExisting, disk, run, back, hist
<1>12. ASSUME Backup PROVE PendingOK'
  BY <1>12 DEF Backup, Fail, disk, run, back, hist
<1>13. ASSUME Swap PROVE PendingOK'
  BY <1>13 DEF Swap, disk, run, back, hist
<1>14. ASSUME Restore PROVE PendingOK'
  BY <1>14 DEF Restore, disk, run, back, hist
<1>15. ASSUME Scrub PROVE PendingOK'
  BY <1>15 DEF Scrub, Fail, disk, run, back, hist
<1>16. ASSUME Finish PROVE PendingOK'
  BY <1>16 DEF Finish, disk, run, back, hist
<1>17. ASSUME Cleanup PROVE PendingOK'
  BY <1>17 DEF Cleanup, disk, run, back, hist
<1>18. ASSUME RollbackList PROVE PendingOK'
  BY <1>18 DEF RollbackList, disk, run, back, hist
<1>19. ASSUME NEW f \in Files, RollbackRemove(f) PROVE PendingOK'
  BY <1>19 DEF RollbackRemove, disk, run, back, hist
<1>20. ASSUME RollbackRemoved PROVE PendingOK'
  BY <1>20 DEF RollbackRemoved, disk, run, back, hist
<1>21. ASSUME RollbackSweep PROVE PendingOK'
  BY <1>21 DEF RollbackSweep, disk, run, back, hist
<1>22. ASSUME Crash PROVE PendingOK'
  BY <1>22 DEF Crash, disk, run, back, hist
<1>23. CASE UNCHANGED vars
  BY <1>23 DEF vars, disk, run, back, hist
<1> QED
  BY <1>1, <1>2, <1>3, <1>4, <1>5, <1>6, <1>7, <1>8, <1>9, <1>10, <1>11, <1>12, <1>13, <1>14, <1>15, <1>16, <1>17, <1>18, <1>19, <1>20, <1>21, <1>22, <1>23
     DEF Next, UpdateProvider, Activate, Rollback

LEMMA LedgerStep ==
  ASSUME IInv, [Next]_vars
  PROVE  LedgerOK'
<1> USE SignatureUpdateAssumption, LeftoversType, EmptyType DEF IInv, TypeOK, ManifestOK, LedgerOK, Staged, Verified
<1>1. ASSUME NEW p \in Providers, Start(p) PROVE LedgerOK'
  BY <1>1 DEF Start, disk, run, back, hist
<1>2. ASSUME Download PROVE LedgerOK'
  BY <1>2 DEF Download, Fail, disk, run, back, hist
<1>3. ASSUME Verify PROVE LedgerOK'
  BY <1>3 DEF Verify, Fail, disk, run, back, hist
<1>4. ASSUME CheckManifest PROVE LedgerOK'
  BY <1>4 DEF CheckManifest, Fail, disk, run, back, hist
<1>5. ASSUME EnforceAntiRollback PROVE LedgerOK'
  BY <1>5, EnforceIs DEF NoLedger
<1>6. ASSUME PreparePending PROVE LedgerOK'
  BY <1>6 DEF PreparePending, Fail, disk, run, back, hist
<1>7. ASSUME NEW f \in Files, MoveFile(f) PROVE LedgerOK'
  BY <1>7 DEF MoveFile, disk, run, back, hist
<1>8. ASSUME MoveFails PROVE LedgerOK'
  BY <1>8 DEF MoveFails, Fail, disk, run, back, hist
<1>9. ASSUME AllMoved PROVE LedgerOK'
  BY <1>9 DEF AllMoved, disk, run, back, hist
<1>10. ASSUME DropOld PROVE LedgerOK'
  BY <1>10 DEF DropOld, disk, run, back, hist
<1>11. ASSUME LookForExisting PROVE LedgerOK'
  BY <1>11 DEF LookForExisting, disk, run, back, hist
<1>12. ASSUME Backup PROVE LedgerOK'
  BY <1>12 DEF Backup, Fail, disk, run, back, hist
<1>13. ASSUME Swap PROVE LedgerOK'
  BY <1>13 DEF Swap, disk, run, back, hist
<1>14. ASSUME Restore PROVE LedgerOK'
  BY <1>14 DEF Restore, disk, run, back, hist
<1>15. ASSUME Scrub PROVE LedgerOK'
  BY <1>15 DEF Scrub, Fail, disk, run, back, hist
<1>16. ASSUME Finish PROVE LedgerOK'
  BY <1>16 DEF Finish, disk, run, back, hist
<1>17. ASSUME Cleanup PROVE LedgerOK'
  BY <1>17 DEF Cleanup, disk, run, back, hist
<1>18. ASSUME RollbackList PROVE LedgerOK'
  BY <1>18 DEF RollbackList, disk, run, back, hist
<1>19. ASSUME NEW f \in Files, RollbackRemove(f) PROVE LedgerOK'
  BY <1>19 DEF RollbackRemove, disk, run, back, hist
<1>20. ASSUME RollbackRemoved PROVE LedgerOK'
  BY <1>20 DEF RollbackRemoved, disk, run, back, hist
<1>21. ASSUME RollbackSweep PROVE LedgerOK'
  BY <1>21 DEF RollbackSweep, disk, run, back, hist
<1>22. ASSUME Crash PROVE LedgerOK'
  BY <1>22 DEF Crash, disk, run, back, hist
<1>23. CASE UNCHANGED vars
  BY <1>23 DEF vars, disk, run, back, hist
<1> QED
  BY <1>1, <1>2, <1>3, <1>4, <1>5, <1>6, <1>7, <1>8, <1>9, <1>10, <1>11, <1>12, <1>13, <1>14, <1>15, <1>16, <1>17, <1>18, <1>19, <1>20, <1>21, <1>22, <1>23
     DEF Next, UpdateProvider, Activate, Rollback

LEMMA ActiveStep ==
  ASSUME IInv, [Next]_vars
  PROVE  ActiveOK'
<1> USE SignatureUpdateAssumption, LeftoversType, EmptyType DEF IInv, TypeOK, ManifestOK, PendingOK, LedgerOK, ActiveOK, Away, Good, OneSet, Whole, NotOlder, IsRelease, Staged, Verified, Filled, Names
<1>1. ASSUME NEW p \in Providers, Start(p) PROVE ActiveOK'
  BY <1>1 DEF Start, disk, run, back, hist
<1>2. ASSUME Download PROVE ActiveOK'
  BY <1>2 DEF Download, Fail, disk, run, back, hist
<1>3. ASSUME Verify PROVE ActiveOK'
  BY <1>3 DEF Verify, Fail, disk, run, back, hist
<1>4. ASSUME CheckManifest PROVE ActiveOK'
  BY <1>4 DEF CheckManifest, Fail, disk, run, back, hist
<1>5. ASSUME EnforceAntiRollback PROVE ActiveOK'
  <2>1. /\ UNCHANGED <<active, old, had, trimmed>> /\ pc = "ledger"
        /\ pc' \in {"activate", "cleanup"}
        /\ \A p \in Providers : newest'[p] <= newest[p]
        /\ newest' \in [Providers -> Nat]
    BY <1>5, EnforceIs DEF run
  <2>2. NotOlder(active)'
    <3> SUFFICES ASSUME NEW f \in Names(active), ProviderOf[active[f]] \in HasManifest
                 PROVE  Epoch[active[f]] >= newest'[ProviderOf[active[f]]]
      BY <2>1
    <3>1. active[f] \in Releases /\ ProviderOf[active[f]] \in Providers
      BY DEF Dirs
    <3>2. PICK p \in Providers : p = ProviderOf[active[f]] /\ Epoch[active[f]] >= newest[p]
      BY <3>1
    <3>3. Epoch[active[f]] \in Nat /\ newest[p] \in Nat /\ newest'[p] \in Nat
      BY <2>1, <3>1
    <3> QED  BY <2>1, <3>2, <3>3
  <2> QED  BY <2>1, <2>2
<1>6. ASSUME PreparePending PROVE ActiveOK'
  BY <1>6 DEF PreparePending, Fail, disk, run, back, hist
<1>7. ASSUME NEW f \in Files, MoveFile(f) PROVE ActiveOK'
  BY <1>7 DEF MoveFile, disk, run, back, hist
<1>8. ASSUME MoveFails PROVE ActiveOK'
  BY <1>8 DEF MoveFails, Fail, disk, run, back, hist
<1>9. ASSUME AllMoved PROVE ActiveOK'
  BY <1>9 DEF AllMoved, disk, run, back, hist
<1>10. ASSUME DropOld PROVE ActiveOK'
  BY <1>10 DEF DropOld, disk, run, back, hist
<1>11. ASSUME LookForExisting PROVE ActiveOK'
  BY <1>11 DEF LookForExisting, disk, run, back, hist
<1>12. ASSUME Backup PROVE ActiveOK'
  BY <1>12 DEF Backup, Fail, disk, run, back, hist
<1>13. ASSUME Swap PROVE ActiveOK'
  <2>1. CASE UNCHANGED <<active, pending, hist>>
    BY <1>13, <2>1 DEF Swap, disk, run, back, hist
  <2>2. CASE active' = pending /\ pc' = "finish"
    <3>1. /\ pc = "swap" /\ UNCHANGED <<provider, manifest, had>>
          /\ newest' = [newest EXCEPT ![provider] =
                          IF provider \in HasManifest /\ Epoch[manifest] > @
                          THEN Epoch[manifest] ELSE @]
      BY <1>13, <2>2 DEF Swap, run
    <3>2. /\ provider \in Providers /\ files \subseteq Names(pending)
          /\ \A f \in Names(pending) :
               /\ f \in files /\ ProviderOf[pending[f]] = provider
               /\ provider \in HasManifest => pending[f] = manifest
          /\ provider \in HasManifest =>
               /\ manifest \in Releases /\ files = FilesOf[manifest]
               /\ ledger[provider] = Epoch[manifest]
      BY <3>1
    <3>3. OneSet(pending)
      BY <3>2
    <3>4. provider \in HasManifest => IsRelease(pending)
      <4>1. ASSUME provider \in HasManifest
            PROVE  pending = [f \in Files |-> IF f \in FilesOf[manifest] THEN manifest ELSE None]
        BY <3>2, <4>1 DEF Dirs
      <4> QED
        BY <3>2, <4>1
    <3>5. provider \in HasManifest => newest'[provider] = Epoch[manifest]
      <4> SUFFICES ASSUME provider \in HasManifest PROVE newest'[provider] = Epoch[manifest]
        OBVIOUS
      <4>1. newest[provider] \in Nat /\ Epoch[manifest] \in Nat
        BY <3>2
      <4>2. newest[provider] <= Epoch[manifest]
        BY <3>2
      <4>3. newest'[provider] = IF Epoch[manifest] > newest[provider]
                                THEN Epoch[manifest] ELSE newest[provider]
        BY <3>1, <3>2
      <4> QED
        BY <4>1, <4>2, <4>3
    <3>6. Whole(active)' /\ NotOlder(active)' /\ OneSet(active)'
      <4>1. Names(active') = Names(pending)
        BY <2>2
      <4>2. OneSet(active)'
        BY <2>2, <3>3
      <4>3. Whole(active)'
        BY <2>2, <3>2, <3>4
      <4>4. NotOlder(active)'
        <5> SUFFICES ASSUME NEW f \in Names(pending), ProviderOf[pending[f]] \in HasManifest
                     PROVE  Epoch[pending[f]] >= newest'[ProviderOf[pending[f]]]
          BY <2>2
        <5>1. provider \in HasManifest /\ pending[f] = manifest /\ ProviderOf[manifest] = provider
          BY <3>2
        <5>2. Epoch[manifest] \in Nat
          BY <3>2, <5>1
        <5> QED
          BY <3>5, <5>1, <5>2
      <4> QED
        BY <4>2, <4>3, <4>4
    <3> QED
      BY <2>2, <3>6
  <2> QED
    BY <1>13, <2>1, <2>2 DEF Swap
<1>14. ASSUME Restore PROVE ActiveOK'
  BY <1>14 DEF Restore, disk, run, back, hist
<1>15. ASSUME Scrub PROVE ActiveOK'
  BY <1>15 DEF Scrub, Fail, disk, run, back, hist
<1>16. ASSUME Finish PROVE ActiveOK'
  BY <1>16 DEF Finish, disk, run, back, hist
<1>17. ASSUME Cleanup PROVE ActiveOK'
  BY <1>17 DEF Cleanup, disk, run, back, hist
<1>18. ASSUME RollbackList PROVE ActiveOK'
  BY <1>18 DEF RollbackList, disk, run, back, hist
<1>19. ASSUME NEW f \in Files, RollbackRemove(f) PROVE ActiveOK'
  <2>1. CASE UNCHANGED <<active, trimmed>>
    BY <1>19, <2>1 DEF RollbackRemove, disk, run, back, hist
  <2>2. CASE /\ active' = [active EXCEPT ![f] = None]
             /\ trimmed' = (trimmed \/ active[f] # None)
    <3>1. UNCHANGED <<old, newest, had, pc>>
      BY <1>19 DEF RollbackRemove, run
    <3>2. /\ active' \in Dirs /\ active'[f] = None
          /\ \A g \in Files \ {f} : active'[g] = active[g]
      <4>1. active' = [active EXCEPT ![f] = None]
        BY <2>2
      <4>2. active \in Dirs
        OBVIOUS
      <4> HIDE SignatureUpdateAssumption, LeftoversType, EmptyType
               DEF IInv, TypeOK, ManifestOK, PendingOK, LedgerOK, ActiveOK, Away, Good, OneSet,
                   Whole, NotOlder, IsRelease, Staged, Verified, Filled, Names
      <4>3. active' \in Dirs
        BY <4>1, <4>2 DEF Dirs
      <4>4. active'[f] = None
        BY <4>1, <4>2 DEF Dirs
      <4>5. \A g \in Files \ {f} : active'[g] = active[g]
        BY <4>1, <4>2 DEF Dirs
      <4> QED
        BY <4>3, <4>4, <4>5
    <3>3. CASE active[f] = None
      <4>1. active' = active
        BY <2>2, <3>3, PutType
      <4>2. trimmed => trimmed'
        BY <2>2
      <4> QED
        BY <3>1, <4>1, <4>2
    <3>4. CASE active[f] # None
      <4>1. trimmed' /\ Names(active') \subseteq Names(active) \ {f}
        BY <2>2, <3>2, <3>4
      <4>2. \A g \in Names(active') : active'[g] = active[g]
        BY <3>2, <4>1
      <4>3. OneSet(active)'
        BY <4>1, <4>2
      <4>4. NotOlder(active)' /\ Whole(active)'
        BY <3>1, <4>1, <4>2
      <4>5. Away' => Good(old)' /\ active' = Empty
        <5>1. ~Away
          BY <3>4, <1>19, EmptyType DEF RollbackRemove
        <5> QED
          BY <3>1, <5>1
      <4> QED
        BY <3>1, <4>3, <4>4, <4>5
    <3> QED
      BY <3>3, <3>4
  <2> QED
    BY <1>19, <2>1, <2>2 DEF RollbackRemove
<1>20. ASSUME RollbackRemoved PROVE ActiveOK'
  BY <1>20 DEF RollbackRemoved, disk, run, back, hist
<1>21. ASSUME RollbackSweep PROVE ActiveOK'
  BY <1>21 DEF RollbackSweep, disk, run, back, hist
<1>22. ASSUME Crash PROVE ActiveOK'
  BY <1>22 DEF Crash, disk, run, back, hist
<1>23. CASE UNCHANGED vars
  BY <1>23 DEF vars, disk, run, back, hist
<1> QED
  BY <1>1, <1>2, <1>3, <1>4, <1>5, <1>6, <1>7, <1>8, <1>9, <1>10, <1>11, <1>12, <1>13, <1>14, <1>15, <1>16, <1>17, <1>18, <1>19, <1>20, <1>21, <1>22, <1>23
     DEF Next, UpdateProvider, Activate, Rollback

LEMMA KeepStep ==
  ASSUME IInv, [Next]_vars
  PROVE  KeepOK'
<1> USE SignatureUpdateAssumption, LeftoversType, EmptyType DEF IInv, TypeOK, StagingOK, ManifestOK, PendingOK, ActiveOK, KeepOK, Away, IsUsable, IsRelease, Staged, Verified, Filled, Names
<1>1. ASSUME NEW p \in Providers, Start(p) PROVE KeepOK'
  BY <1>1 DEF Start, disk, run, back, hist
<1>2. ASSUME Download PROVE KeepOK'
  BY <1>2 DEF Download, Fail, disk, run, back, hist
<1>3. ASSUME Verify PROVE KeepOK'
  BY <1>3 DEF Verify, Fail, disk, run, back, hist
<1>4. ASSUME CheckManifest PROVE KeepOK'
  BY <1>4 DEF CheckManifest, Fail, disk, run, back, hist
<1>5. ASSUME EnforceAntiRollback PROVE KeepOK'
  <2>1. /\ UNCHANGED <<active, old, had, activated, trimmed, stranded>> /\ pc = "ledger"
        /\ pc' \in {"activate", "cleanup"}
    BY <1>5, EnforceIs DEF run
  <2> QED  BY <2>1
<1>6. ASSUME PreparePending PROVE KeepOK'
  BY <1>6 DEF PreparePending, Fail, disk, run, back, hist
<1>7. ASSUME NEW f \in Files, MoveFile(f) PROVE KeepOK'
  BY <1>7 DEF MoveFile, disk, run, back, hist
<1>8. ASSUME MoveFails PROVE KeepOK'
  BY <1>8 DEF MoveFails, Fail, disk, run, back, hist
<1>9. ASSUME AllMoved PROVE KeepOK'
  BY <1>9 DEF AllMoved, disk, run, back, hist
<1>10. ASSUME DropOld PROVE KeepOK'
  BY <1>10 DEF DropOld, disk, run, back, hist
<1>11. ASSUME LookForExisting PROVE KeepOK'
  BY <1>11 DEF LookForExisting, disk, run, back, hist
<1>12. ASSUME Backup PROVE KeepOK'
  BY <1>12 DEF Backup, Fail, disk, run, back, hist
<1>13. ASSUME Swap PROVE KeepOK'
  <2>1. CASE UNCHANGED <<active, pending, hist>>
    BY <1>13, <2>1 DEF Swap, disk, run, back, hist
  <2>2. CASE active' = pending /\ pc' = "finish"
    <3>1. pc = "swap"
      BY <1>13 DEF Swap
    <3>2. CASE provider \in HasManifest
      <4>1. manifest \in Releases /\ files = FilesOf[manifest]
        BY <3>1, <3>2
      <4>2. pending = [f \in Files |-> IF f \in FilesOf[manifest] THEN manifest ELSE None]
        BY <3>1, <3>2, <4>1 DEF Dirs
      <4> QED
        BY <2>2, <4>1, <4>2
    <3>3. CASE provider \notin HasManifest
      <4>1. PICK f \in files : TRUE
        BY <3>1
      <4>2. f \in Names(pending) /\ ProviderOf[pending[f]] = provider
        BY <3>1
      <4> QED
        BY <2>2, <3>3, <4>2
    <3> QED
      BY <3>2, <3>3
  <2> QED
    BY <1>13, <2>1, <2>2 DEF Swap
<1>14. ASSUME Restore PROVE KeepOK'
  BY <1>14 DEF Restore, disk, run, back, hist
<1>15. ASSUME Scrub PROVE KeepOK'
  BY <1>15 DEF Scrub, Fail, disk, run, back, hist
<1>16. ASSUME Finish PROVE KeepOK'
  BY <1>16 DEF Finish, disk, run, back, hist
<1>17. ASSUME Cleanup PROVE KeepOK'
  BY <1>17 DEF Cleanup, disk, run, back, hist
<1>18. ASSUME RollbackList PROVE KeepOK'
  BY <1>18 DEF RollbackList, disk, run, back, hist
<1>19. ASSUME NEW f \in Files, RollbackRemove(f) PROVE KeepOK'
  <2>1. CASE UNCHANGED <<active, trimmed>>
    BY <1>19, <2>1 DEF RollbackRemove, disk, run, back, hist
  <2>2. CASE active' = [active EXCEPT ![f] = None] /\ trimmed' = (trimmed \/ active[f] # None)
    <3>1. UNCHANGED <<old, activated, stranded, had, pc>>
      BY <1>19 DEF RollbackRemove, run
    <3>2. CASE active[f] # None
      BY <2>2, <3>2
    <3>3. CASE active[f] = None
      <4>1. active' = active
        BY <2>2, <3>3, PutType
      <4>2. trimmed => trimmed'
        BY <2>2
      <4> QED
        BY <3>1, <4>1, <4>2
    <3> QED
      BY <3>2, <3>3
  <2> QED
    BY <1>19, <2>1, <2>2 DEF RollbackRemove
<1>20. ASSUME RollbackRemoved PROVE KeepOK'
  BY <1>20 DEF RollbackRemoved, disk, run, back, hist
<1>21. ASSUME RollbackSweep PROVE KeepOK'
  BY <1>21 DEF RollbackSweep, disk, run, back, hist
<1>22. ASSUME Crash PROVE KeepOK'
  BY <1>22 DEF Crash, disk, run, back, hist
<1>23. CASE UNCHANGED vars
  BY <1>23 DEF vars, disk, run, back, hist
<1> QED
  BY <1>1, <1>2, <1>3, <1>4, <1>5, <1>6, <1>7, <1>8, <1>9, <1>10, <1>11, <1>12, <1>13, <1>14, <1>15, <1>16, <1>17, <1>18, <1>19, <1>20, <1>21, <1>22, <1>23
     DEF Next, UpdateProvider, Activate, Rollback

-----------------------------------------------------------------------------
(* The theorems.                                                           *)

LEMMA InitIInv == Init => IInv
<1> SUFFICES ASSUME Init PROVE IInv
  OBVIOUS
<1> USE SignatureUpdateAssumption, EmptyType DEF Init, NoLedger
<1>1. TypeOK
  BY DEF TypeOK, UpdatePoints, RollbackPoints
<1>2. StagingOK /\ ManifestOK /\ PendingOK
  BY DEF StagingOK, ManifestOK, PendingOK, Staged, Verified, Filled
<1>3. LedgerOK /\ KeepOK
  BY DEF LedgerOK, KeepOK
<1>4. ActiveOK
  BY DEF ActiveOK, Good, OneSet, Whole, NotOlder, Away
<1> QED
  BY <1>1, <1>2, <1>3, <1>4 DEF IInv

\* The invariant of the proofs holds in every behaviour.
THEOREM Invariance == Spec => []IInv
<1>1. IInv /\ [Next]_vars => IInv'
  <2> SUFFICES ASSUME IInv, [Next]_vars PROVE IInv'
    OBVIOUS
  <2>1. TypeOK' /\ StagingOK' /\ ManifestOK' /\ PendingOK'
    BY TypeStep, StagingStep, ManifestStep, PendingStep
  <2>2. LedgerOK' /\ ActiveOK' /\ KeepOK'
    BY LedgerStep, ActiveStep, KeepStep
  <2> QED
    BY <2>1, <2>2 DEF IInv
<1> QED
  BY InitIInv, <1>1, PTL DEF Spec

\* Every variable has its type, through crashes at every point.
THEOREM TypeCorrect == Spec => []TypeOK
<1>1. IInv => TypeOK
  BY DEF IInv
<1> QED
  BY Invariance, <1>1, PTL

\* The active directory never holds files of two providers or of two releases
\* of one (activate, update_pipeline.rs): what is pending was checked as one
\* set, and active is replaced as a whole.
THEOREM NeverMixedHolds == Spec => []NeverMixed
<1>1. IInv => NeverMixed
  BY DEF IInv, ActiveOK, Good, NeverMixed
<1> QED
  BY Invariance, <1>1, PTL

\* What is active is a complete release unless a rollback took files from it:
\* every file the manifest lists was pending before the swap.
THEOREM NeverPartialHolds == Spec => []NeverPartial
<1>1. IInv => NeverPartial
  BY DEF IInv, ActiveOK, Good, Whole, NeverPartial
<1> QED
  BY Invariance, <1>1, PTL

\* What is active is not older than what was since the ledger last read as
\* empty: the ledger is ahead of every set that was activated since, and a
\* manifest older than the baseline that was read is refused.
THEOREM NoDowngradeHolds == Spec => []NoDowngrade
<1>1. IInv => NoDowngrade
  BY DEF IInv, ActiveOK, Good, NotOlder, NoDowngrade
<1> QED
  BY Invariance, <1>1, PTL

\* A usable set is in the active directory or in its backup, unless a rollback
\* took it away or it was stranded in the backup.
THEOREM KeepsASetHolds == Spec => []KeepsASet
<1>1. IInv => KeepsASet
  BY DEF IInv, KeepOK, KeepsASet
<1> QED
  BY Invariance, <1>1, PTL

=============================================================================
