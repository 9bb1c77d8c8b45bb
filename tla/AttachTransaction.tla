------------------------- MODULE AttachTransaction -------------------------
(***************************************************************************)
(* The write phase of attaching a container: the end of                    *)
(* AttachmentMetadataService.attach_container_metadata with the            *)
(* AttachmentTransactionCoordinator it calls (ensure_backup,               *)
(* write_graphs_transactionally, restore, discard_backup), and the except  *)
(* clause of the handler's execute, which calls rollback_attachment.       *)
(*                                                                         *)
(* The files 1..N are the payloads in the order the code visits them:      *)
(* container.ttl, storage.ttl and the dataset graphs.  Every operation on  *)
(* a file may fail, and the process may be killed between two of them.     *)
(***************************************************************************)
EXTENDS Naturals

CONSTANT N      \* graph files of the attachment

ASSUME FilesAssumption == N \in Nat \ {0}

Files == 1..N

VARIABLES
    loop,       \* the loop that runs
    at,         \* its next file
    file,       \* content of each graph file
    temp,       \* the temporary beside each file
    backup,     \* the copy of each file in the backup directory
    failed,     \* some file of the running loop could not be written back
    attempt,    \* how often restore has run
    ending      \* how the attachment ended

ATVars == <<loop, at, file, temp, backup, failed, attempt, ending>>

Contents == {"old", "new", "torn"}

Loops == {"backup", "temps", "replace", "undo", "cleanup", "restore",
          "keep_new", "keep_old", "end"}

Endings == {"none", "attached", "restored", "restored_late", "rollback_failed",
             "backup_failed", "crashed"}

Absent == [f \in Files |-> "none"]

\* Mutant of Advance: the loop runs one file too far.
AdvancePast(next) ==
    IF at <= N THEN at' = at + 1 /\ loop' = loop ELSE at' = 1 /\ loop' = next

\* A loop in which every operation has been done hands over to `next`.
Advance(next) ==
    IF at < N THEN at' = at + 1 /\ loop' = loop ELSE at' = 1 /\ loop' = next

Enter(next) == at' = 1 /\ loop' = next

End(o) == loop' = "end" /\ at' = 1 /\ ending' = o

\* Every graph file exists: attach_container_metadata has just parsed it, so
\* that write_graphs_transactionally has the original bytes of each.
ATInit ==
    /\ loop = "backup" /\ at = 1
    /\ file = [f \in Files |-> "old"]
    /\ temp = Absent
    /\ backup = Absent
    /\ failed = "no"
    /\ attempt = 0
    /\ ending = "none"

-----------------------------------------------------------------------------
(* ensure_backup                                                           *)

BackupFile ==
    /\ loop = "backup"
    /\ backup' = [backup EXCEPT ![at] = file[at]]
    /\ Advance("temps")
    /\ UNCHANGED <<file, temp, failed, attempt, ending>>

\* The copy fails: the backup directory goes and the error leaves
\* attach_container_metadata before anything is written.
BackupFails ==
    /\ loop = "backup"
    /\ backup' = Absent
    /\ End("backup_failed")
    /\ UNCHANGED <<file, temp, failed, attempt>>

-----------------------------------------------------------------------------
(* write_graphs_transactionally                                            *)

WriteTemporary ==
    /\ loop = "temps"
    /\ temp' = [temp EXCEPT ![at] = "new"]
    /\ Advance("replace")
    /\ UNCHANGED <<file, backup, failed, attempt, ending>>

\* Nothing, or part of the temporary, was written.
TemporaryFails ==
    /\ loop = "temps"
    /\ \E t \in {"none", "torn"} : temp' = [temp EXCEPT ![at] = t]
    /\ Enter("undo")
    /\ UNCHANGED <<file, backup, failed, attempt, ending>>

\* temporary.replace(path); after the last file the finally clause finds no
\* temporary.
ReplaceFile ==
    /\ loop = "replace"
    /\ file' = [file EXCEPT ![at] = temp[at]]
    /\ temp' = [temp EXCEPT ![at] = "none"]
    /\ Advance("keep_new")
    /\ UNCHANGED <<backup, failed, attempt, ending>>

\* Mutant of ReplaceFails: the backup is discarded whether or not the write succeeded.
ReplaceFailsDiscards ==
    /\ loop = "replace"
    /\ Enter("undo")
    /\ backup' = Absent
    /\ UNCHANGED <<file, temp, failed, attempt, ending>>

\* Mutant of ReplaceFails: the files already replaced are not written back.
ReplaceFailsKeeps ==
    /\ loop = "replace"
    /\ Enter("keep_old")
    /\ UNCHANGED <<file, temp, backup, failed, attempt, ending>>

\* A file cannot be replaced: the files that were are undone.
ReplaceFails ==
    /\ loop = "replace"
    /\ Enter("undo")
    /\ UNCHANGED <<file, temp, backup, failed, attempt, ending>>

\* The except clause writes every file's original bytes back.
UndoFile ==
    /\ loop = "undo"
    /\ file' = [file EXCEPT ![at] = "old"]
    /\ Advance("cleanup")
    /\ UNCHANGED <<temp, backup, failed, attempt, ending>>

\* path.write_bytes fails before or after it has truncated the file.
UndoFails ==
    /\ loop = "undo"
    /\ \E t \in {file[at], "torn"} : file' = [file EXCEPT ![at] = t]
    /\ Advance("cleanup")
    /\ UNCHANGED <<temp, backup, failed, attempt, ending>>

\* The finally clause unlinks the temporaries it knows of: the ones that were
\* written to the end.
CleanTemporary ==
    /\ loop = "cleanup"
    /\ temp' = [temp EXCEPT ![at] = IF @ = "torn" THEN @ ELSE "none"]
    /\ Advance("restore")
    /\ UNCHANGED <<file, backup, failed, attempt, ending>>

\* An unlink raises, and the temporaries after it stay.
CleanFails ==
    /\ loop = "cleanup"
    /\ temp[at] = "new"
    /\ Enter("restore")
    /\ UNCHANGED <<file, temp, backup, failed, attempt, ending>>

-----------------------------------------------------------------------------
(* restore, called by attach_container_metadata and again, when it raised, *)
(* by the handler's rollback_attachment                                    *)

\* Mutant of EndRestore: a failed restore is tried until it succeeds.
RestoreAgain(anyFailed) ==
    IF anyFailed = "no"
       THEN Enter("keep_old") /\ UNCHANGED <<failed, attempt, ending>>
       ELSE Enter("restore") /\ failed' = "no" /\ UNCHANGED <<attempt, ending>>

\* What restore does after the last file, given whether a copy failed.
EndRestore(anyFailed) ==
    IF anyFailed = "no"
       THEN Enter("keep_old") /\ UNCHANGED <<failed, attempt, ending>>
       ELSE IF attempt = 0
            THEN Enter("restore") /\ attempt' = 1 /\ failed' = "no" /\ UNCHANGED ending
            ELSE End("rollback_failed") /\ UNCHANGED <<failed, attempt>>

\* Mutant of NextRestore: only the last file's failure is remembered.
NextRestoreForgets(anyFailed) ==
    IF at < N
       THEN at' = at + 1 /\ UNCHANGED <<loop, failed, attempt, ending>>
       ELSE EndRestore(anyFailed)

\* restore goes on with the next file, whether or not the copy failed.
NextRestore(anyFailed) ==
    IF at < N
       THEN at' = at + 1 /\ failed' = anyFailed /\ UNCHANGED <<loop, attempt, ending>>
       ELSE EndRestore(anyFailed)

RestoreFile ==
    /\ loop = "restore"
    /\ file' = [file EXCEPT ![at] = backup[at]]
    /\ NextRestore(failed)
    /\ UNCHANGED <<temp, backup>>

\* shutil.copy2 fails before or after it has truncated the file.
RestoreFails ==
    /\ loop = "restore"
    /\ \E t \in {file[at], "torn"} : file' = [file EXCEPT ![at] = t]
    /\ NextRestore("yes")
    /\ UNCHANGED <<temp, backup>>

\* discard_backup, at the end of a restore and after a complete write.
DiscardBackup ==
    /\ \/ loop = "keep_new" /\ End("attached")
       \/ loop = "keep_old" /\ End(IF attempt = 0 THEN "restored" ELSE "restored_late")
    /\ backup' = Absent
    /\ UNCHANGED <<file, temp, failed, attempt>>

-----------------------------------------------------------------------------
\* The process is killed; a file it was writing in place may be torn, and the
\* backups it was discarding partly gone.
Kill ==
    /\ loop # "end"
    /\ \/ UNCHANGED <<file, backup>>
       \/ /\ loop \in {"undo", "restore"}
          /\ file' = [file EXCEPT ![at] = "torn"]
          /\ UNCHANGED backup
       \/ /\ loop \in {"keep_new", "keep_old"}
          /\ backup' \in [Files -> {"old", "none"}]
          /\ UNCHANGED file
    /\ End("crashed")
    /\ UNCHANGED <<temp, failed, attempt>>

ATStep ==
    \/ BackupFile \/ BackupFails
    \/ WriteTemporary \/ TemporaryFails \/ ReplaceFile \/ ReplaceFails
    \/ UndoFile \/ UndoFails \/ CleanTemporary \/ CleanFails
    \/ RestoreFile \/ RestoreFails \/ DiscardBackup

ATNext == ATStep \/ Kill

ATSpec == ATInit /\ [][ATNext]_ATVars

\* The attachment runs in the foreground of one process: it is scheduled.
ATFairSpec == ATSpec /\ WF_ATVars(ATStep)

-----------------------------------------------------------------------------
(* Properties                                                              *)

\* Every variable has a value of its kind; a file that exists holds the old
\* graph, the new one or a prefix.
ATTypeOK ==
    /\ loop \in Loops
    /\ at \in Files
    /\ file \in [Files -> Contents]
    /\ temp \in [Files -> {"none", "new", "torn"}]
    /\ backup \in [Files -> {"none", "old"}]
    /\ failed \in {"no", "yes"}
    /\ attempt \in 0..1
    /\ ending \in Endings

AllNew == \A f \in Files : file[f] = "new"

AllOriginal == \A f \in Files : file[f] = "old"

BackedUp == \A f \in Files : backup[f] = "old"

\* metadata.py:48, "failure is atomic - either every graph file is updated
\* together, or the backup [...] is restored": an attachment that reports success
\* has rewritten every file and left no temporary; one that failed and was undone,
\* at the first or at the second restore, has every file as it was.
OutcomeIsTrue ==
    /\ ending = "attached" => AllNew /\ temp = Absent
    /\ ending \in {"restored", "restored_late", "backup_failed"} => AllOriginal

\* Whenever the graph files are neither all as they were nor all rewritten, also
\* after a crash or a failed rollback, the backup directory holds the original of
\* every file: discard_backup never comes too early.
Recoverable == ~AllOriginal /\ ~AllNew => BackedUp

\* The attachment ends, whichever operations fail: restore is tried twice at most.
AttachmentEnds == <>(loop = "end")

\* The files as the abstract specification sees them once the command ended.
Abstract == INSTANCE AtomicAttach WITH
    result <- IF ending = "none" THEN "pending"
              ELSE IF ending = "attached" THEN "attached"
              ELSE IF ending = "restored" THEN "refused" ELSE "unknown",
    graphs <- IF ending = "none" \/ AllOriginal THEN "original"
              ELSE IF AllNew THEN "rewritten" ELSE "mixed"

\* The transaction implements the promise of AtomicAttach: success and refusal
\* are reported of all the graph files or of none of them.
ImplementsAtomicAttach == Abstract!Spec
=============================================================================
