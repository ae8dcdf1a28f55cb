--------------------------- MODULE ReleaseSnapshots ---------------------------
(***************************************************************************)
(* The files that releases leave in deploy-backups/ (app/deploy_backups.py *)
(* as scripts/deploy-release.sh calls it): every release of an image saves *)
(* the database into a file of its own, only one that succeeds prunes, and *)
(* either command may fail or die on its way.  Release says what the       *)
(* scripts do besides; here each of their steps also changes the disk.     *)
(***************************************************************************)
EXTENDS Release, Sequences, FiniteSetsExt

CONSTANTS
  KeepReleases, KeepMigrations,  \* DEPLOY_BACKUP_KEEP_*
  MaxBytes,                      \* DEPLOY_BACKUP_MAX_BYTES
  Sizes,                         \* what a snapshot may take
  MaxFiles                       \* bound on the files on the disk

ASSUME SnapshotsAssumption ==
  /\ KeepReleases \in Nat \ {0} /\ KeepMigrations \in Nat \ {0}
  /\ MaxBytes \in Nat \ {0}
  /\ Sizes \subseteq Nat \ {0}
  /\ MaxFiles \in Nat

VARIABLE disk  \* the snapshot files, in the order of their mtime

allVars == <<vars, disk>>

-----------------------------------------------------------------------------
\* migration: the name tells of two schema versions; whole: written to its end
\* and validated; own: made by the script that ran last.
File == [migration : BOOLEAN, size : Sizes, whole : BOOLEAN, own : BOOLEAN]

SnapshotsTypeOK == disk \in Seq(File) /\ Len(disk) <= MaxFiles

SnapshotsInit == Init /\ disk = <<>>

\* The snapshot command of this script writes a file.
WriteFile(whole) ==
  /\ Len(disk) < MaxFiles
  /\ \E size \in Sizes :
       disk' = Append(disk, [migration |-> db.schema # SchemaOf[script.image],
                             size |-> size, whole |-> whole, own |-> TRUE])

-----------------------------------------------------------------------------
(* prune: the files are gone through from the newest to the oldest, each is  *)
(* kept or unlinked.  Files are named by their places on the disk.           *)

Of(kind, files) == {i \in files : disk[i].migration = kind}
Bytes(files) == MapThenSumSet(LAMBDA i : disk[i].size, files)

Limit(i) == IF disk[i].migration THEN KeepMigrations ELSE KeepReleases
Room(i, kept) == Cardinality(Of(disk[i].migration, kept)) < Limit(i)
Fits(i, kept) == Bytes(kept \union {i}) <= MaxBytes

\* Mistakes: no file is exempt from the limit on bytes; the newest of both
\* kinds is exempt, but not the numbers limited one by one.
KeepFitting(i, kept) == Room(i, kept) /\ Fits(i, kept)
KeepInAll(i, kept) ==
  /\ Cardinality(kept) < KeepReleases + KeepMigrations
  /\ kept = {} \/ (disk[i].migration /\ Of(TRUE, kept) = {}) \/ Fits(i, kept)

\* The newest file and the newest of a migration need not fit.
Keep(i, kept) ==
  /\ Room(i, kept)
  /\ kept = {} \/ (disk[i].migration /\ Of(TRUE, kept) = {}) \/ Fits(i, kept)

\* The loop goes from the newest file to the oldest: a file is kept in view of
\* the newer ones that are.
Kept(files) ==
  \A i \in DOMAIN disk : i \in files <=> Keep(i, {j \in files : j > i})

Leave(files) ==
  \E place \in [1..Cardinality(files) -> files] :
    /\ \A m, n \in DOMAIN place : m < n => place[m] < place[n]
    /\ files = {place[n] : n \in DOMAIN place}
    /\ disk' = [n \in DOMAIN place |-> disk[place[n]]]

\* Everything up to some file was gone through.
PruneFrom(oldest) ==
  \E files \in SUBSET DOMAIN disk : Kept(files) /\ Leave(files \union 1..oldest - 1)

-----------------------------------------------------------------------------
\* What a snapshot or prune that fails, or is killed, has done by then.
Partly ==
  \/ UNCHANGED disk
  \/ At("snapshot") /\ WriteFile(FALSE)
  \/ At("prune") /\ \E oldest \in DOMAIN disk : PruneFrom(oldest)

Disowned == [i \in DOMAIN disk |-> [disk[i] EXCEPT !.own = FALSE]]

OtherStep ==
  \/ Stop \/ StartCandidate \/ Accept \/ RemoveAccepted \/ CutOver \/ Check
  \/ RollBack \/ StopRelease \/ Restore \/ StartOld \/ Down

SnapshotsStep ==
  \/ OtherStep /\ UNCHANGED disk
  \/ SaveDatabase /\ WriteFile(TRUE)
  \/ Prune /\ PruneFrom(1)
  \/ Fail /\ Partly

Elsewhere ==
  \/ Tidy
  \/ \E c \in Slot : Migrate(c) \/ Serve(c)
  \/ Checkpoint
  \/ \E t \in Task : Upload(t)

SnapshotsNext ==
  \/ SnapshotsStep
  \/ Kill /\ Partly
  \/ (\E i \in Image : Begin(i)) /\ disk' = Disowned
  \/ Elsewhere /\ UNCHANGED disk

\* A script that is not killed goes on, every wait in it being bounded.
SnapshotsSpec ==
  SnapshotsInit /\ [][SnapshotsNext]_allVars /\ WF_allVars(SnapshotsStep)

-----------------------------------------------------------------------------
(* Properties *)

\* As long as a release may be rolled back, the snapshot it would go back to is
\* on the disk, whole: prune, which still runs under the trap, and its failures
\* leave it there (scripts/deploy-release.sh:46-48, 153-158).
SnapshotAtHand ==
  script.saved => \E i \in DOMAIN disk : disk[i].own /\ disk[i].whole

\* README.md:154-155: after a release there are no more files than may be kept
\* of either kind, and no more bytes, but for the newest snapshot and the newest
\* of a migration.
RetentionHolds ==
  report = "success" /\ At("idle") =>
    LET migrations == Of(TRUE, DOMAIN disk)
        exempt == {i \in DOMAIN disk :
                     \/ i = Len(disk)
                     \/ i \in migrations /\ \A j \in migrations : j <= i} IN
    /\ Cardinality(migrations) <= KeepMigrations
    /\ Cardinality(Of(FALSE, DOMAIN disk)) <= KeepReleases
    /\ Bytes(DOMAIN disk) <= MaxBytes \/ Bytes(DOMAIN disk \ exempt) < MaxBytes
=============================================================================
