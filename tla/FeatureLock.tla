------------------------------ MODULE FeatureLock ------------------------------
(***************************************************************************)
(* The feature lock of scripts/pipeline_driver_state.py: a file that names *)
(* its owner and the end of its lease.  It is created exclusively and then *)
(* filled; one that is expired or unreadable is overwritten; a release     *)
(* reads it and then removes it.                                           *)
(***************************************************************************)
EXTENDS Integers, FiniteSets

CONSTANTS
    Driver,        \* the processes that use the lock; each is an owner
    NoFile,        \* no lock file; also: a file that names nobody
    MaxLapses      \* bound on the leases that end and the drivers that die

ASSUME FeatureLockAssumption ==
    /\ IsFiniteSet(Driver) /\ NoFile \notin Driver /\ MaxLapses \in Nat
    /\ NoFile \notin [by : Driver, owner : Driver \cup {NoFile}, fresh : BOOLEAN]

VARIABLES
    lockFile,      \* NoFile, or who created it, whom it names, and whether the lease runs
    driver,        \* driver[d]: where driver d is, and the file as it read it
    lease,         \* lease[d]: "none", "runs" or "ended": what d was told it holds
    slipped,       \* whether two drivers ever created, overwrote or removed it at once
    lapses

lockVars == <<lockFile, driver, lease, slipped, lapses>>

Record(d, by) == [by |-> by, owner |-> d, fresh |-> TRUE]
Rest == [pc |-> "idle", saw |-> NoFile]
Past(d, pc) == driver' = [driver EXCEPT ![d].pc = pc]
Granted(d) ==
    /\ lease' = [lease EXCEPT ![d] = "runs"]
    /\ driver' = [driver EXCEPT ![d] = Rest]

LockInit ==
    /\ lockFile = NoFile /\ slipped = FALSE /\ lapses = 0
    /\ driver = [d \in Driver |-> Rest] /\ lease = [d \in Driver |-> "none"]

\* Drivers between what they found of the file and their last write to it.
Touching == { d \in Driver : driver[d].pc \in {"fill", "overwrite", "rewrite", "unlink"} }

Slips(d) == slipped' = (slipped \/ (Touching \ {d} # {} /\ d \in Touching'))

\* acquire_feature_lock: O_CREAT with O_EXCL, or somebody's file is there.
Create(d) ==
    /\ driver[d].pc = "idle"
    /\ IF lockFile = NoFile
       THEN lockFile' = [by |-> d, owner |-> NoFile, fresh |-> FALSE] /\ Past(d, "fill")
       ELSE Past(d, "read") /\ UNCHANGED lockFile
    /\ Slips(d)
    /\ UNCHANGED <<lease, lapses>>

\* What was created is filled, wherever it is by now; over another's record the
\* two may not make one.
Fill(d) ==
    /\ driver[d].pc = "fill"
    /\ \/ /\ lockFile # NoFile /\ lockFile.by = d
          /\ \/ lockFile' = Record(d, d)
             \/ lockFile.owner # NoFile /\ lockFile' = [Record(d, d) EXCEPT !.owner = NoFile]
       \/ (lockFile # NoFile => lockFile.by # d) /\ UNCHANGED lockFile
    /\ Granted(d)
    /\ UNCHANGED <<slipped, lapses>>

\* _is_stale_lock: no record, an unreadable one, or one that expired.
IsStale(file) == file # NoFile => file.owner = NoFile \/ ~file.fresh

\* The file is read: held by the caller, held by another, or to be overwritten.
ReadLock(d) ==
    /\ driver[d].pc = "read"
    /\ \/ /\ IsStale(lockFile)
          /\ driver' = [driver EXCEPT ![d] = [pc |-> "overwrite", saw |-> lockFile]]
          /\ UNCHANGED lease
       \/ ~IsStale(lockFile) /\ lockFile.owner = d /\ Granted(d)
       \/ ~IsStale(lockFile) /\ lockFile.owner # d
             /\ driver' = [driver EXCEPT ![d] = Rest] /\ UNCHANGED lease
    /\ Slips(d)
    /\ UNCHANGED <<lockFile, lapses>>

\* _write_lock_record: whatever the file is now; emptied first, and then filled.
Truncate(d) ==
    /\ driver[d].pc = "overwrite"
    /\ lockFile' = [by |-> IF lockFile = NoFile THEN d ELSE lockFile.by,
                    owner |-> NoFile, fresh |-> FALSE]
    /\ driver' = [driver EXCEPT ![d].pc = "rewrite", ![d].saw = lockFile']
    /\ UNCHANGED <<lease, slipped, lapses>>

Rewrite(d) ==
    /\ driver[d].pc = "rewrite"
    /\ lockFile' = IF lockFile # NoFile /\ lockFile.by = driver[d].saw.by
                   THEN Record(d, lockFile.by) ELSE lockFile
    /\ Granted(d)
    /\ UNCHANGED <<slipped, lapses>>

\* Mutant: whoever asks may release.
MayRelease_Any(d, file) == TRUE

MayRelease(d, file) == IsStale(file) \/ file.owner = d

\* release_feature_lock: the file is read ...
ReleaseLock(d) ==
    /\ driver[d].pc = "idle" /\ lease[d] # "none"
    /\ lease' = [lease EXCEPT ![d] = "none"]
    /\ IF lockFile # NoFile /\ MayRelease(d, lockFile)
       THEN driver' = [driver EXCEPT ![d] = [pc |-> "unlink", saw |-> lockFile]]
       ELSE UNCHANGED driver
    /\ Slips(d)
    /\ UNCHANGED <<lockFile, lapses>>

\* ... and whatever is there then is removed.
Unlink(d) ==
    /\ driver[d].pc = "unlink"
    /\ lockFile' = NoFile
    /\ driver' = [driver EXCEPT ![d] = Rest]
    /\ UNCHANGED <<lease, slipped, lapses>>

Lapse == lapses < MaxLapses /\ lapses' = lapses + 1

\* The lease ends; its holder, if there is one, may not know.
LeaseEnds(d) ==
    /\ Lapse /\ ~IsStale(lockFile) /\ lockFile.owner = d
    /\ lockFile' = [lockFile EXCEPT !.fresh = FALSE]
    /\ lease' = [lease EXCEPT ![d] = IF @ = "runs" THEN "ended" ELSE @]
    /\ UNCHANGED <<driver, slipped>>

\* A driver dies, wherever it is; the file stays.
Perish(d) ==
    /\ Lapse /\ (driver[d] # Rest \/ lease[d] # "none")
    /\ driver' = [driver EXCEPT ![d] = Rest] /\ lease' = [lease EXCEPT ![d] = "none"]
    /\ UNCHANGED <<lockFile, slipped>>

LockNext ==
    \E d \in Driver :
        \/ Create(d) \/ Fill(d) \/ ReadLock(d) \/ Truncate(d) \/ Rewrite(d)
        \/ ReleaseLock(d) \/ Unlink(d) \/ LeaseEnds(d) \/ Perish(d)

\* Where no two drivers ever created, overwrote or removed the file at once, one
\* lease runs at most, whatever ends or dies.
OneFeatureOwner == ~slipped => Cardinality({ d \in Driver : lease[d] = "runs" }) <= 1

\* What the lock is for.
FeatureIsAlone == Cardinality({ d \in Driver : lease[d] = "runs" }) <= 1
===============================================================================
