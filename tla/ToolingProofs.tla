----------------------------- MODULE ToolingProofs -----------------------------
(***************************************************************************)
(* Proofs about the parts of Tooling that share nothing: the feature lock, *)
(* the numbering of features, the warm agents of the tasking chain, the    *)
(* QA loop, the code graph and the game, each by an invariant of its own;  *)
(* and the theorems about the whole, with the invariants of ServerProofs.  *)
(***************************************************************************)
EXTENDS Tooling, ServerProofs, FunctionTheorems

(***************************************************************************)
(* The feature lock.  OneFeatureOwner alone is not inductive: a driver at  *)
(* the file has to know what it is, and that no other is at it.            *)
(***************************************************************************)

LockRecord == [by : Driver, owner : Driver \cup {NoFile}, fresh : BOOLEAN]
DriverPC == {"idle", "fill", "read", "overwrite", "rewrite", "unlink"}
DriverState == [pc : DriverPC, saw : LockRecord \cup {NoFile}]

LockTypeOK ==
    /\ lockFile \in LockRecord \cup {NoFile}
    /\ driver \in [Driver -> DriverState]
    /\ lease \in [Driver -> {"none", "runs", "ended"}]
    /\ slipped \in BOOLEAN

\* What driver d knows of the file.
Knows(d) ==
    /\ lease[d] = "runs" => ~IsStale(lockFile) /\ lockFile.owner = d
    /\ driver[d].pc = "fill" =>
         lockFile # NoFile /\ lockFile.by = d /\ lockFile.owner = NoFile
    /\ driver[d].pc = "overwrite" => IsStale(lockFile)
    /\ driver[d].pc = "rewrite" =>
         /\ lockFile # NoFile /\ lockFile.owner = NoFile
         /\ lockFile.by = driver[d].saw.by
    /\ driver[d].pc = "unlink" =>
         lease[d] = "none" /\ (IsStale(lockFile) \/ lockFile.owner = d)

TouchAlone == \A d, e \in Touching : d = e

LockInv ==
    /\ LockTypeOK
    /\ ~slipped => TouchAlone /\ \A d \in Driver : Knows(d)

LEMMA LockRecords ==
    /\ NoFile \notin LockRecord
    /\ \A by \in Driver, o \in Driver \cup {NoFile}, fresh \in BOOLEAN :
         [by |-> by, owner |-> o, fresh |-> fresh] \in LockRecord
    /\ \A r \in LockRecord :
         /\ r.by \in Driver /\ r.owner \in Driver \cup {NoFile} /\ r.fresh \in BOOLEAN
         /\ [r EXCEPT !.fresh = FALSE] \in LockRecord
         /\ [r EXCEPT !.owner = NoFile] \in LockRecord
  BY FeatureLockAssumption DEF LockRecord

LEMMA RestState == Rest \in DriverState
  BY DEF Rest, DriverState, DriverPC

LEMMA LockInvInit == LockInit => LockInv
<1> SUFFICES ASSUME LockInit PROVE LockInv
  OBVIOUS
<1>1. driver \in [Driver -> DriverState] /\ lease \in [Driver -> {"none", "runs", "ended"}]
  BY RestState DEF LockInit
<1>2. \A d \in Driver : driver[d].pc = "idle" /\ lease[d] = "none"
  BY DEF LockInit, Rest
<1> QED BY <1>1, <1>2 DEF LockInv, LockTypeOK, TouchAlone, Touching, Knows, LockInit

\* One driver moves to pc; what it saw stays.
LEMMA DriverMoves ==
    ASSUME LockTypeOK, NEW d \in Driver, NEW pc \in DriverPC,
           driver' = [driver EXCEPT ![d].pc = pc]
    PROVE  /\ driver' \in [Driver -> DriverState]
           /\ driver'[d].pc = pc /\ driver'[d].saw = driver[d].saw
           /\ \A e \in Driver : e # d => driver'[e] = driver[e]
<1>1. driver[d] \in DriverState
  BY DEF LockTypeOK
<1> DEFINE s == [driver[d] EXCEPT !.pc = pc]
<1>2. s \in DriverState /\ s.pc = pc /\ s.saw = driver[d].saw
  BY <1>1 DEF DriverState
<1>3. driver' = [driver EXCEPT ![d] = s]
  OBVIOUS
<1> HIDE DEF s
<1> QED BY <1>2, <1>3 DEF LockTypeOK

LEMMA CreateInv == ASSUME LockInv, NEW d \in Driver, Create(d) PROVE LockInv'
<1>1. CASE lockFile = NoFile
  <2>1. /\ lockFile' = [by |-> d, owner |-> NoFile, fresh |-> FALSE] 
        /\ driver' = [driver EXCEPT ![d].pc = "fill"] /\ lease' = lease
    BY <1>1 DEF Create, Past
  <2>2. /\ driver' \in [Driver -> DriverState]
        /\ driver'[d].pc = "fill"
        /\ \A e \in Driver : e # d => driver'[e] = driver[e]
    BY <2>1, DriverMoves DEF LockInv, DriverPC
  <2>3. /\ lockFile' \in LockRecord /\ lockFile' # NoFile
        /\ lockFile'.by = d /\ lockFile'.owner = NoFile
    BY <2>1, LockRecords
  <2>4. slipped' = (slipped \/ (Touching \ {d} # {} /\ d \in Touching'))
    BY DEF Create, Slips
  <2>5. LockTypeOK'
    BY <2>1, <2>2, <2>3, <2>4 DEF LockInv, LockTypeOK
  <2>6. ASSUME ~slipped' PROVE TouchAlone' /\ \A e \in Driver : Knows(e)'
    <3>1. ~slipped /\ Touching' = {d}
      BY <2>2, <2>4, <2>6 DEF Touching
    <3>2. \A e \in Driver : lease[e] # "runs"
      BY <1>1, <3>1 DEF LockInv, Knows, IsStale
    <3>3. \A e \in Driver : e # d => driver'[e].pc \notin {"fill", "overwrite", "rewrite", "unlink"}
      BY <3>1 DEF Touching
    <3> QED BY <2>1, <2>2, <2>3, <3>1, <3>2, <3>3 DEF TouchAlone, Knows
  <2> QED BY <2>5, <2>6 DEF LockInv
<1>2. CASE lockFile # NoFile
  <2>1. lockFile' = lockFile /\ driver' = [driver EXCEPT ![d].pc = "read"] /\ lease' = lease
    BY <1>2 DEF Create, Past
  <2>2. /\ driver' \in [Driver -> DriverState]
        /\ driver'[d].pc = "read"
        /\ \A e \in Driver : e # d => driver'[e] = driver[e]
    BY <2>1, DriverMoves DEF LockInv, DriverPC
  <2>3. Touching' \subseteq Touching
    BY <2>2 DEF Touching
  <2>4. slipped' = (slipped \/ (Touching \ {d} # {} /\ d \in Touching')) /\ d \notin Touching'
    BY <2>2 DEF Create, Slips, Touching
  <2> QED BY <2>1, <2>2, <2>3, <2>4 DEF LockInv, LockTypeOK, TouchAlone, Knows
<1> QED BY <1>1, <1>2

\* Two drivers at the file are one while the lock has not slipped.
LEMMA OthersAway ==
    ASSUME LockInv, ~slipped, NEW d \in Touching, NEW e \in Driver, e # d
    PROVE  driver[e].pc \notin {"fill", "overwrite", "rewrite", "unlink"}
  BY DEF LockInv, TouchAlone, Touching

\* A driver that was at the file changes it, and no lease of another runs.
LEMMA FileChanges ==
    ASSUME LockInv, NEW d \in Touching, slipped' = slipped,
           lockFile' \in LockRecord \cup {NoFile},
           driver' \in [Driver -> DriverState],
           \A e \in Driver : e # d => driver'[e] = driver[e] /\ lease'[e] = lease[e],
           lease' \in [Driver -> {"none", "runs", "ended"}],
           ~slipped => Knows(d)' /\ \A e \in Driver : e # d => lease[e] # "runs"
    PROVE  LockInv'
<1>1. LockTypeOK'
  BY DEF LockInv, LockTypeOK
<1>2. ASSUME ~slipped' PROVE TouchAlone' /\ \A e \in Driver : Knows(e)'
  <2>1. \A e \in Driver : e # d => driver'[e].pc \notin {"fill", "overwrite", "rewrite", "unlink"}
    BY <1>2, OthersAway
  <2>2. \A x \in Touching' : x = d
    BY <2>1 DEF Touching
  <2>3. \A e \in Driver : Knows(e)'
    BY <1>2, <2>1 DEF Knows
  <2> QED BY <2>2, <2>3 DEF TouchAlone
<1> QED BY <1>1, <1>2 DEF LockInv

\* A driver is granted the lock.
LEMMA GrantMoves ==
    ASSUME LockTypeOK, NEW d \in Driver, Granted(d)
    PROVE  /\ driver' \in [Driver -> DriverState] /\ driver'[d].pc = "idle"
           /\ lease' \in [Driver -> {"none", "runs", "ended"}] /\ lease'[d] = "runs"
           /\ \A e \in Driver : e # d => driver'[e] = driver[e] /\ lease'[e] = lease[e]
<1>1. driver' = [driver EXCEPT ![d] = Rest] /\ lease' = [lease EXCEPT ![d] = "runs"]
  BY DEF Granted
<1>2. Rest \in DriverState /\ Rest.pc = "idle"
  BY RestState DEF Rest
<1> QED BY <1>1, <1>2 DEF LockTypeOK

LEMMA RecordNames ==
    ASSUME NEW d \in Driver, NEW by \in Driver
    PROVE  /\ Record(d, by) \in LockRecord
           /\ ~IsStale(Record(d, by)) /\ Record(d, by).owner = d
           /\ [Record(d, by) EXCEPT !.owner = NoFile] \in LockRecord
<1>1. Record(d, by) \in LockRecord
  BY LockRecords DEF Record
<1>2. Record(d, by).owner = d /\ Record(d, by).fresh
  BY DEF Record
<1> QED BY <1>1, <1>2, LockRecords, FeatureLockAssumption DEF IsStale

LEMMA FillInv == ASSUME LockInv, NEW d \in Driver, Fill(d) PROVE LockInv'
<1>1. d \in Touching /\ slipped' = slipped
  BY DEF Fill, Touching
<1>2. /\ driver' \in [Driver -> DriverState] /\ driver'[d].pc = "idle"
      /\ lease' \in [Driver -> {"none", "runs", "ended"}] /\ lease'[d] = "runs"
      /\ \A e \in Driver : e # d => driver'[e] = driver[e] /\ lease'[e] = lease[e]
  BY GrantMoves DEF LockInv, Fill
<1>3. lockFile' \in LockRecord \cup {NoFile}
  BY RecordNames DEF Fill, LockInv, LockTypeOK
<1>4. ASSUME ~slipped PROVE Knows(d)' /\ \A e \in Driver : e # d => lease[e] # "runs"
  <2>1. lockFile # NoFile /\ lockFile.by = d /\ lockFile.owner = NoFile
    BY <1>4 DEF LockInv, Knows, Fill
  <2>2. lockFile' = Record(d, d)
    BY <2>1 DEF Fill
  <2>3. \A e \in Driver : lease[e] # "runs"
    BY <1>4, <2>1 DEF LockInv, Knows, IsStale
  <2>4. ~IsStale(lockFile') /\ lockFile'.owner = d
    BY <2>2, RecordNames
  <2> QED BY <1>2, <2>3, <2>4 DEF Knows
<1> QED BY <1>1, <1>2, <1>3, <1>4, FileChanges

LEMMA ReadLockInv == ASSUME LockInv, NEW d \in Driver, ReadLock(d) PROVE LockInv'
<1>1. lockFile' = lockFile /\ driver[d].pc = "read"
  BY DEF ReadLock
<1>2. slipped' = (slipped \/ (Touching \ {d} # {} /\ d \in Touching'))
  BY DEF ReadLock, Slips
<1>3. CASE IsStale(lockFile)
  <2> DEFINE s == [pc |-> "overwrite", saw |-> lockFile]
  <2>1. driver' = [driver EXCEPT ![d] = s] /\ lease' = lease
    BY <1>3 DEF ReadLock
  <2>2. s \in DriverState /\ s.pc = "overwrite"
    BY DEF LockInv, LockTypeOK, DriverState, DriverPC
  <2> HIDE DEF s
  <2>3. /\ driver' \in [Driver -> DriverState] /\ driver'[d].pc = "overwrite"
        /\ \A e \in Driver : e # d => driver'[e] = driver[e]
    BY <2>1, <2>2 DEF LockInv, LockTypeOK
  <2>4. LockTypeOK'
    BY <1>1, <1>2, <2>1, <2>3 DEF LockInv, LockTypeOK
  <2>5. ASSUME ~slipped' PROVE TouchAlone' /\ \A e \in Driver : Knows(e)'
    <3>1. ~slipped /\ Touching' = {d}
      BY <1>2, <2>3, <2>5 DEF Touching
    <3>2. \A e \in Driver : e # d => driver'[e].pc \notin {"fill", "overwrite", "rewrite", "unlink"}
      BY <3>1 DEF Touching
    <3>3. \A e \in Driver : lease[e] # "runs"
      BY <1>3, <3>1 DEF LockInv, Knows
    <3> QED BY <1>1, <1>3, <2>1, <2>3, <3>1, <3>2, <3>3 DEF TouchAlone, Knows
  <2> QED BY <2>4, <2>5 DEF LockInv
<1>4. CASE ~IsStale(lockFile) /\ lockFile.owner = d
  <2>1. /\ driver' \in [Driver -> DriverState] /\ driver'[d].pc = "idle"
        /\ lease' \in [Driver -> {"none", "runs", "ended"}] /\ lease'[d] = "runs"
        /\ \A e \in Driver : e # d => driver'[e] = driver[e] /\ lease'[e] = lease[e]
    BY <1>4, GrantMoves DEF LockInv, ReadLock
  <2>2. Touching' \subseteq Touching /\ d \notin Touching'
    BY <2>1 DEF Touching
  <2> QED BY <1>1, <1>2, <1>4, <2>1, <2>2 DEF LockInv, LockTypeOK, TouchAlone, Knows
<1>5. CASE ~IsStale(lockFile) /\ lockFile.owner # d
  <2>1. driver' = [driver EXCEPT ![d] = Rest] /\ lease' = lease
    BY <1>5 DEF ReadLock
  <2>2. Rest \in DriverState /\ Rest.pc = "idle"
    BY RestState DEF Rest
  <2>3. /\ driver' \in [Driver -> DriverState] /\ driver'[d].pc = "idle"
        /\ \A e \in Driver : e # d => driver'[e] = driver[e]
    BY <2>1, <2>2 DEF LockInv, LockTypeOK
  <2>4. Touching' \subseteq Touching /\ d \notin Touching'
    BY <2>3 DEF Touching
  <2> QED BY <1>1, <1>2, <2>1, <2>3, <2>4 DEF LockInv, LockTypeOK, TouchAlone, Knows
<1> QED BY <1>3, <1>4, <1>5

LEMMA TruncateInv == ASSUME LockInv, NEW d \in Driver, Truncate(d) PROVE LockInv'
<1> DEFINE file == [by |-> IF lockFile = NoFile THEN d ELSE lockFile.by,
                    owner |-> NoFile, fresh |-> FALSE]
<1>1. d \in Touching /\ slipped' = slipped /\ lease' = lease
  BY DEF Truncate, Touching
<1>2. lockFile' = file /\ driver' = [driver EXCEPT ![d].pc = "rewrite", ![d].saw = file]
  BY DEF Truncate
<1>3. file \in LockRecord /\ file.owner = NoFile
  BY LockRecords DEF LockInv, LockTypeOK
<1> HIDE DEF file
<1> DEFINE s == [[driver[d] EXCEPT !.pc = "rewrite"] EXCEPT !.saw = file]
<1>4. s \in DriverState /\ s.pc = "rewrite" /\ s.saw = file
  BY <1>3 DEF LockInv, LockTypeOK, DriverState, DriverPC
<1>5. driver' = [driver EXCEPT ![d] = s]
  BY <1>2 DEF LockInv, LockTypeOK
<1> HIDE DEF s
<1>6. /\ driver' \in [Driver -> DriverState]
      /\ driver'[d].pc = "rewrite" /\ driver'[d].saw = file
      /\ \A e \in Driver : e # d => driver'[e] = driver[e]
  BY <1>4, <1>5 DEF LockInv, LockTypeOK
<1>7. ASSUME ~slipped PROVE Knows(d)' /\ \A e \in Driver : e # d => lease[e] # "runs"
  <2>1. \A e \in Driver : lease[e] # "runs"
    BY <1>7 DEF LockInv, Knows, Truncate
  <2>2. lockFile' # NoFile
    BY <1>2, <1>3, LockRecords
  <2> QED BY <1>1, <1>2, <1>3, <1>6, <2>1, <2>2 DEF Knows
<1>8. /\ lockFile' \in LockRecord \cup {NoFile}
      /\ lease' \in [Driver -> {"none", "runs", "ended"}]
  BY <1>1, <1>2, <1>3 DEF LockInv, LockTypeOK
<1> QED BY <1>1, <1>6, <1>7, <1>8, FileChanges

LEMMA RewriteInv == ASSUME LockInv, NEW d \in Driver, Rewrite(d) PROVE LockInv'
<1>1. d \in Touching /\ slipped' = slipped
  BY DEF Rewrite, Touching
<1>2. /\ driver' \in [Driver -> DriverState] /\ driver'[d].pc = "idle"
      /\ lease' \in [Driver -> {"none", "runs", "ended"}] /\ lease'[d] = "runs"
      /\ \A e \in Driver : e # d => driver'[e] = driver[e] /\ lease'[e] = lease[e]
  BY GrantMoves DEF LockInv, Rewrite
<1>3. lockFile # NoFile => lockFile.by \in Driver
  BY LockRecords DEF LockInv, LockTypeOK
<1>4. lockFile' \in LockRecord \cup {NoFile}
  BY <1>3, RecordNames DEF Rewrite, LockInv, LockTypeOK
<1>5. ASSUME ~slipped PROVE Knows(d)' /\ \A e \in Driver : e # d => lease[e] # "runs"
  <2>1. lockFile # NoFile /\ lockFile.owner = NoFile /\ lockFile.by = driver[d].saw.by
    BY <1>5 DEF LockInv, Knows, Rewrite
  <2>2. lockFile' = Record(d, lockFile.by)
    BY <2>1 DEF Rewrite
  <2>3. \A e \in Driver : lease[e] # "runs"
    BY <1>5, <2>1 DEF LockInv, Knows, IsStale
  <2>4. ~IsStale(lockFile') /\ lockFile'.owner = d
    BY <1>3, <2>1, <2>2, RecordNames
  <2> QED BY <1>2, <2>3, <2>4 DEF Knows
<1> QED BY <1>1, <1>2, <1>4, <1>5, FileChanges

LEMMA ReleaseLockInv == ASSUME LockInv, NEW d \in Driver, ReleaseLock(d) PROVE LockInv'
<1>1. /\ lockFile' = lockFile /\ driver[d].pc = "idle"
      /\ lease' = [lease EXCEPT ![d] = "none"]
  BY DEF ReleaseLock
<1>2. slipped' = (slipped \/ (Touching \ {d} # {} /\ d \in Touching'))
  BY DEF ReleaseLock, Slips
<1>3. /\ lease' \in [Driver -> {"none", "runs", "ended"}] /\ lease'[d] = "none"
      /\ \A e \in Driver : e # d => lease'[e] = lease[e]
  BY <1>1 DEF LockInv, LockTypeOK
<1>4. CASE lockFile # NoFile /\ MayRelease(d, lockFile)
  <2> DEFINE s == [pc |-> "unlink", saw |-> lockFile]
  <2>1. driver' = [driver EXCEPT ![d] = s]
    BY <1>4 DEF ReleaseLock
  <2>2. s \in DriverState /\ s.pc = "unlink"
    BY DEF LockInv, LockTypeOK, DriverState, DriverPC
  <2> HIDE DEF s
  <2>3. /\ driver' \in [Driver -> DriverState] /\ driver'[d].pc = "unlink"
        /\ \A e \in Driver : e # d => driver'[e] = driver[e]
    BY <2>1, <2>2 DEF LockInv, LockTypeOK
  <2>4. LockTypeOK'
    BY <1>1, <1>2, <1>3, <2>3 DEF LockInv, LockTypeOK
  <2>5. ASSUME ~slipped' PROVE TouchAlone' /\ \A e \in Driver : Knows(e)'
    <3>1. ~slipped /\ Touching' = {d}
      BY <1>2, <2>3, <2>5 DEF Touching
    <3>2. \A e \in Driver : e # d => driver'[e].pc \notin {"fill", "overwrite", "rewrite", "unlink"}
      BY <3>1 DEF Touching
    <3>3. IsStale(lockFile) \/ lockFile.owner = d
      BY <1>4 DEF MayRelease
    <3> QED BY <1>1, <1>3, <2>3, <3>1, <3>2, <3>3 DEF LockInv, TouchAlone, Knows
  <2> QED BY <2>4, <2>5 DEF LockInv
<1>5. CASE ~(lockFile # NoFile /\ MayRelease(d, lockFile))
  <2>1. driver' = driver
    BY <1>5 DEF ReleaseLock
  <2>2. Touching' = Touching /\ d \notin Touching
    BY <1>1, <2>1 DEF Touching
  <2> QED BY <1>1, <1>2, <1>3, <2>1, <2>2 DEF LockInv, LockTypeOK, TouchAlone, Knows
<1> QED BY <1>4, <1>5

LEMMA UnlinkInv == ASSUME LockInv, NEW d \in Driver, Unlink(d) PROVE LockInv'
<1>1. /\ d \in Touching /\ slipped' = slipped /\ lease' = lease
      /\ lockFile' = NoFile /\ driver' = [driver EXCEPT ![d] = Rest]
  BY DEF Unlink, Touching
<1>2. Rest \in DriverState /\ Rest.pc = "idle"
  BY RestState DEF Rest
<1>3. /\ driver' \in [Driver -> DriverState] /\ driver'[d].pc = "idle"
      /\ \A e \in Driver : e # d => driver'[e] = driver[e]
  BY <1>1, <1>2 DEF LockInv, LockTypeOK
<1>4. ASSUME ~slipped PROVE Knows(d)' /\ \A e \in Driver : e # d => lease[e] # "runs"
  <2>1. lease[d] = "none" /\ (IsStale(lockFile) \/ lockFile.owner = d)
    BY <1>4 DEF LockInv, Knows, Unlink
  <2>2. \A e \in Driver : e # d => lease[e] # "runs"
    BY <1>4, <2>1 DEF LockInv, Knows
  <2> QED BY <1>1, <1>3, <2>1, <2>2 DEF Knows
<1> QED BY <1>1, <1>3, <1>4, FileChanges DEF LockInv, LockTypeOK

LEMMA LeaseEndsInv == ASSUME LockInv, NEW d \in Driver, LeaseEnds(d) PROVE LockInv'
<1>1. /\ driver' = driver /\ slipped' = slipped
      /\ ~IsStale(lockFile) /\ lockFile.owner = d
      /\ lockFile' = [lockFile EXCEPT !.fresh = FALSE]
      /\ lease' = [lease EXCEPT ![d] = IF @ = "runs" THEN "ended" ELSE @]
  BY DEF LeaseEnds
<1>2. /\ lease' \in [Driver -> {"none", "runs", "ended"}] /\ lease'[d] # "runs"
      /\ lease[d] = "none" => lease'[d] = "none"
      /\ \A e \in Driver : e # d => lease'[e] = lease[e]
  BY <1>1 DEF LockInv, LockTypeOK
<1>3. lockFile # NoFile /\ lockFile.owner # NoFile /\ lockFile \in LockRecord
  BY <1>1 DEF IsStale, LockInv, LockTypeOK
<1>4. lockFile' \in LockRecord /\ ~lockFile'.fresh
  BY <1>1, <1>3, LockRecords DEF LockRecord
<1>5. IsStale(lockFile')
  BY <1>4 DEF IsStale
<1>6. ASSUME ~slipped PROVE \A e \in Driver : Knows(e)'
  BY <1>1, <1>2, <1>3, <1>5, <1>6 DEF LockInv, Knows
<1> QED BY <1>1, <1>2, <1>4, <1>6 DEF LockInv, LockTypeOK, TouchAlone, Touching

LEMMA PerishInv == ASSUME LockInv, NEW d \in Driver, Perish(d) PROVE LockInv'
<1>1. /\ driver' = [driver EXCEPT ![d] = Rest] /\ lease' = [lease EXCEPT ![d] = "none"]
      /\ lockFile' = lockFile /\ slipped' = slipped
  BY DEF Perish
<1>2. Rest \in DriverState /\ Rest.pc = "idle"
  BY RestState DEF Rest
<1>3. /\ driver' \in [Driver -> DriverState] /\ driver'[d].pc = "idle"
      /\ lease' \in [Driver -> {"none", "runs", "ended"}] /\ lease'[d] = "none"
      /\ \A e \in Driver : e # d => driver'[e] = driver[e] /\ lease'[e] = lease[e]
  BY <1>1, <1>2 DEF LockInv, LockTypeOK
<1>4. Touching' \subseteq Touching
  BY <1>3 DEF Touching
<1> QED BY <1>1, <1>3, <1>4 DEF LockInv, LockTypeOK, TouchAlone, Knows

LEMMA LockInvStep == LockInv /\ [LockNext]_lockVars => LockInv'
<1> SUFFICES ASSUME LockInv, [LockNext]_lockVars PROVE LockInv'
  OBVIOUS
<1>1. CASE UNCHANGED lockVars
  BY <1>1 DEF lockVars, LockInv, LockTypeOK, TouchAlone, Touching, Knows
<1>2. CASE LockNext
  BY <1>2, CreateInv, FillInv, ReadLockInv, TruncateInv, RewriteInv, ReleaseLockInv,
     UnlinkInv, LeaseEndsInv, PerishInv DEF LockNext
<1> QED BY <1>1, <1>2

LEMMA LockInvOneOwner == LockInv => OneFeatureOwner
<1> SUFFICES ASSUME LockInv, ~slipped
             PROVE  Cardinality({ d \in Driver : lease[d] = "runs" }) <= 1
  BY DEF OneFeatureOwner
<1>1. \A d, e \in { x \in Driver : lease[x] = "runs" } : d = e
  BY DEF LockInv, Knows
<1> QED BY <1>1, AtMostOne

(***************************************************************************)
(* The numbering of features.  That numbers differ has to be known of      *)
(* requests that have no directory yet (Claims), and what a specification  *)
(* holds at every step on the way to it (Keeps).                           *)
(***************************************************************************)

SpecPC == {"idle", "check", "mkdir", "copy", "read", "describe", "done", "filled",
           "refused", "killed"}
SpecText == {"none", "template", "described", "filled"}
DirState == [there : BOOLEAN, by : Requester \cup {NoRequester}, text : SpecText]
AskState == [pc : SpecPC, suffix : Suffix \cup {""}, number : Number,
             given : BOOLEAN, made : BOOLEAN, saw : DirState]

SpecifyTypeOK ==
    /\ spec \in [Number \X Suffix -> DirState]
    /\ request \in [Requester -> AskState]
    /\ crossed \subseteq SUBSET Requester

\* Where a request is, and what it has by then.
Begun(r) ==
    /\ request[r].pc = "idle" => ~request[r].given /\ ~request[r].made
    /\ request[r].pc # "idle" => request[r].suffix \in Suffix
    /\ request[r].pc \in {"check", "mkdir", "refused"} => ~request[r].made
    /\ request[r].pc \in {"copy", "read", "describe", "done", "filled"} => request[r].made
    /\ request[r].made => spec[DirOf(r)].there

\* A request that has its directory or may yet make it.
Claims(r) == request[r].pc \in {"check", "mkdir"} \/ request[r].made

NumbersDiffer ==
    \A r, q \in Requester :
        r # q /\ Apart(r, q) /\ Claims(r) /\ Claims(q) => request[r].number # request[q].number

Made(r, text) == [there |-> TRUE, by |-> r, text |-> text]

\* Its spec.md is what request r made of it so far.
Keeps(r) ==
    /\ request[r].pc \in {"read", "describe"} => spec[DirOf(r)] = Made(r, "template")
    /\ request[r].pc = "describe" => request[r].saw.text = "template"
    /\ request[r].pc = "done" => spec[DirOf(r)] = Made(r, "described")
    /\ request[r].pc = "filled" => spec[DirOf(r)] = Made(r, "filled")

AllApart(r) == \A q \in Requester \ {r} : Apart(r, q)

SpecifyInv ==
    /\ SpecifyTypeOK
    /\ \A r \in Requester : Begun(r)
    /\ NumbersDiffer
    /\ \A r \in Requester : AllApart(r) => Keeps(r)

LEMMA DirStates ==
    /\ NoDir \in DirState /\ ~NoDir.there
    /\ \A r \in Requester, text \in SpecText :
         /\ Made(r, text) \in DirState /\ Made(r, text).there /\ Made(r, text).text = text
    /\ \A s \in DirState :
         /\ [s EXCEPT !.there = TRUE] \in DirState /\ [s EXCEPT !.there = TRUE].there
         /\ s.there => [s EXCEPT !.there = TRUE] = s
  BY DEF NoDir, DirState, SpecText, Made

LEMMA NoRequestState ==
    /\ NoRequest \in AskState /\ NoRequest.pc = "idle" /\ ~NoRequest.given /\ ~NoRequest.made
    /\ NoRequest.suffix = ""
<1>1. 0 \in Number
  BY SpecifyAssumption DEF Number
<1>2. NoRequest.saw \in DirState
  BY DirStates DEF NoRequest
<1> QED BY <1>1, <1>2 DEF NoRequest, AskState, SpecPC

LEMMA SpecifyInvInit == SpecifyInit => SpecifyInv
<1> SUFFICES ASSUME SpecifyInit PROVE SpecifyInv
  OBVIOUS
<1>1. SpecifyTypeOK
  BY DirStates, NoRequestState DEF SpecifyInit, SpecifyTypeOK
<1>2. \A r \in Requester : request[r].pc = "idle" /\ ~request[r].given /\ ~request[r].made
  BY NoRequestState DEF SpecifyInit
<1>3. \A r \in Requester : Begun(r) /\ ~Claims(r) /\ Keeps(r)
  BY <1>2 DEF Begun, Claims, Keeps
<1> QED BY <1>1, <1>3 DEF SpecifyInv, NumbersDiffer

\* The state of request r once it goes to pc.
LEMMA AskMoves ==
    ASSUME SpecifyInv, NEW r \in Requester, NEW pc \in SpecPC, Goes(r, pc)
    PROVE  /\ request' \in [Requester -> AskState]
           /\ request'[r].pc = pc /\ request'[r].suffix = request[r].suffix
           /\ request'[r].number = request[r].number /\ request'[r].given = request[r].given
           /\ request'[r].made = request[r].made /\ request'[r].saw = request[r].saw
           /\ \A q \in Requester : q # r => request'[q] = request[q]
<1> DEFINE s == [request[r] EXCEPT !.pc = pc]
<1>1. /\ s \in AskState /\ s.pc = pc /\ s.suffix = request[r].suffix
      /\ s.number = request[r].number /\ s.given = request[r].given
      /\ s.made = request[r].made /\ s.saw = request[r].saw
  <2>1. request[r] \in AskState
    BY DEF SpecifyInv, SpecifyTypeOK
  <2> QED BY <2>1 DEF AskState
<1>2. request' = [request EXCEPT ![r] = s]
  BY DEF Goes
<1> HIDE DEF s
<1> QED BY <1>1, <1>2 DEF SpecifyInv, SpecifyTypeOK

LEMMA DirOfType ==
    ASSUME SpecifyInv, NEW r \in Requester, request[r].pc # "idle"
    PROVE  DirOf(r) \in Number \X Suffix
  BY DEF SpecifyInv, SpecifyTypeOK, Begun, AskState, DirOf

\* Two that are live and apart have two directories.
LEMMA DirsDiffer ==
    ASSUME SpecifyInv, NEW r \in Requester, NEW q \in Requester, r # q,
           Apart(r, q), Claims(r), Claims(q)
    PROVE  DirOf(r) # DirOf(q)
  BY DEF SpecifyInv, NumbersDiffer, DirOf

\* A request that keeps its number moves on, and may write its own directory.
LEMMA AskStep ==
    ASSUME SpecifyInv, NEW r \in Requester, request[r].pc # "idle",
           request' \in [Requester -> AskState], crossed' = crossed,
           \A q \in Requester : q # r => request'[q] = request[q],
           request'[r].suffix = request[r].suffix, request'[r].number = request[r].number,
           request'[r].given = request[r].given, request'[r].pc # "idle",
           Claims(r)' => Claims(r), Begun(r)', AllApart(r) => Keeps(r)',
           NEW s \in DirState, spec[DirOf(r)].there => s.there,
           spec' = spec \/ (Claims(r) /\ spec' = [spec EXCEPT ![DirOf(r)] = s])
    PROVE  SpecifyInv'
<1>1. DirOf(r) \in Number \X Suffix /\ DirOf(r)' = DirOf(r)
  BY DirOfType DEF DirOf
<1>2. \A q \in Requester : q # r => DirOf(q)' = DirOf(q)
  BY DEF DirOf
<1>3. SpecifyTypeOK'
  BY <1>1 DEF SpecifyInv, SpecifyTypeOK
<1>4. \A p, q \in Requester : Apart(p, q)' = Apart(p, q)
  BY DEF Apart
<1>5. \A q \in Requester : Claims(q)' => Claims(q)
  BY DEF Claims
<1>6. NumbersDiffer'
  <2>1. \A q \in Requester : request'[q].number = request[q].number
    OBVIOUS
  <2> QED BY <1>4, <1>5, <2>1 DEF SpecifyInv, NumbersDiffer
<1>7. \A d \in Number \X Suffix : spec[d].there => spec'[d].there
  BY <1>1 DEF SpecifyInv, SpecifyTypeOK
<1>8. ASSUME NEW q \in Requester PROVE Begun(q)'
  <2>1. CASE q = r
    BY <2>1
  <2>2. CASE q # r /\ request[q].pc = "idle"
    BY <2>2 DEF SpecifyInv, Begun
  <2>3. CASE q # r /\ request[q].pc # "idle"
    <3>1. DirOf(q) \in Number \X Suffix /\ request'[q] = request[q] /\ Begun(q)
      BY <2>3, DirOfType DEF SpecifyInv
    <3> QED BY <1>2, <1>7, <2>3, <3>1 DEF Begun
  <2> QED BY <2>1, <2>2, <2>3
<1>9. ASSUME NEW q \in Requester, AllApart(q)' PROVE Keeps(q)'
  <2>1. AllApart(q)
    BY <1>4, <1>9 DEF AllApart
  <2>2. CASE q = r
    BY <2>1, <2>2
  <2>3. CASE q # r
    <3>1. Keeps(q) /\ request'[q] = request[q] /\ DirOf(q)' = DirOf(q)
      BY <1>2, <2>1, <2>3 DEF SpecifyInv
    <3>2. CASE request[q].pc \in {"read", "describe", "done", "filled"}
      <4>1. Claims(q) /\ Begun(q) /\ DirOf(q) \in Number \X Suffix
        BY <3>2, DirOfType DEF SpecifyInv, Begun, Claims
      <4>2. Claims(r) => DirOf(r) # DirOf(q)
        <5>1. Apart(q, r)
          BY <2>1, <2>3 DEF AllApart
        <5> QED BY <2>3, <4>1, <5>1, DirsDiffer
      <4>3. spec'[DirOf(q)] = spec[DirOf(q)]
        BY <4>1, <4>2 DEF SpecifyInv, SpecifyTypeOK
      <4> QED BY <3>1, <4>3 DEF Keeps
    <3>3. CASE request[q].pc \notin {"read", "describe", "done", "filled"}
      BY <3>1, <3>3 DEF Keeps
    <3> QED BY <3>2, <3>3
  <2> QED BY <2>2, <2>3
<1> QED BY <1>3, <1>6, <1>8, <1>9 DEF SpecifyInv

\* A request goes on, its directory as it was.
LEMMA AskGoes ==
    ASSUME SpecifyInv, NEW r \in Requester, NEW pc \in SpecPC, Goes(r, pc),
           request[r].pc # "idle", crossed' = crossed,
           pc \in {"check", "mkdir", "refused"} => ~request[r].made,
           pc \in {"copy", "read", "describe", "done", "filled"} => request[r].made,
           pc # "idle", pc = "mkdir" => request[r].pc = "check", pc # "check",
           NEW s \in DirState, spec[DirOf(r)].there => s.there,
           spec' = spec \/ (Claims(r) /\ spec' = [spec EXCEPT ![DirOf(r)] = s]),
           AllApart(r) => Keeps(r)'
    PROVE  SpecifyInv'
<1>1. /\ request' \in [Requester -> AskState]
      /\ request'[r].pc = pc /\ request'[r].suffix = request[r].suffix
      /\ request'[r].number = request[r].number /\ request'[r].given = request[r].given
      /\ request'[r].made = request[r].made
      /\ \A q \in Requester : q # r => request'[q] = request[q]
  BY AskMoves
<1>2. Claims(r)' => Claims(r)
  BY <1>1 DEF Claims
<1>3. DirOf(r) \in Number \X Suffix /\ DirOf(r)' = DirOf(r) /\ Begun(r)
  BY <1>1, DirOfType DEF DirOf, SpecifyInv
<1>4. spec[DirOf(r)].there => spec'[DirOf(r)].there
  BY <1>3 DEF SpecifyInv, SpecifyTypeOK
<1>5. Begun(r)'
  BY <1>1, <1>3, <1>4 DEF Begun
<1> QED BY <1>1, <1>2, <1>5, AskStep

LEMMA ChecksMainInv == ASSUME SpecifyInv, NEW r \in Requester, ChecksMain(r) PROVE SpecifyInv'
<1>1. PICK pc \in {"mkdir", "refused"} : Goes(r, pc)
  BY DEF ChecksMain
<1>2. request[r].pc = "check" /\ ~request[r].made /\ spec' = spec /\ crossed' = crossed
  BY DEF ChecksMain, SpecifyInv, Begun
<1>3. request'[r].pc \in {"mkdir", "refused"}
  BY <1>1, AskMoves DEF SpecPC
<1>4. Keeps(r)'
  BY <1>3 DEF Keeps
<1>5. spec[DirOf(r)] \in DirState
  BY <1>2, DirOfType DEF SpecifyInv, SpecifyTypeOK
<1> QED BY <1>1, <1>2, <1>4, <1>5, AskGoes DEF SpecPC

LEMMA IsKilledInv == ASSUME SpecifyInv, NEW r \in Requester, IsKilled(r) PROVE SpecifyInv'
<1>1. /\ Goes(r, "killed") /\ request[r].pc # "idle" /\ spec' = spec /\ crossed' = crossed
  BY DEF IsKilled
<1>2. request'[r].pc = "killed"
  BY <1>1, AskMoves DEF SpecPC
<1>3. Keeps(r)'
  BY <1>2 DEF Keeps
<1>4. spec[DirOf(r)] \in DirState
  BY <1>1, DirOfType DEF SpecifyInv, SpecifyTypeOK
<1> QED BY <1>1, <1>3, <1>4, AskGoes DEF SpecPC

\* What a request makes of its directory is there afterwards.
LEMMA WritesDir ==
    ASSUME SpecifyInv, NEW r \in Requester, NEW pc \in {"read", "done", "filled"},
           NEW text \in SpecText, Goes(r, pc), request[r].made, request[r].pc # "idle",
           crossed' = crossed, spec' = [spec EXCEPT ![DirOf(r)] = Made(r, text)],
           pc = "read" => text = "template", pc = "done" => text = "described",
           pc = "filled" => text = "filled"
    PROVE  SpecifyInv'
<1>1. /\ request'[r].pc = pc /\ request'[r].number = request[r].number
      /\ request'[r].suffix = request[r].suffix
  BY AskMoves DEF SpecPC
<1>2. DirOf(r) \in Number \X Suffix /\ DirOf(r)' = DirOf(r)
  BY <1>1, DirOfType DEF DirOf
<1>3. spec'[DirOf(r)'] = Made(r, text)
  BY <1>2 DEF SpecifyInv, SpecifyTypeOK
<1>4. Keeps(r)'
  BY <1>1, <1>3 DEF Keeps
<1>5. Made(r, text) \in DirState /\ Made(r, text).there
  BY DirStates
<1>6. pc \in SpecPC /\ pc \notin {"idle", "check", "mkdir", "refused"} /\ Claims(r)
  BY DEF SpecPC, Claims
<1> QED BY <1>4, <1>5, <1>6, AskGoes

LEMMA CopiesTemplateInv ==
    ASSUME SpecifyInv, NEW r \in Requester, CopiesTemplate(r) PROVE SpecifyInv'
<1>1. /\ Goes(r, "read") /\ crossed' = crossed /\ request[r].pc = "copy"
      /\ spec' = [spec EXCEPT ![DirOf(r)] = Made(r, "template")]
  BY DEF CopiesTemplate, Made
<1>2. request[r].made
  BY <1>1 DEF SpecifyInv, Begun
<1> QED BY <1>1, <1>2, WritesDir DEF SpecText

LEMMA FillsSpecInv ==
    ASSUME SpecifyInv, NEW r \in Requester, FillsSpec(r) PROVE SpecifyInv'
<1>1. /\ Goes(r, "filled") /\ crossed' = crossed /\ request[r].pc = "done"
      /\ spec' = [spec EXCEPT ![DirOf(r)] = Made(r, "filled")]
  BY DEF FillsSpec, Made
<1>2. request[r].made
  BY <1>1 DEF SpecifyInv, Begun
<1> QED BY <1>1, <1>2, WritesDir DEF SpecText

LEMMA DescribesInv ==
    ASSUME SpecifyInv, NEW r \in Requester, Describes(r) PROVE SpecifyInv'
<1>1. Goes(r, "done") /\ crossed' = crossed /\ request[r].pc = "describe" /\ request[r].made
  BY DEF Describes, SpecifyInv, Begun
<1>2. CASE request[r].saw.text = "template"
  <2>1. spec' = [spec EXCEPT ![DirOf(r)] = Made(r, "described")]
    BY <1>2 DEF Describes, Made
  <2> QED BY <1>1, <2>1, WritesDir DEF SpecText
<1>3. CASE request[r].saw.text # "template"
  <2>1. spec' = spec
    BY <1>3 DEF Describes
  <2>2. ~AllApart(r)
    BY <1>1, <1>3 DEF SpecifyInv, Keeps
  <2>3. spec[DirOf(r)] \in DirState
    BY <1>1, DirOfType DEF SpecifyInv, SpecifyTypeOK
  <2> QED BY <1>1, <2>1, <2>2, <2>3, AskGoes DEF SpecPC
<1> QED BY <1>2, <1>3

LEMMA ReadsSpecInv ==
    ASSUME SpecifyInv, NEW r \in Requester, ReadsSpec(r) PROVE SpecifyInv'
<1>1. /\ request[r].pc = "read" /\ request[r].made /\ spec' = spec /\ crossed' = crossed
      /\ request' = [request EXCEPT ![r].pc = "describe", ![r].saw = spec[DirOf(r)]]
  BY DEF ReadsSpec, SpecifyInv, Begun
<1>2. request[r] \in AskState /\ spec[DirOf(r)] \in DirState
  BY <1>1, DirOfType DEF SpecifyInv, SpecifyTypeOK
<1> DEFINE s == [[request[r] EXCEPT !.pc = "describe"] EXCEPT !.saw = spec[DirOf(r)]]
<1>3. /\ s \in AskState /\ s.pc = "describe" /\ s.suffix = request[r].suffix
      /\ s.number = request[r].number /\ s.given = request[r].given
      /\ s.made = request[r].made /\ s.saw = spec[DirOf(r)]
  BY <1>2 DEF AskState, SpecPC
<1>4. request' = [request EXCEPT ![r] = s]
  BY <1>1 DEF SpecifyInv, SpecifyTypeOK
<1> HIDE DEF s
<1>5. /\ request' \in [Requester -> AskState] /\ request'[r] = s
      /\ \A q \in Requester : q # r => request'[q] = request[q]
  BY <1>3, <1>4 DEF SpecifyInv, SpecifyTypeOK
<1>6. DirOf(r)' = DirOf(r) /\ Begun(r)
  BY <1>3, <1>5 DEF DirOf, SpecifyInv
<1>7. Begun(r)' /\ (Claims(r)' => Claims(r))
  BY <1>1, <1>3, <1>5, <1>6 DEF Begun, Claims
<1>8. AllApart(r) => Keeps(r)'
  <2>1. Made(r, "template").text = "template"
    BY DirStates DEF SpecText
  <2> QED BY <1>1, <1>3, <1>5, <1>6, <2>1 DEF SpecifyInv, Keeps
<1> QED BY <1>1, <1>2, <1>3, <1>5, <1>7, <1>8, AskStep

LEMMA MakesDirInv ==
    ASSUME SpecifyInv, NEW r \in Requester, MakesDir(r) PROVE SpecifyInv'
<1>1. /\ request[r].pc = "mkdir" /\ crossed' = crossed
      /\ request' = [request EXCEPT ![r].pc = "copy", ![r].made = TRUE]
      /\ spec' = [spec EXCEPT ![DirOf(r)].there = TRUE]
  BY DEF MakesDir
<1>2. /\ request[r] \in AskState
      /\ spec[DirOf(r)] \in DirState /\ DirOf(r) \in Number \X Suffix
  BY <1>1, DirOfType DEF SpecifyInv, SpecifyTypeOK
<1> DEFINE s == [[request[r] EXCEPT !.pc = "copy"] EXCEPT !.made = TRUE]
<1>3. /\ s \in AskState /\ s.pc = "copy" /\ s.suffix = request[r].suffix
      /\ s.number = request[r].number /\ s.given = request[r].given /\ s.made
  BY <1>2 DEF AskState, SpecPC
<1>4. request' = [request EXCEPT ![r] = s]
  BY <1>1 DEF SpecifyInv, SpecifyTypeOK
<1> HIDE DEF s
<1> DEFINE dir == [spec[DirOf(r)] EXCEPT !.there = TRUE]
<1>5. dir \in DirState /\ dir.there
  BY <1>2, DirStates
<1>6. spec' = [spec EXCEPT ![DirOf(r)] = dir]
  BY <1>1
<1> HIDE DEF dir
<1>7. /\ request' \in [Requester -> AskState] /\ request'[r] = s
      /\ \A q \in Requester : q # r => request'[q] = request[q]
  BY <1>3, <1>4 DEF SpecifyInv, SpecifyTypeOK
<1>8. DirOf(r)' = DirOf(r) /\ Begun(r) /\ Claims(r)
  BY <1>1, <1>3, <1>7 DEF DirOf, SpecifyInv, Claims
<1>9. spec'[DirOf(r)'].there
  BY <1>2, <1>5, <1>6, <1>8 DEF SpecifyInv, SpecifyTypeOK
<1>10. Begun(r)' /\ Keeps(r)'
  BY <1>1, <1>3, <1>7, <1>8, <1>9 DEF Begun, Keeps
<1> QED BY <1>1, <1>3, <1>5, <1>6, <1>7, <1>8, <1>10, AskStep

\* A request begins with a number and a suffix.
LEMMA BeginsInv ==
    ASSUME SpecifyInv, NEW r \in Requester, NEW x \in Suffix, NEW n \in Number,
           NEW given \in BOOLEAN, request[r].pc = "idle", spec' = spec,
           request' = [request EXCEPT ![r] = [NoRequest EXCEPT
                         !.pc = "check", !.suffix = x, !.number = n, !.given = given]],
           crossed \subseteq crossed', crossed' \subseteq SUBSET Requester,
           ~given => \A q \in Requester :
                        q # r /\ Claims(q) => {r, q} \in crossed' \/ request[q].number # n
    PROVE  SpecifyInv'
<1> DEFINE s == [NoRequest EXCEPT !.pc = "check", !.suffix = x, !.number = n, !.given = given]
<1>1. /\ s \in AskState /\ s.pc = "check" /\ s.suffix = x /\ s.number = n
      /\ s.given = given /\ ~s.made
  <2>1. NoRequest \in AskState /\ ~NoRequest.made
    BY NoRequestState
  <2> QED BY <2>1 DEF AskState, SpecPC
<1>2. request' = [request EXCEPT ![r] = s]
  OBVIOUS
<1> HIDE DEF s
<1>3. /\ request' \in [Requester -> AskState] /\ request'[r] = s
      /\ \A q \in Requester : q # r => request'[q] = request[q] /\ DirOf(q)' = DirOf(q)
  BY <1>1, <1>2 DEF SpecifyInv, SpecifyTypeOK, DirOf
<1>4. SpecifyTypeOK'
  BY <1>3 DEF SpecifyInv, SpecifyTypeOK
<1>5. \A q \in Requester : Begun(q)'
  BY <1>1, <1>3 DEF SpecifyInv, Begun
<1>6. ~request[r].given /\ ~request[r].made
  BY DEF SpecifyInv, Begun
<1>7. \A p, q \in Requester : Apart(p, q)' => Apart(p, q)
  <2> SUFFICES ASSUME NEW p \in Requester, NEW q \in Requester, Apart(p, q)'
               PROVE  Apart(p, q)
    OBVIOUS
  <2>1. ~request[p].given /\ ~request[q].given
    BY <1>3, <1>6 DEF Apart
  <2> QED BY <2>1 DEF Apart
<1>8. NumbersDiffer'
  <2> SUFFICES ASSUME NEW p \in Requester, NEW q \in Requester, p # q,
                      Apart(p, q)', Claims(p)', Claims(q)'
               PROVE  request'[p].number # request'[q].number
    BY DEF NumbersDiffer
  <2>1. CASE p # r /\ q # r
    BY <1>3, <1>7, <2>1 DEF SpecifyInv, NumbersDiffer, Claims
  <2>2. CASE p = r
    <3>1. ~given /\ Claims(q) /\ {r, q} \notin crossed'
      BY <1>1, <1>3, <2>2 DEF Apart, Claims
    <3> QED BY <1>1, <1>3, <2>2, <3>1
  <2>3. CASE q = r
    <3>1. ~given /\ Claims(p) /\ {r, p} \notin crossed'
      BY <1>1, <1>3, <2>3 DEF Apart, Claims
    <3> QED BY <1>1, <1>3, <2>3, <3>1
  <2> QED BY <2>1, <2>2, <2>3
<1>9. ASSUME NEW q \in Requester, AllApart(q)' PROVE Keeps(q)'
  <2>1. AllApart(q)
    BY <1>7, <1>9 DEF AllApart
  <2> QED BY <1>1, <1>3, <2>1 DEF SpecifyInv, Keeps
<1> QED BY <1>4, <1>5, <1>8, <1>9 DEF SpecifyInv

LEMMA AsksInv ==
    ASSUME SpecifyInv, NEW r \in Requester, NEW x \in Suffix, NEW n \in Number, Asks(r, x, n)
    PROVE  SpecifyInv'
<1>1. /\ request[r].pc = "idle" /\ spec' = spec /\ crossed' = crossed
      /\ request' = [request EXCEPT ![r] = [NoRequest EXCEPT
                       !.pc = "check", !.suffix = x, !.number = n, !.given = TRUE]]
  BY DEF Asks
<1> QED BY <1>1, BeginsInv DEF SpecifyInv, SpecifyTypeOK

LEMMA IsNumberedInv ==
    ASSUME SpecifyInv, NEW r \in Requester, NEW x \in Suffix, IsNumbered(r, x)
    PROVE  SpecifyInv'
<1>1. /\ request[r].pc = "idle" /\ spec' = spec
      /\ crossed' = crossed \cup {{r, q} : q \in Pending}
  BY DEF IsNumbered
<1>2. PICK n \in Number :
        /\ \A m \in Taken : m < n
        /\ request' = [request EXCEPT ![r] = [NoRequest EXCEPT
                         !.pc = "check", !.suffix = x, !.number = n]]
  BY DEF IsNumbered
<1>3. request' = [request EXCEPT ![r] = [NoRequest EXCEPT
                    !.pc = "check", !.suffix = x, !.number = n, !.given = FALSE]]
  <2> DEFINE t == [NoRequest EXCEPT !.pc = "check", !.suffix = x, !.number = n]
  <2>1. t = [t EXCEPT !.given = FALSE]
    BY NoRequestState DEF AskState
  <2> QED BY <1>2, <2>1
<1>4. crossed \subseteq crossed' /\ crossed' \subseteq SUBSET Requester
  BY <1>1 DEF Pending, SpecifyInv, SpecifyTypeOK
<1>5. ASSUME NEW q \in Requester, q # r, Claims(q), {r, q} \notin crossed'
      PROVE  request[q].number # n
  <2>1. q \notin Pending
    BY <1>1, <1>5
  <2>2. request[q].made /\ Begun(q) /\ request[q].pc # "idle"
    BY <1>5, <2>1 DEF Pending, Claims, SpecifyInv, Begun
  <2>3. DirOf(q) \in Dirs
    BY <2>2, DirOfType DEF Dirs, Begun
  <2>4. request[q].number \in Taken
    BY <2>3 DEF Taken, DirOf
  <2>5. request[q].number < n /\ n \in Nat
    BY <1>2, <2>4 DEF Number
  <2> QED BY <2>5
<1> QED BY <1>1, <1>3, <1>4, <1>5, BeginsInv

LEMMA SpecifyInvStep == SpecifyInv /\ [SpecifyNext]_specifyVars => SpecifyInv'
<1> SUFFICES ASSUME SpecifyInv, [SpecifyNext]_specifyVars PROVE SpecifyInv'
  OBVIOUS
<1>1. ASSUME spec' = spec, request' = request, crossed' = crossed PROVE SpecifyInv'
  BY <1>1 DEF SpecifyInv, SpecifyTypeOK, Begun, DirOf, NumbersDiffer, Apart, Claims,
              AllApart, Keeps
<1>2. CASE MakesBranch \/ ChecksOut \/ UNCHANGED specifyVars
  BY <1>1, <1>2 DEF MakesBranch, ChecksOut, specifyVars
<1>3. ASSUME NEW r \in Requester, NEW x \in Suffix,
             IsNumbered(r, x) \/ \E n \in Number : Asks(r, x, n)
      PROVE  SpecifyInv'
  BY <1>3, IsNumberedInv, AsksInv
<1>4. ASSUME NEW r \in Requester,
             ChecksMain(r) \/ MakesDir(r) \/ CopiesTemplate(r) \/ ReadsSpec(r)
               \/ Describes(r) \/ FillsSpec(r) \/ IsKilled(r)
      PROVE  SpecifyInv'
  BY <1>4, ChecksMainInv, MakesDirInv, CopiesTemplateInv, ReadsSpecInv, DescribesInv,
     FillsSpecInv, IsKilledInv
<1> QED BY <1>2, <1>3, <1>4 DEF SpecifyNext

\* Requests numbered one after the other have numbers and specifications of their own.
LEMMA SpecifyInvOwn == SpecifyInv => FeaturesAreOwn
<1> SUFFICES ASSUME SpecifyInv PROVE FeaturesAreOwn
  OBVIOUS
<1>1. NumbersAreOwn
  BY DEF SpecifyInv, NumbersDiffer, NumbersAreOwn, Claims
<1>2. SpecsAreKept
  BY DEF SpecifyInv, SpecsAreKept, AllApart, Keeps, Made
<1> QED BY <1>1, <1>2 DEF FeaturesAreOwn

(***************************************************************************)
(* The warm agents.  The saved sessions are their features' own because    *)
(* every run knows its session for its own (RunOwn) and runs alone.        *)
(***************************************************************************)

ChainPC == {"idle", "run", "exec", "in session", "ended", "check"}
SessionId == Nat \cup {NoSession}
ChainState == [pc : ChainPC, mode : Mode, rounds : Nat, session : SessionId, code : {0, 1}]

TaskingTypeOK ==
    /\ sessions \in Seq(Chain \X Mode)
    /\ index \in SessionId
    /\ saved \in [Chain -> [Mode -> SessionId]]
    /\ chain \in [Chain -> ChainState]
    /\ mixed \in BOOLEAN

\* Session i worked on f in mode m.
Own(i, f, m) == i \in 1 .. Len(sessions) /\ sessions[i] = <<f, m>>

SavedOwn == \A f \in Chain, m \in Mode : saved[f][m] # NoSession => Own(saved[f][m], f, m)

\* The run of f will know its session for its own.
RunOwn(f) ==
    /\ f \in Running /\ chain[f].session # NoSession => Own(chain[f].session, f, chain[f].mode)
    /\ chain[f].pc \in {"in session", "ended"} /\ chain[f].session = NoSession
         => index # NoSession /\ Own(index, f, chain[f].mode)

RunAlone == \A f, g \in Running : f = g

TaskingInv ==
    /\ TaskingTypeOK
    /\ ~mixed => SavedOwn /\ RunAlone /\ \A f \in Chain : RunOwn(f)

LEMMA TaskingInvInit == TaskingInit => TaskingInv
<1> SUFFICES ASSUME TaskingInit PROVE TaskingInv
  OBVIOUS
<1>1. NoRun \in ChainState /\ NoRun.pc = "idle"
  BY DEF NoRun, ChainState, ChainPC, Mode, SessionId
<1>2. chain \in [Chain -> ChainState] /\ \A f \in Chain : chain[f].pc = "idle"
  BY <1>1 DEF TaskingInit
<1>3. sessions \in Seq(Chain \X Mode)
  BY DEF TaskingInit
<1>4. Running = {}
  BY <1>2 DEF Running
<1> QED BY <1>2, <1>3, <1>4 DEF TaskingInit, TaskingInv, TaskingTypeOK, SavedOwn, RunAlone,
        RunOwn, SessionId

\* The chain of f goes on; the others stay.
LEMMA ChainStep ==
    ASSUME TaskingInv, NEW f \in Chain, NEW s \in ChainState,
           chain' = [chain EXCEPT ![f] = s]
    PROVE  /\ chain' \in [Chain -> ChainState] /\ chain'[f] = s
           /\ \A g \in Chain : g # f => chain'[g] = chain[g]
           /\ Running' \subseteq Running \cup {f}
           /\ f \in Running' <=> s.pc \in {"exec", "in session", "ended"}
<1>1. /\ chain' \in [Chain -> ChainState] /\ chain'[f] = s
      /\ \A g \in Chain : g # f => chain'[g] = chain[g]
  BY DEF TaskingInv, TaskingTypeOK
<1> QED BY <1>1 DEF Running

\* A step of a chain that neither makes sessions nor saves any.
LEMMA QuietChainStep ==
    ASSUME TaskingInv, NEW f \in Chain, NEW s \in ChainState,
           chain' = [chain EXCEPT ![f] = s], UNCHANGED <<sessions, index, saved>>,
           mixed' \in BOOLEAN, mixed => mixed',
           s.pc \in {"exec", "in session", "ended"} /\ f \notin Running /\ Running # {} => mixed',
           ~mixed' => RunOwn(f)'
    PROVE  TaskingInv'
<1>1. /\ chain' \in [Chain -> ChainState] /\ chain'[f] = s
      /\ \A g \in Chain : g # f => chain'[g] = chain[g]
      /\ Running' \subseteq Running \cup {f}
      /\ f \in Running' <=> s.pc \in {"exec", "in session", "ended"}
  BY ChainStep
<1>2. TaskingTypeOK'
  BY <1>1 DEF TaskingInv, TaskingTypeOK
<1>3. ASSUME ~mixed' PROVE SavedOwn' /\ RunAlone' /\ \A g \in Chain : RunOwn(g)'
  <2>1. SavedOwn /\ RunAlone /\ \A g \in Chain : RunOwn(g)
    BY <1>3 DEF TaskingInv
  <2>2. SavedOwn'
    BY <2>1 DEF SavedOwn, Own
  <2>3. RunAlone'
    BY <1>1, <1>3, <2>1 DEF RunAlone
  <2>4. ASSUME NEW g \in Chain, g # f PROVE RunOwn(g)'
    BY <1>1, <2>1, <2>4 DEF RunOwn, Own, Running
  <2> QED BY <1>3, <2>2, <2>3, <2>4
<1> QED BY <1>2, <1>3 DEF TaskingInv

LEMMA ChainFields ==
    ASSUME NEW s \in ChainState
    PROVE  /\ s.pc \in ChainPC /\ s.mode \in Mode /\ s.rounds \in Nat
           /\ s.session \in SessionId /\ s.code \in {0, 1}
           /\ \A pc \in ChainPC : /\ [s EXCEPT !.pc = pc] \in ChainState
                                  /\ [s EXCEPT !.pc = pc].pc = pc
                                  /\ [s EXCEPT !.pc = pc].mode = s.mode
                                  /\ [s EXCEPT !.pc = pc].session = s.session
  BY DEF ChainState

LEMMA NoRunState == NoRun \in ChainState /\ NoRun.pc = "idle"
  BY DEF NoRun, ChainState, ChainPC, Mode, SessionId

\* Where f does not run, nothing is asked of its session.
LEMMA NotRunning ==
    ASSUME TaskingInv, NEW f \in Chain, NEW s \in ChainState,
           chain' = [chain EXCEPT ![f] = s], s.pc \in {"idle", "run", "check"}
    PROVE  RunOwn(f)'
<1>1. chain'[f] = s /\ f \notin Running'
  BY ChainStep
<1> QED BY <1>1 DEF RunOwn

LEMMA StartChainInv == ASSUME TaskingInv, NEW f \in Chain, StartChain(f) PROVE TaskingInv'
<1> DEFINE s == [NoRun EXCEPT !.pc = "run"]
<1>1. s \in ChainState /\ s.pc = "run"
  BY NoRunState, ChainFields DEF ChainPC
<1>2. chain' = [chain EXCEPT ![f] = s] /\ UNCHANGED <<sessions, index, saved, mixed>>
  BY DEF StartChain
<1> HIDE DEF s
<1> QED BY <1>1, <1>2, NotRunning, QuietChainStep DEF TaskingInv, TaskingTypeOK

LEMMA StartRunInv == ASSUME TaskingInv, NEW f \in Chain, StartRun(f) PROVE TaskingInv'
<1>1. /\ chain[f].pc = "run" /\ UNCHANGED <<sessions, index, saved>>
      /\ chain' = [chain EXCEPT ![f].pc = "exec", ![f].session = saved[f][chain[f].mode]]
      /\ mixed' = (mixed \/ Running # {})
  BY DEF StartRun
<1>2. chain[f] \in ChainState /\ chain[f].mode \in Mode /\ saved[f][chain[f].mode] \in SessionId
  BY ChainFields DEF TaskingInv, TaskingTypeOK
<1> DEFINE s == [[chain[f] EXCEPT !.pc = "exec"] EXCEPT !.session = saved[f][chain[f].mode]]
<1>3. /\ s \in ChainState /\ s.pc = "exec" /\ s.mode = chain[f].mode
      /\ s.session = saved[f][chain[f].mode]
  BY <1>2 DEF ChainState, ChainPC
<1>4. chain' = [chain EXCEPT ![f] = s]
  BY <1>1 DEF TaskingInv, TaskingTypeOK
<1> HIDE DEF s
<1>5. ASSUME ~mixed' PROVE RunOwn(f)'
  <2>1. chain'[f] = s
    BY <1>3, <1>4, ChainStep
  <2>2. ~mixed /\ SavedOwn
    BY <1>1, <1>5 DEF TaskingInv
  <2> QED BY <1>1, <1>2, <1>3, <2>1, <2>2 DEF RunOwn, SavedOwn, Own
<1> QED BY <1>1, <1>3, <1>4, <1>5, QuietChainStep DEF TaskingInv, TaskingTypeOK

LEMMA NoSessionMadeInv == ASSUME TaskingInv, NEW f \in Chain, NoSessionMade(f) PROVE TaskingInv'
<1>1. /\ chain[f].pc = "exec" /\ UNCHANGED <<sessions, index, saved>>
      /\ chain' = [chain EXCEPT ![f].pc = "ended", ![f].code = 1]
      /\ mixed' = (mixed \/ chain[f].session = NoSession)
  BY DEF NoSessionMade
<1>2. chain[f] \in ChainState
  BY DEF TaskingInv, TaskingTypeOK
<1> DEFINE s == [[chain[f] EXCEPT !.pc = "ended"] EXCEPT !.code = 1]
<1>3. /\ s \in ChainState /\ s.pc = "ended" /\ s.mode = chain[f].mode
      /\ s.session = chain[f].session
  BY <1>2 DEF ChainState, ChainPC
<1>4. chain' = [chain EXCEPT ![f] = s]
  BY <1>1 DEF TaskingInv, TaskingTypeOK
<1> HIDE DEF s
<1>5. f \in Running
  BY <1>1 DEF Running
<1>6. ASSUME ~mixed' PROVE RunOwn(f)'
  <2>1. chain'[f] = s
    BY <1>3, <1>4, ChainStep
  <2>2. ~mixed /\ chain[f].session # NoSession /\ RunOwn(f)
    BY <1>1, <1>6 DEF TaskingInv
  <2> QED BY <1>1, <1>3, <1>5, <2>1, <2>2 DEF RunOwn, Own
<1> QED BY <1>1, <1>3, <1>4, <1>5, <1>6, QuietChainStep DEF TaskingInv, TaskingTypeOK

LEMMA SessionEndsInv == ASSUME TaskingInv, NEW f \in Chain, SessionEnds(f) PROVE TaskingInv'
<1>1. chain[f].pc = "in session" /\ UNCHANGED <<sessions, index, saved, mixed>>
  BY DEF SessionEnds
<1>2. PICK code \in {0, 1} : chain' = [chain EXCEPT ![f].pc = "ended", ![f].code = code]
  BY DEF SessionEnds
<1>3. chain[f] \in ChainState
  BY DEF TaskingInv, TaskingTypeOK
<1> DEFINE s == [[chain[f] EXCEPT !.pc = "ended"] EXCEPT !.code = code]
<1>4. /\ s \in ChainState /\ s.pc = "ended" /\ s.mode = chain[f].mode
      /\ s.session = chain[f].session
  BY <1>3 DEF ChainState, ChainPC
<1>5. chain' = [chain EXCEPT ![f] = s]
  BY <1>2 DEF TaskingInv, TaskingTypeOK
<1> HIDE DEF s
<1>6. f \in Running
  BY <1>1 DEF Running
<1>7. ASSUME ~mixed' PROVE RunOwn(f)'
  <2>1. chain'[f] = s
    BY <1>4, <1>5, ChainStep
  <2>2. ~mixed /\ RunOwn(f)
    BY <1>1, <1>7 DEF TaskingInv
  <2> QED BY <1>1, <1>4, <1>6, <2>1, <2>2 DEF RunOwn, Own
<1> QED BY <1>1, <1>4, <1>5, <1>6, <1>7, QuietChainStep DEF TaskingInv, TaskingTypeOK

LEMMA OpenSessionInv == ASSUME TaskingInv, NEW f \in Chain, OpenSession(f) PROVE TaskingInv'
<1>1. /\ chain[f].pc = "exec" /\ UNCHANGED <<saved, mixed>>
      /\ chain' = [chain EXCEPT ![f].pc = "in session"]
  BY DEF OpenSession, Moves
<1>2. chain[f] \in ChainState /\ chain[f].session \in SessionId /\ chain[f].mode \in Mode
  BY ChainFields DEF TaskingInv, TaskingTypeOK
<1> DEFINE s == [chain[f] EXCEPT !.pc = "in session"]
<1>3. /\ s \in ChainState /\ s.pc = "in session" /\ s.mode = chain[f].mode
      /\ s.session = chain[f].session
  BY <1>2 DEF ChainState, ChainPC
<1>4. chain' = [chain EXCEPT ![f] = s]
  BY <1>1
<1> HIDE DEF s
<1>5. /\ chain' \in [Chain -> ChainState] /\ chain'[f] = s
      /\ \A g \in Chain : g # f => chain'[g] = chain[g]
      /\ Running' \subseteq Running \cup {f}
  BY <1>3, <1>4, ChainStep
<1>6. f \in Running
  BY <1>1 DEF Running
<1>7. /\ sessions' \in Seq(Chain \X Mode) /\ index' \in SessionId
      /\ \A i, g, m : Own(i, g, m) => Own(i, g, m)'
      /\ chain[f].session = NoSession => index' # NoSession /\ Own(index, f, chain[f].mode)'
  <2>1. CASE chain[f].session = NoSession
    <3>1. sessions' = Append(sessions, <<f, chain[f].mode>>) /\ index' = Len(sessions) + 1
      BY <2>1 DEF OpenSession
    <3>2. sessions \in Seq(Chain \X Mode) /\ <<f, chain[f].mode>> \in Chain \X Mode
      BY <1>2 DEF TaskingInv, TaskingTypeOK
    <3>3. /\ sessions' \in Seq(Chain \X Mode) /\ Len(sessions') = Len(sessions) + 1
          /\ Len(sessions) \in Nat /\ sessions'[Len(sessions) + 1] = <<f, chain[f].mode>>
          /\ \A i \in 1 .. Len(sessions) : sessions'[i] = sessions[i]
      BY <3>1, <3>2
    <3>4. index' \in Nat /\ index' \in 1 .. Len(sessions') /\ index' # NoSession
      BY <3>1, <3>3, TaskingAssumption
    <3>5. Own(index, f, chain[f].mode)' 
      BY <3>1, <3>3, <3>4, <1>3, <1>5 DEF Own
    <3> QED BY <3>3, <3>4, <3>5 DEF Own, SessionId
  <2>2. CASE chain[f].session # NoSession
    <3>1. sessions' = sessions /\ index' \in {index, chain[f].session}
      BY <2>2 DEF OpenSession
    <3> QED BY <1>2, <2>2, <3>1 DEF Own, TaskingInv, TaskingTypeOK
  <2> QED BY <2>1, <2>2
<1>8. TaskingTypeOK'
  BY <1>1, <1>5, <1>7 DEF TaskingInv, TaskingTypeOK
<1>9. ASSUME ~mixed' PROVE SavedOwn' /\ RunAlone' /\ \A g \in Chain : RunOwn(g)'
  <2>1. SavedOwn /\ RunAlone /\ RunOwn(f)
    BY <1>1, <1>9 DEF TaskingInv
  <2>2. SavedOwn'
    BY <1>1, <1>7, <2>1 DEF SavedOwn
  <2>3. RunAlone' /\ \A g \in Chain : g # f => g \notin Running'
    BY <1>5, <1>6, <2>1 DEF RunAlone
  <2>4. RunOwn(f)'
    BY <1>3, <1>5, <1>6, <1>7, <2>1 DEF RunOwn
  <2>5. \A g \in Chain : g # f => RunOwn(g)'
    BY <2>3 DEF RunOwn, Running
  <2> QED BY <2>2, <2>3, <2>4, <2>5
<1> QED BY <1>8, <1>9 DEF TaskingInv

LEMMA AfterRunState ==
    ASSUME NEW c \in ChainState
    PROVE  AfterRun(c) \in ChainState /\ AfterRun(c).pc \in {"idle", "run", "check"}
<1>1. CASE c.code # 0
  BY <1>1, NoRunState DEF AfterRun
<1>2. CASE c.code = 0 /\ c.mode = "breakdown"
  <2>1. AfterRun(c) = [c EXCEPT !.pc = "run", !.mode = "estimate"]
    BY <1>2 DEF AfterRun
  <2> QED BY <2>1 DEF ChainState, ChainPC, Mode
<1>3. CASE c.code = 0 /\ c.mode # "breakdown"
  <2>1. AfterRun(c) = [c EXCEPT !.pc = "check", !.rounds = c.rounds + 1]
    BY <1>3 DEF AfterRun
  <2>2. c.rounds + 1 \in Nat
    BY ChainFields
  <2> QED BY <2>1, <2>2 DEF ChainState, ChainPC
<1> QED BY <1>1, <1>2, <1>3

LEMMA EndRunInv == ASSUME TaskingInv, NEW f \in Chain, EndRun(f) PROVE TaskingInv'
<1>1. /\ chain[f].pc = "ended" /\ saved' = Persisted(f) /\ UNCHANGED <<sessions, index, mixed>>
      /\ chain' = [chain EXCEPT ![f] = AfterRun(chain[f])]
  BY DEF EndRun
<1>2. /\ chain[f] \in ChainState /\ chain[f].mode \in Mode /\ SessionOf(f) \in SessionId
      /\ f \in Running
  BY <1>1, ChainFields DEF TaskingInv, TaskingTypeOK, SessionOf, Running
<1>3. PICK s \in ChainState : chain' = [chain EXCEPT ![f] = s] /\ s.pc \in {"idle", "run", "check"}
  BY <1>1, <1>2, AfterRunState
<1>4. /\ chain' \in [Chain -> ChainState] /\ chain'[f] = s
      /\ \A g \in Chain : g # f => chain'[g] = chain[g]
      /\ Running' \subseteq Running \cup {f}
      /\ f \notin Running'
  BY <1>3, ChainStep
<1>5. saved' \in [Chain -> [Mode -> SessionId]]
  BY <1>1, <1>2 DEF TaskingInv, TaskingTypeOK, Persisted
<1>6. TaskingTypeOK'
  BY <1>1, <1>4, <1>5 DEF TaskingInv, TaskingTypeOK
<1>7. ASSUME ~mixed' PROVE SavedOwn' /\ RunAlone' /\ \A g \in Chain : RunOwn(g)'
  <2>1. SavedOwn /\ RunAlone /\ RunOwn(f)
    BY <1>1, <1>7 DEF TaskingInv
  <2>2. SessionOf(f) # NoSession => Own(SessionOf(f), f, chain[f].mode)
    BY <1>1, <1>2, <2>1 DEF RunOwn, SessionOf
  <2>3. SavedOwn'
    <3>1. CASE SessionOf(f) = NoSession
      BY <1>1, <2>1, <3>1 DEF SavedOwn, Own, Persisted
    <3>2. CASE SessionOf(f) # NoSession
      <4>1. \A g \in Chain, m \in Mode :
              saved'[g][m] = IF g = f /\ m = chain[f].mode THEN SessionOf(f) ELSE saved[g][m]
        BY <1>1, <1>2, <3>2 DEF Persisted, TaskingInv, TaskingTypeOK
      <4> QED BY <1>1, <2>1, <2>2, <3>2, <4>1 DEF SavedOwn, Own
    <3> QED BY <3>1, <3>2
  <2>4. Running' = {}
    BY <1>2, <1>4, <2>1 DEF RunAlone
  <2> QED BY <2>3, <2>4 DEF RunAlone, RunOwn, Running
<1> QED BY <1>6, <1>7 DEF TaskingInv

LEMMA StabilizedInv == ASSUME TaskingInv, NEW f \in Chain, Stabilized(f) PROVE TaskingInv'
<1>1. /\ saved' = [saved EXCEPT ![f] = [m \in Mode |-> NoSession]]
      /\ chain' = [chain EXCEPT ![f] = NoRun] /\ UNCHANGED <<sessions, index, mixed>>
  BY DEF Stabilized
<1>2. /\ chain' \in [Chain -> ChainState] /\ chain'[f] = NoRun
      /\ \A g \in Chain : g # f => chain'[g] = chain[g]
      /\ Running' \subseteq Running \cup {f}
      /\ f \notin Running'
  BY <1>1, ChainStep, NoRunState
<1>3. /\ saved' \in [Chain -> [Mode -> SessionId]]
      /\ \A m \in Mode : saved'[f][m] = NoSession
      /\ \A g \in Chain : g # f => saved'[g] = saved[g]
  BY <1>1 DEF TaskingInv, TaskingTypeOK, SessionId
<1>4. TaskingTypeOK'
  BY <1>1, <1>2, <1>3 DEF TaskingInv, TaskingTypeOK
<1>5. ASSUME ~mixed' PROVE SavedOwn' /\ RunAlone' /\ \A g \in Chain : RunOwn(g)'
  <2>1. SavedOwn /\ RunAlone /\ \A g \in Chain : RunOwn(g)
    BY <1>1, <1>5 DEF TaskingInv
  <2>2. SavedOwn'
    BY <1>1, <1>3, <2>1 DEF SavedOwn, Own
  <2>3. RunAlone'
    BY <1>2, <2>1 DEF RunAlone
  <2>4. \A g \in Chain : RunOwn(g)'
    BY <1>1, <1>2, <2>1, NoRunState DEF RunOwn, Own, Running
  <2> QED BY <2>2, <2>3, <2>4
<1> QED BY <1>4, <1>5 DEF TaskingInv

LEMMA BreakDownInv == ASSUME TaskingInv, NEW f \in Chain, BreakDown(f) PROVE TaskingInv'
<1>1. /\ chain' = [chain EXCEPT ![f] = IF @.rounds >= MaxRounds THEN NoRun
                                       ELSE [@ EXCEPT !.pc = "run", !.mode = "breakdown"]]
      /\ UNCHANGED <<sessions, index, saved, mixed>>
  BY DEF BreakDown
<1> DEFINE r == [[chain[f] EXCEPT !.pc = "run"] EXCEPT !.mode = "breakdown"]
<1>2. r \in ChainState /\ r.pc = "run"
  <2>1. chain[f] \in ChainState
    BY DEF TaskingInv, TaskingTypeOK
  <2> QED BY <2>1 DEF ChainState, ChainPC, Mode
<1>3. chain' = [chain EXCEPT ![f] = IF chain[f].rounds >= MaxRounds THEN NoRun ELSE r]
  BY <1>1 DEF TaskingInv, TaskingTypeOK
<1> HIDE DEF r
<1>4. PICK s \in ChainState : chain' = [chain EXCEPT ![f] = s] /\ s.pc \in {"idle", "run", "check"}
  BY <1>2, <1>3, NoRunState
<1> QED BY <1>1, <1>4, NotRunning, QuietChainStep DEF TaskingInv, TaskingTypeOK

LEMMA TaskingInvStep == TaskingInv /\ [TaskingNext]_taskingVars => TaskingInv'
<1> SUFFICES ASSUME TaskingInv, [TaskingNext]_taskingVars PROVE TaskingInv'
  OBVIOUS
<1>1. CASE UNCHANGED taskingVars
  BY <1>1 DEF taskingVars, TaskingInv, TaskingTypeOK, SavedOwn, RunAlone, RunOwn, Own, Running
<1>2. CASE TaskingNext
  BY <1>2, StartChainInv, StartRunInv, OpenSessionInv, NoSessionMadeInv, SessionEndsInv,
     EndRunInv, StabilizedInv, BreakDownInv DEF TaskingNext
<1> QED BY <1>1, <1>2

LEMMA TaskingInvOwn == TaskingInv => WarmAgentsAreOwn
  BY DEF TaskingInv, SavedOwn, Own, WarmAgentsAreOwn

(***************************************************************************)
(* The QA loop.  The threshold is exact because the card or the run in     *)
(* progress always tells the failures there were (Tells), and because a    *)
(* body that blocks the task is one with the failures for it (Escalated).  *)
(***************************************************************************)

QaTypeOK ==
    /\ qaCard \in QaCard
    /\ qaInbox \subseteq QaCard /\ IsFiniteSet(qaInbox)
    /\ qaRun \in QaCard \cup {NoBody}
    /\ qaVerdict \in QaVerdict \cup {NoBody}
    /\ qaFailed \in Nat /\ qaStopped \in BOOLEAN /\ qaOutdated \in BOOLEAN

\* A card, or a webhook body, that tells the failures there were, and would not be
\* dispatched for a task that is stopped.
Tells(c) == current_failures(c) = qaFailed /\ (c.blocked <=> qaStopped)

Escalated(c) ==
    /\ c.unblock => ~c.blocked
    /\ ~c.unblock => (c.blocked <=> c.streak >= MaxFailures)

Bodies == qaInbox \cup {qaCard}

QaExact ==
    /\ EscalatesAtThreshold
    /\ qaVerdict = NoBody => Tells(qaCard)
    /\ qaVerdict # NoBody => /\ qaVerdict.streak = qaFailed
                             /\ qaVerdict.transition = "blocked_human_required" <=> qaStopped
    /\ qaRun # NoBody => ~qaRun.blocked /\ qaVerdict = NoBody /\ Tells(qaRun)

QaInv ==
    /\ QaTypeOK
    /\ \A c \in Bodies : Escalated(c)
    /\ qaVerdict # NoBody =>
         (qaVerdict.transition = "blocked_human_required" <=> qaVerdict.streak >= MaxFailures)
    /\ ~qaOutdated => QaExact

LEMMA CardFields ==
    ASSUME NEW c \in QaCard
    PROVE  /\ c.streak \in Nat /\ c.blocked \in BOOLEAN /\ c.unblock \in BOOLEAN
           /\ c.criteria \in BOOLEAN /\ c # NoBody
  BY NoBodyIsNone DEF QaCard

LEMMA QaInvInit == QaInit => QaInv
<1> SUFFICES ASSUME QaInit PROVE QaInv
  OBVIOUS
<1>1. /\ qaCard \in QaCard /\ qaCard.streak = 0 /\ ~qaCard.blocked /\ ~qaCard.unblock
  BY DEF QaInit, QaCard
<1>2. IsFiniteSet({})
  BY FS_EmptySet
<1>3. Tells(qaCard)
  BY <1>1 DEF Tells, current_failures, QaInit
<1>4. EscalatesAtThreshold
  BY MaxFailuresType DEF EscalatesAtThreshold, QaInit
<1>5. \A c \in Bodies : Escalated(c)
  BY <1>1, MaxFailuresType DEF Escalated, Bodies, QaInit
<1> QED BY <1>1, <1>2, <1>3, <1>4, <1>5 DEF QaInv, QaExact, QaTypeOK, QaInit

LEMMA MoveToQaInv == ASSUME QaInv, MoveToQa PROVE QaInv'
<1>1. /\ qaInbox' = qaInbox \cup {qaCard}
      /\ UNCHANGED <<qaCard, qaRun, qaVerdict, qaFailed, qaStopped, qaOutdated>>
  BY DEF MoveToQa
<1>2. QaTypeOK'
  <2>1. IsFiniteSet(qaInbox')
    BY <1>1, FS_AddElement DEF QaInv, QaTypeOK
  <2> QED BY <1>1, <2>1 DEF QaInv, QaTypeOK
<1>3. Bodies' = Bodies
  BY <1>1 DEF Bodies
<1>4. \A c \in Bodies' : Escalated(c)'
  BY <1>3 DEF QaInv, Escalated
<1>5. ~qaOutdated' => QaExact'
  BY <1>1 DEF QaInv, QaExact, EscalatesAtThreshold, Tells
<1> QED BY <1>1, <1>2, <1>4, <1>5 DEF QaInv

LEMMA HandleWebhookInv == ASSUME QaInv, HandleWebhook PROVE QaInv'
<1>1. PICK body \in qaInbox :
        /\ qaInbox' = qaInbox \ {body}
        /\ IF qaRun = NoBody /\ evaluate_qa_dispatch_gate(body) = "dispatch"
           THEN qaRun' = body /\ qaOutdated' = (qaOutdated \/ Outdated(body))
           ELSE UNCHANGED <<qaRun, qaOutdated>>
        /\ UNCHANGED <<qaCard, qaVerdict, qaFailed, qaStopped>>
  BY DEF HandleWebhook
<1>2. IsFiniteSet(qaInbox') /\ qaInbox' \subseteq QaCard /\ body \in QaCard
  BY <1>1, FS_RemoveElement DEF QaInv, QaTypeOK
<1>3. \A c \in Bodies' : Escalated(c)'
  BY <1>1 DEF QaInv, Bodies, Escalated
<1>4. CASE qaRun = NoBody /\ evaluate_qa_dispatch_gate(body) = "dispatch"
  <2>1. qaRun' = body /\ qaOutdated' = (qaOutdated \/ Outdated(body))
    BY <1>1, <1>4
  <2>2. QaTypeOK'
    <3>1. Outdated(body) \in BOOLEAN
      BY DEF Outdated
    <3>2. qaOutdated' \in BOOLEAN
      BY <2>1, <3>1 DEF QaInv, QaTypeOK
    <3> QED BY <1>1, <1>2, <2>1, <3>2 DEF QaInv, QaTypeOK
  <2>3. ASSUME ~qaOutdated' PROVE QaExact'
    <3>1. ~qaOutdated /\ ~Outdated(body)
      BY <2>1, <2>3
    <3>2. qaVerdict = NoBody /\ body.streak = qaCard.streak /\ body.unblock = qaCard.unblock
      BY <3>1 DEF Outdated
    <3>3. ~body.blocked
      BY <1>4 DEF evaluate_qa_dispatch_gate
    <3>4. QaExact /\ Tells(qaCard) /\ qaCard \in QaCard
      BY <3>1, <3>2 DEF QaInv, QaExact, QaTypeOK
    <3>5. Escalated(body) /\ Escalated(qaCard)
      BY DEF QaInv, Bodies
    <3>6. ~qaCard.blocked
      BY <1>2, <3>2, <3>3, <3>4, <3>5, CardFields DEF Escalated
    <3>7. Tells(body)
      BY <3>2, <3>3, <3>4, <3>6 DEF Tells, current_failures
    <3> QED BY <1>1, <2>1, <3>2, <3>3, <3>4, <3>7 DEF QaExact, Tells, EscalatesAtThreshold
  <2> QED BY <1>1, <1>3, <2>2, <2>3 DEF QaInv
<1>5. CASE ~(qaRun = NoBody /\ evaluate_qa_dispatch_gate(body) = "dispatch")
  <2>1. UNCHANGED <<qaCard, qaRun, qaVerdict, qaFailed, qaStopped, qaOutdated>>
    BY <1>1, <1>5
  <2>2. QaTypeOK'
    BY <1>2, <2>1 DEF QaInv, QaTypeOK
  <2>3. ~qaOutdated' => QaExact'
    BY <2>1 DEF QaInv, QaExact, EscalatesAtThreshold, Tells
  <2> QED BY <1>3, <2>1, <2>2, <2>3 DEF QaInv
<1> QED BY <1>4, <1>5

\* What a result makes of a streak.
LEMMA AttemptIs ==
    ASSUME NEW result \in {"pass", "fail"}, NEW n \in Nat
    PROVE  LET v == evaluate_qa_attempt(result, n)
           IN /\ v \in QaVerdict
              /\ v.streak = IF result = "pass" THEN 0 ELSE n + 1
              /\ v.transition = "blocked_human_required" <=> v.streak >= MaxFailures
<1>1. CASE result = "pass"
  <2>1. evaluate_qa_attempt(result, n) = [transition |-> "advance", streak |-> 0]
    BY <1>1 DEF evaluate_qa_attempt
  <2> QED BY <1>1, <2>1, MaxFailuresType DEF QaVerdict, QaTransition
<1>2. CASE result = "fail"
  <2> DEFINE t == IF n + 1 >= MaxFailures THEN "blocked_human_required" ELSE "rework"
  <2>1. evaluate_qa_attempt(result, n) = [transition |-> t, streak |-> n + 1]
    BY <1>2 DEF evaluate_qa_attempt
  <2>2. t \in QaTransition /\ (t = "blocked_human_required" <=> n + 1 >= MaxFailures)
    BY DEF QaTransition
  <2> HIDE DEF t
  <2> QED BY <1>2, <2>1, <2>2 DEF QaVerdict
<1> QED BY <1>1, <1>2

LEMMA HandleResultInv == ASSUME QaInv, HandleResult PROVE QaInv'
<1> DEFINE n == current_failures(qaRun)
<1>1. PICK result \in {"pass", "fail"} :
        /\ qaVerdict' = evaluate_qa_attempt(result, n)
        /\ qaFailed' = IF result = "pass" THEN 0 ELSE qaFailed + 1
        /\ qaStopped' = (qaStopped
              \/ evaluate_qa_attempt(result, n).transition = "blocked_human_required")
  BY DEF HandleResult
<1>2. /\ qaRun # NoBody /\ qaRun' = NoBody /\ UNCHANGED <<qaCard, qaInbox, qaOutdated>>
  BY DEF HandleResult
<1>3. n \in Nat /\ qaFailed \in Nat
  BY <1>2, CardFields DEF QaInv, QaTypeOK, current_failures
<1> HIDE DEF n
<1>4. /\ qaVerdict' \in QaVerdict /\ qaVerdict' # NoBody
      /\ qaVerdict'.streak = IF result = "pass" THEN 0 ELSE n + 1
      /\ qaVerdict'.transition = "blocked_human_required" <=> qaVerdict'.streak >= MaxFailures
  BY <1>1, <1>3, AttemptIs, NoBodyIsNone
<1> DEFINE blocks == qaVerdict'.transition = "blocked_human_required"
<1>5. blocks \in BOOLEAN
  OBVIOUS
<1>6. qaStopped' = (qaStopped \/ blocks)
  BY <1>1
<1>7. qaFailed' \in Nat
  BY <1>1, <1>3
<1>8. QaTypeOK'
  <2>1. qaStopped' \in BOOLEAN
    BY <1>5, <1>6 DEF QaInv, QaTypeOK
  <2> QED BY <1>2, <1>4, <1>7, <2>1 DEF QaInv, QaTypeOK
<1>9. \A c \in Bodies' : Escalated(c)'
  BY <1>2 DEF QaInv, Bodies, Escalated
<1>10. ASSUME ~qaOutdated' PROVE QaExact'
  <2>1. n = qaFailed /\ ~qaStopped
    BY <1>2, <1>10 DEF QaInv, QaExact, Tells, n
  <2>2. qaVerdict'.streak = qaFailed'
    BY <1>1, <1>4, <2>1
  <2>3. blocks <=> qaStopped'
    BY <1>6, <2>1
  <2>4. EscalatesAtThreshold'
    BY <1>4, <2>2, <2>3 DEF EscalatesAtThreshold
  <2> QED BY <1>2, <1>4, <2>2, <2>3, <2>4 DEF QaExact
<1> QED BY <1>4, <1>8, <1>9, <1>10 DEF QaInv

LEMMA HandleNoResultInv == ASSUME QaInv, HandleNoResult PROVE QaInv'
<1>1. /\ qaRun' = NoBody
      /\ UNCHANGED <<qaCard, qaInbox, qaVerdict, qaFailed, qaStopped, qaOutdated>>
  BY DEF HandleNoResult
<1>2. ~qaOutdated' => QaExact'
  BY <1>1 DEF QaInv, QaExact, EscalatesAtThreshold, Tells
<1> QED BY <1>1, <1>2 DEF QaInv, QaTypeOK, Bodies, Escalated

LEMMA CopyVerdictInv == ASSUME QaInv, CopyVerdict PROVE QaInv'
<1> DEFINE blocked == qaVerdict.transition = "blocked_human_required"
<1>1. /\ qaVerdict # NoBody /\ qaVerdict' = NoBody
      /\ UNCHANGED <<qaInbox, qaRun, qaFailed, qaStopped, qaOutdated>>
      /\ qaCard' = [qaCard EXCEPT !.streak = qaVerdict.streak, !.blocked = blocked,
                       !.unblock = FALSE]
  BY DEF CopyVerdict
<1>2. blocked \in BOOLEAN /\ (blocked <=> qaVerdict.streak >= MaxFailures)
  BY <1>1 DEF QaInv
<1>3. qaVerdict.streak \in Nat /\ qaCard \in QaCard
  BY <1>1 DEF QaInv, QaTypeOK, QaVerdict
<1>4. ~qaOutdated => (blocked <=> qaStopped) /\ qaVerdict.streak = qaFailed /\ qaRun = NoBody
  BY <1>1 DEF QaInv, QaExact
<1> HIDE DEF blocked
<1>5. /\ qaCard' \in QaCard /\ qaCard'.streak = qaVerdict.streak
      /\ ~qaCard'.unblock /\ qaCard'.blocked = blocked
  BY <1>1, <1>2, <1>3 DEF QaCard
<1>6. \A c \in Bodies' : Escalated(c)'
  <2>1. Escalated(qaCard')
    BY <1>2, <1>5 DEF Escalated
  <2> QED BY <1>1, <2>1 DEF QaInv, Bodies, Escalated
<1>7. ASSUME ~qaOutdated' PROVE QaExact'
  <2>1. Tells(qaCard)'
    BY <1>1, <1>4, <1>5, <1>7 DEF Tells, current_failures
  <2> QED BY <1>1, <1>4, <1>7, <2>1 DEF QaInv, QaExact, EscalatesAtThreshold
<1>8. QaTypeOK'
  BY <1>1, <1>5 DEF QaInv, QaTypeOK
<1> QED BY <1>1, <1>6, <1>7, <1>8 DEF QaInv

LEMMA HumanUnblocksInv == ASSUME QaInv, CardKept, HumanUnblocks PROVE QaInv'
<1>1. /\ qaStopped /\ qaVerdict = NoBody /\ qaFailed' = 0 /\ qaStopped' = FALSE
      /\ UNCHANGED <<qaInbox, qaRun, qaVerdict, qaOutdated>>
      /\ qaCard' = [qaCard EXCEPT !.blocked = FALSE, !.unblock = TRUE]
  BY DEF HumanUnblocks
<1>2. qaCard' \in QaCard /\ ~qaCard'.blocked /\ qaCard'.unblock
  BY <1>1 DEF QaInv, QaTypeOK, QaCard
<1>3. QaTypeOK'
  BY <1>1, <1>2 DEF QaInv, QaTypeOK
<1>4. \A c \in Bodies' : Escalated(c)'
  BY <1>1, <1>2 DEF QaInv, Bodies, Escalated
<1>5. ASSUME ~qaOutdated' PROVE QaExact'
  <2>1. qaRun = NoBody
    BY <1>1, <1>5 DEF QaInv, QaExact, Tells
  <2>2. Tells(qaCard)'
    BY <1>1, <1>2 DEF Tells, current_failures
  <2>3. EscalatesAtThreshold'
    BY <1>1, MaxFailuresType DEF EscalatesAtThreshold
  <2> QED BY <1>1, <2>1, <2>2, <2>3 DEF QaExact
<1> QED BY <1>1, <1>3, <1>4, <1>5 DEF QaInv

LEMMA EditCriteriaInv == ASSUME QaInv, EditCriteria PROVE QaInv'
<1>1. /\ UNCHANGED <<qaInbox, qaRun, qaVerdict, qaFailed, qaStopped, qaOutdated>>
      /\ qaCard' = [qaCard EXCEPT !.criteria = ~@]
  BY DEF EditCriteria
<1>2. qaCard \in QaCard
  BY DEF QaInv, QaTypeOK
<1>3. /\ qaCard' \in QaCard /\ qaCard'.streak = qaCard.streak
      /\ qaCard'.blocked = qaCard.blocked /\ qaCard'.unblock = qaCard.unblock
  BY <1>1, <1>2 DEF QaCard
<1>4. \A c \in Bodies' : Escalated(c)'
  BY <1>1, <1>3 DEF QaInv, Bodies, Escalated
<1>5. Tells(qaCard)' <=> Tells(qaCard)
  BY <1>1, <1>3 DEF Tells, current_failures
<1>6. ~qaOutdated' => QaExact'
  BY <1>1, <1>5 DEF QaInv, QaExact, EscalatesAtThreshold, Tells
<1>7. QaTypeOK'
  BY <1>1, <1>3 DEF QaInv, QaTypeOK
<1> QED BY <1>1, <1>4, <1>6, <1>7 DEF QaInv

LEMMA QaInvStep == ASSUME CardKept PROVE QaInv /\ [QaNext]_qaVars => QaInv'
<1> SUFFICES ASSUME QaInv, [QaNext]_qaVars PROVE QaInv'
  OBVIOUS
<1>1. CASE UNCHANGED qaVars
  <2>1. ~qaOutdated' => QaExact'
    BY <1>1 DEF qaVars, QaInv, QaExact, EscalatesAtThreshold, Tells
  <2> QED BY <1>1, <2>1 DEF qaVars, QaInv, QaTypeOK, Bodies, Escalated
<1>2. CASE QaNext
  BY <1>2, MoveToQaInv, HandleWebhookInv, HandleResultInv, HandleNoResultInv,
     CopyVerdictInv, HumanUnblocksInv, EditCriteriaInv DEF QaNext
<1> QED BY <1>1, <1>2

(***************************************************************************)
(* The code graph.  A run that began while another held the lease stays    *)
(* before the markers until that one is done or killed, as long as nobody  *)
(* else is there to free them.                                             *)
(***************************************************************************)

\* A run has a step and those it waits for; its other fields do not matter.
IsRun(r) == "pc" \in DOMAIN r /\ "saw" \in DOMAIN r

Leasing == {"start", "index", "ended", "failed", "release", "give up"}

WaitsFor(p, q) ==
    q \in run[p].saw =>
        \/ run[q].pc = "killed"
        \/ run[p].pc = "wait" /\ run[q].pc \in Leasing /\ owner = q

GraphInv ==
    /\ run = [p \in GraphProc |-> run[p]]
    /\ \A p \in GraphProc : IsRun(run[p])
    /\ \A c \in children : c.of \in GraphProc
    /\ \A p, q \in GraphProc : p # q => WaitsFor(p, q)

TwoProcesses == \A p, q, r \in GraphProc : p = q \/ p = r \/ q = r

LEMMA GraphInvInit == CodegraphInit => GraphInv
<1> SUFFICES ASSUME CodegraphInit
             PROVE  GraphInv
  OBVIOUS
<1>1. run = [p \in GraphProc |-> Resting] /\ children = {}
  BY DEF CodegraphInit
<1>2. IsRun(Resting) /\ Resting.saw = {}
  BY DEF IsRun, Resting
<1> QED
  BY <1>1, <1>2 DEF GraphInv, WaitsFor

\* Of two processes, when p moves the other one stays.
LEMMA GraphMoves ==
    ASSUME GraphInv, TwoProcesses, NEW p \in GraphProc, NEW new, IsRun(new), Now(p, new),
           \A c \in children' : c.of \in GraphProc,
           \/ new.saw = {}
           \/ new.saw = run[p].saw /\ run[p].pc # "wait"
           \/ new.saw = run[p].saw /\ run[p].pc = "wait" /\ \A q \in GraphProc \ {p} :
                owner = q => run[q].pc = "killed"
           \/ new.saw = Holding /\ new.pc = "wait" /\ owner' = owner,
           run[p].pc \notin Leasing \cup {"killed"}
             \/ (owner' = owner /\ run[p].pc # "killed" /\ new.pc \in Leasing \cup {"killed"})
    PROVE  GraphInv'
<1>1. /\ run' = [q \in GraphProc |-> run'[q]] /\ run'[p] = new
      /\ \A q \in GraphProc \ {p} : run'[q] = run[q]
  BY DEF GraphInv, Now
<1>2. ASSUME NEW q \in GraphProc \ {p}
      PROVE  WaitsFor(p, q)'
  <2>1. run'[p] = new /\ run'[q] = run[q] /\ WaitsFor(p, q)
    BY <1>1 DEF GraphInv
  <2>2. CASE new.saw = {}
    BY <2>1, <2>2 DEF WaitsFor
  <2>3. CASE new.saw = run[p].saw /\ run[p].pc # "wait"
    BY <2>1, <2>3 DEF WaitsFor
  <2>4. CASE /\ new.saw = run[p].saw
             /\ \A r \in GraphProc \ {p} : owner = r => run[r].pc = "killed"
    BY <2>1, <2>4 DEF WaitsFor
  <2>5. CASE new.saw = Holding /\ new.pc = "wait" /\ owner' = owner
    <3>1. q \in Holding => run[q].pc \in Leasing /\ owner = q
      BY DEF Holding, Leasing
    <3> QED
      BY <2>1, <2>5, <3>1 DEF WaitsFor
  <2> QED
    BY <2>2, <2>3, <2>4, <2>5
<1>3. ASSUME NEW q \in GraphProc \ {p}
      PROVE  WaitsFor(q, p)'
  BY <1>1, <1>3 DEF GraphInv, WaitsFor, Leasing
<1> QED
  BY <1>1, <1>2, <1>3 DEF GraphInv, TwoProcesses

LEMMA RestingRun ==
    /\ IsRun(Resting) /\ Resting.pc = "idle" /\ Resting.saw = {}
    /\ \A a, b, d, e : LET r == [Resting EXCEPT !.pc = a, !.scope = b, !.sig = d] IN
                          IsRun(r) /\ r.pc = a /\ r.saw = {}
  BY DEF Resting, IsRun

LEMMA OnIndexRun ==
    ASSUME NEW p, IsRun(run[p]), NEW files, NEW ret
    PROVE  /\ IsRun(OnIndex(p, files, ret)) /\ OnIndex(p, files, ret).pc = "wait"
           /\ OnIndex(p, files, ret).saw = Holding
  BY DEF OnIndex, IsRun

\* Resting again, or going on before no markers.
LEMMA ResumedRun ==
    ASSUME NEW p, IsRun(run[p]), NEW ok
    PROVE  IsRun(Resumed(p, ok)) /\ Resumed(p, ok).saw = {}
  BY RestingRun DEF Resumed, IsRun

LEMMA StillGraph ==
    ASSUME GraphInv, UNCHANGED <<run, owner>>, \A c \in children' : c.of \in GraphProc
    PROVE  GraphInv'
  BY DEF GraphInv, WaitsFor

LEMMA SameChildren == GraphInv /\ UNCHANGED children => \A c \in children' : c.of \in GraphProc
  BY DEF GraphInv

LEMMA WaitForReleaseInv ==
    ASSUME GraphInv, TwoProcesses, NEW p \in GraphProc, WaitForRelease(p)
    PROVE  GraphInv'
<1>1. IsRun(run[p]) /\ run[p].pc = "wait" /\ \A c \in children' : c.of \in GraphProc
  BY SameChildren DEF GraphInv, WaitForRelease, InPc
<1>2. ASSUME NEW pc, Go(p, pc), \A q \in GraphProc : owner = q => run[q].pc = "killed"
      PROVE  GraphInv'
  <2> DEFINE new == [run[p] EXCEPT !.pc = pc]
  <2>1. IsRun(new) /\ new.saw = run[p].saw /\ Now(p, new)
    BY <1>1, <1>2 DEF Go, IsRun
  <2> HIDE DEF new
  <2>2. \A q \in GraphProc \ {p} : owner = q => run[q].pc = "killed"
    BY <1>2
  <2> QED
    BY <1>1, <2>1, <2>2, GraphMoves DEF Leasing
<1>3. CASE owner = None
  <2>1. \A q \in GraphProc : owner # q
    BY <1>3, CodegraphAssumption
  <2>2. CASE Now(p, Resumed(p, FALSE))
    BY <1>1, <2>2, ResumedRun, GraphMoves DEF Leasing
  <2> QED
    BY <1>2, <1>3, <2>1, <2>2 DEF WaitForRelease
<1>4. CASE owner # None
  <2>1. CASE OwnerGone(owner) /\ Go(p, "clear")
    BY <1>2, <2>1 DEF OwnerGone, Alive, InPc
  <2>2. CASE Now(p, Resumed(p, FALSE))
    BY <1>1, <2>2, ResumedRun, GraphMoves DEF Leasing
  <2> QED
    BY <1>4, <2>1, <2>2 DEF WaitForRelease
<1> QED
  BY <1>3, <1>4

\* A step to another place of a run that is not before the markers.
LEMMA GoInv ==
    ASSUME GraphInv, TwoProcesses, NEW p \in GraphProc, NEW pc, Go(p, pc),
           run[p].pc # "wait", \A c \in children' : c.of \in GraphProc,
           run[p].pc \notin Leasing \cup {"killed"}
             \/ (owner' = owner /\ run[p].pc # "killed" /\ pc \in Leasing \cup {"killed"})
    PROVE  GraphInv'
<1>1. IsRun(run[p])
  BY DEF GraphInv
<1> DEFINE new == [run[p] EXCEPT !.pc = pc]
<1>2. IsRun(new) /\ new.pc = pc /\ new.saw = run[p].saw /\ Now(p, new)
  BY <1>1 DEF Go, IsRun
<1> HIDE DEF new
<1> QED
  BY <1>2, GraphMoves

LEMMA ClearArtifactsInv ==
    ASSUME GraphInv, TwoProcesses, NEW p \in GraphProc, ClearArtifacts(p)
    PROVE  GraphInv'
  BY GoInv, SameChildren DEF ClearArtifacts, InPc, Leasing

LEMMA UnlinkStaleLockInv ==
    ASSUME GraphInv, TwoProcesses, NEW p \in GraphProc, UnlinkStaleLock(p)
    PROVE  GraphInv'
  BY GoInv, SameChildren DEF UnlinkStaleLock, InPc, Leasing

LEMMA ClaimMarkersInv ==
    ASSUME GraphInv, TwoProcesses, NEW p \in GraphProc, ClaimMarkers(p)
    PROVE  GraphInv'
<1>1. \A c \in children' : c.of \in GraphProc
  BY SameChildren DEF ClaimMarkers
<1>2. run[p].pc \in {"claim", "sign", "lock"} /\ \E pc : Go(p, pc)
  BY DEF ClaimMarkers, InPc
<1> QED
  BY <1>1, <1>2, GoInv DEF Leasing

LEMMA StartIndexInv ==
    ASSUME GraphInv, TwoProcesses, NEW p \in GraphProc, StartIndex(p)
    PROVE  GraphInv'
<1>1. \A c \in children' : c.of \in GraphProc
  BY DEF GraphInv, StartIndex
<1> QED
  BY <1>1, GoInv DEF StartIndex, InPc, Leasing, UnderLease

LEMMA RecordedInv ==
    ASSUME GraphInv, TwoProcesses, NEW p \in GraphProc, Recorded(p)
    PROVE  GraphInv'
<1>1. \A c \in children' : c.of \in GraphProc
  BY SameChildren DEF Recorded
<1>2. CASE InPc(p, "ended")
  BY <1>1, <1>2, GoInv DEF Recorded, InPc, Leasing, UnderLease
<1>3. CASE InPc(p, "failed")
  BY <1>1, <1>3, GoInv DEF Recorded, InPc, Leasing, UnderLease
<1> QED
  BY <1>2, <1>3 DEF Recorded, InPc

LEMMA IndexCallInv ==
    ASSUME GraphInv, TwoProcesses, NEW p \in Indexer, NEW files, IndexCall(p, files)
    PROVE  GraphInv'
<1> DEFINE new == OnIndex(p, files, "idle")
<1>1. p \in GraphProc /\ run[p].pc = "idle" /\ owner' = owner /\ Now(p, new)
      /\ \A c \in children' : c.of \in GraphProc
  BY SameChildren DEF IndexCall, InPc, GraphProc
<1>2. IsRun(new) /\ new.pc = "wait" /\ new.saw = Holding
  BY <1>1, OnIndexRun DEF GraphInv
<1> HIDE DEF new
<1> QED
  BY <1>1, <1>2, GraphMoves DEF Leasing

LEMMA KillRunInv ==
    ASSUME GraphInv, TwoProcesses, NEW p \in Indexer, KillRun(p)
    PROVE  GraphInv'
<1> DEFINE new == [Resting EXCEPT !.pc = "killed"]
<1>1. p \in GraphProc /\ run[p].pc # "killed" /\ owner' = owner /\ Now(p, new)
      /\ \A c \in children' : c.of \in GraphProc
  BY SameChildren DEF KillRun, GraphProc, UnderLease
<1>2. IsRun(new) /\ new.pc = "killed" /\ new.saw = {}
  BY RestingRun DEF IsRun
<1> HIDE DEF new
<1> QED
  BY <1>1, <1>2, GraphMoves

LEMMA CgcEndsInv ==
    ASSUME GraphInv, TwoProcesses, NEW c \in children, CgcEnds(c)
    PROVE  GraphInv'
<1>1. c.of \in GraphProc /\ owner' = owner /\ \A e \in children' : e.of \in GraphProc
  BY DEF GraphInv, CgcEnds, UnderLease
<1>2. CASE InPc(c.of, "index")
  <2>1. PICK ok, memory : Learns(c, ok, memory)
    BY DEF CgcEnds
  <2> DEFINE pc == IF ok THEN "ended" ELSE "failed"
             new == [run[c.of] EXCEPT !.pc = pc, !.how = IF memory THEN "memory" ELSE @]
  <2>2. Now(c.of, new) /\ run[c.of].pc = "index"
    BY <1>2, <2>1 DEF Learns, InPc
  <2>3. IsRun(new) /\ new.pc = pc /\ new.saw = run[c.of].saw
    BY <1>1 DEF GraphInv, IsRun
  <2>4. pc \in {"ended", "failed"}
    OBVIOUS
  <2> HIDE DEF new, pc
  <2> QED
    BY <1>1, <2>2, <2>3, <2>4, GraphMoves DEF Leasing
<1>3. CASE ~InPc(c.of, "index")
  BY <1>1, <1>3, StillGraph DEF CgcEnds, Learns
<1> QED
  BY <1>2, <1>3

LEMMA ReleaseInv ==
    ASSUME GraphInv, TwoProcesses, NEW p \in GraphProc, Release(p)
    PROVE  GraphInv'
<1> DEFINE new == Resumed(p, InPc(p, "release"))
<1>1. IsRun(new) /\ new.saw = {}
  BY ResumedRun DEF GraphInv
<1>2. /\ run' = [q \in GraphProc |-> IF q = p THEN new ELSE [run[q] EXCEPT !.saw = @ \ {p}]]
      /\ \A c \in children' : c.of \in GraphProc
  BY SameChildren DEF Release
<1> HIDE DEF new
<1>3. ASSUME NEW q \in GraphProc \ {p}
      PROVE  IsRun(run'[q]) /\ run'[q].saw = run[q].saw \ {p}
  <2>1. run'[q] = [run[q] EXCEPT !.saw = run[q].saw \ {p}] /\ IsRun(run[q])
    BY <1>2 DEF GraphInv
  <2> QED
    BY <2>1 DEF IsRun
<1>4. run' = [q \in GraphProc |-> run'[q]] /\ run'[p] = new
  BY <1>2
<1>5. ASSUME NEW q \in GraphProc \ {p}
      PROVE  WaitsFor(p, q)' /\ WaitsFor(q, p)'
  BY <1>1, <1>3, <1>4 DEF WaitsFor
<1>6. \A q \in GraphProc : IsRun(run[q])'
  BY <1>1, <1>3, <1>4
<1> QED
  BY <1>2, <1>4, <1>5, <1>6 DEF GraphInv, TwoProcesses

LEMMA RestInv ==
    ASSUME GraphInv, TwoProcesses, NEW p \in GraphProc, NEW new, Now(p, new), IsRun(new),
           new.saw = {} \/ (new.saw = run[p].saw /\ run[p].pc # "wait"),
           run[p].pc \notin Leasing \cup {"killed"}, UNCHANGED children
    PROVE  GraphInv'
  BY SameChildren, GraphMoves

LEMMA CallsInv ==
    ASSUME GraphInv, TwoProcesses, NEW p \in Finder, NEW s \in Scope,
           DiscoverCall(p, s) \/ FindCall(p, s) \/ PreflightLook(p)
    PROVE  GraphInv'
<1>1. p \in GraphProc /\ run[p].pc = "idle" /\ UNCHANGED children
  BY DEF GraphProc, DiscoverCall, FindCall, PreflightLook, InPc
<1>2. ASSUME NEW new, Now(p, new), IsRun(new), new.saw = {}
      PROVE  GraphInv'
  BY <1>1, <1>2, RestInv DEF Leasing
<1>3. CASE DiscoverCall(p, s)
  BY <1>2, <1>3, RestingRun DEF DiscoverCall, Resting, IsRun
<1>4. CASE FindCall(p, s)
  BY <1>2, <1>4 DEF FindCall, Resting, IsRun
<1>5. CASE PreflightLook(p)
  BY <1>2, <1>5 DEF PreflightLook, Resting, IsRun
<1> QED
  BY <1>3, <1>4, <1>5

\* A finder that leaves an index run to an idle process.
LEMMA LeaveInv ==
    ASSUME GraphInv, TwoProcesses, NEW p \in Finder, NEW h \in Indexer, NEW new, NEW files,
           run[p].pc \notin Leasing \cup {"killed", "wait"}, run[p].pc # "idle",
           run[h].pc = "idle", IsRun(new), new.saw = {} \/ new.saw = run[p].saw,
           run' = [run EXCEPT ![p] = new, ![h] = OnIndex(h, files, "idle")],
           UNCHANGED <<owner, children>>
    PROVE  GraphInv'
<1> DEFINE there == OnIndex(h, files, "idle")
<1>1. p \in GraphProc /\ h \in GraphProc /\ p # h /\ \A c \in children' : c.of \in GraphProc
  BY SameChildren DEF GraphProc
<1>2. IsRun(there) /\ there.pc = "wait" /\ there.saw = Holding
  BY <1>1, OnIndexRun DEF GraphInv
<1> HIDE DEF there
<1>3. /\ run' = [q \in GraphProc |-> run'[q]] /\ run'[p] = new /\ run'[h] = there
      /\ \A q \in GraphProc : q = p \/ q = h
  BY <1>1 DEF GraphInv, TwoProcesses, there
<1>4. WaitsFor(p, h)'
  BY <1>1, <1>3 DEF GraphInv, WaitsFor
<1>5. WaitsFor(h, p)'
  BY <1>2, <1>3 DEF WaitsFor, Holding, Leasing
<1>6. \A q \in GraphProc : IsRun(run[q])'
  BY <1>2, <1>3
<1> QED
  BY <1>1, <1>3, <1>4, <1>5, <1>6 DEF GraphInv

LEMMA PreflightLaunchInv ==
    ASSUME GraphInv, TwoProcesses, NEW p \in Finder, PreflightLaunch(p)
    PROVE  GraphInv'
<1>1. p \in GraphProc /\ run[p].pc = "preflight" /\ UNCHANGED <<owner, children>>
  BY DEF GraphProc, PreflightLaunch, InPc, UnderLease
<1>2. CASE Now(p, Resting)
  BY <1>1, <1>2, RestingRun, RestInv DEF Leasing
<1>3. CASE \E h \in Indexer :
             /\ InPc(h, "idle")
             /\ run' = [run EXCEPT ![p] = Resting, ![h] = Preflight(h, run[p].scope)]
  <2>1. PICK h \in Indexer : /\ run[h].pc = "idle"
                             /\ run' = [run EXCEPT ![p] = Resting,
                                                   ![h] = OnIndex(h, {run[p].scope}, "idle")]
    BY <1>3 DEF InPc, Preflight
  <2> QED
    BY <1>1, <2>1, RestingRun, LeaveInv DEF Leasing
<1> QED
  BY <1>2, <1>3 DEF PreflightLaunch, Now

\* A finder that goes on by itself keeps whom it waits for, or begins to wait.
LEMMA FinderMovesInv ==
    ASSUME GraphInv, TwoProcesses, NEW p \in Finder, NEW new, Now(p, new), IsRun(new),
           \/ new.saw = {} \/ new.saw = run[p].saw
           \/ new.saw = Holding /\ new.pc = "wait",
           run[p].pc \notin Leasing \cup {"killed", "wait"},
           UNCHANGED <<owner, children>>
    PROVE  GraphInv'
<1>1. p \in GraphProc /\ \A c \in children' : c.of \in GraphProc
  BY SameChildren DEF GraphProc
<1> QED
  BY <1>1, GraphMoves

LEMMA StaleGraphInv ==
    ASSUME GraphInv, TwoProcesses, NEW p \in Finder, StaleGraph(p)
    PROVE  GraphInv'
<1> DEFINE files == IF GraphDrift # {} THEN FilesAt(GraphDrift) ELSE {run[p].scope} \cap File
           first == [OnIndex(p, files, "reprobe") EXCEPT !.how = "refreshed"]
           behind == [run[p] EXCEPT !.pc = "healthy", !.how = "behind"]
<1>1. /\ IsRun(run[p]) /\ run[p].pc = "stale" /\ UNCHANGED <<owner, children>>
  BY DEF GraphInv, GraphProc, StaleGraph, InPc, UnderLease
<1>2. IsRun(first) /\ first.saw = Holding /\ first.pc = "wait"
  BY <1>1, OnIndexRun DEF IsRun
<1>3. IsRun(behind) /\ behind.saw = run[p].saw
  BY <1>1 DEF IsRun
<1>4. \/ Now(p, first) \/ Now(p, behind)
      \/ \E h \in Indexer : /\ run[h].pc = "idle"
                            /\ run' = [run EXCEPT ![p] = behind, ![h] = OnIndex(h, files, "idle")]
  BY DEF StaleGraph, InPc
<1> HIDE DEF files, first, behind
<1>5. CASE Now(p, first)
  BY <1>1, <1>2, <1>5, FinderMovesInv DEF Leasing
<1>6. CASE Now(p, behind)
  BY <1>1, <1>3, <1>6, FinderMovesInv DEF Leasing
<1>7. CASE \E h \in Indexer : /\ run[h].pc = "idle"
                              /\ run' = [run EXCEPT ![p] = behind, ![h] = OnIndex(h, files, "idle")]
  <2>1. PICK h \in Indexer : /\ run[h].pc = "idle"
                             /\ run' = [run EXCEPT ![p] = behind, ![h] = OnIndex(h, files, "idle")]
    BY <1>7
  <2> QED
    BY <1>1, <1>3, <2>1, LeaveInv DEF Leasing
<1> QED
  BY <1>4, <1>5, <1>6, <1>7

LEMMA AskingInv ==
    ASSUME GraphInv, TwoProcesses, NEW p \in Finder,
           \/ ProbeGraph(p) \/ Reprobe(p) \/ LockedGraph(p) \/ Recheck(p)
           \/ UnavailableGraph(p) \/ Discover(p) \/ Find(p) \/ Told(p)
    PROVE  GraphInv'
<1>1. /\ IsRun(run[p]) /\ UNCHANGED <<owner, children>>
      /\ run[p].pc \in {"probe", "reprobe", "locked", "recheck", "unavailable", "healthy",
                        "find", "told"}
  BY DEF GraphInv, GraphProc, ProbeGraph, Reprobe, LockedGraph, Recheck, UnavailableGraph,
         Discover, Find, Told, InPc, UnderLease
<1>2. ASSUME NEW new, Now(p, new), IsRun(new),
             \/ new.saw = {} \/ new.saw = run[p].saw
             \/ new.saw = Holding /\ new.pc = "wait"
      PROVE  GraphInv'
  BY <1>1, <1>2, FinderMovesInv DEF Leasing
<1>3. CASE Now(p, Resting)
  BY <1>2, <1>3, RestingRun
<1>4. CASE \E pc, how, got : \/ Now(p, [run[p] EXCEPT !.pc = pc])
                             \/ Now(p, [run[p] EXCEPT !.pc = pc, !.how = how])
                             \/ Now(p, [run[p] EXCEPT !.pc = pc, !.got = got])
                             \/ Now(p, [run[p] EXCEPT !.pc = pc, !.got = got, !.how = how])
  <2>1. PICK pc, how, got : \/ Now(p, [run[p] EXCEPT !.pc = pc])
                            \/ Now(p, [run[p] EXCEPT !.pc = pc, !.how = how])
                            \/ Now(p, [run[p] EXCEPT !.pc = pc, !.got = got])
                            \/ Now(p, [run[p] EXCEPT !.pc = pc, !.got = got, !.how = how])
    BY <1>4
  <2>2. ASSUME NEW new, Now(p, new), IsRun(new), new.saw = run[p].saw
        PROVE  GraphInv'
    BY <1>2, <2>2
  <2>3. CASE Now(p, [run[p] EXCEPT !.pc = pc])
    BY <1>1, <2>2, <2>3 DEF IsRun
  <2>4. CASE Now(p, [run[p] EXCEPT !.pc = pc, !.how = how])
    BY <1>1, <2>2, <2>4 DEF IsRun
  <2>5. CASE Now(p, [run[p] EXCEPT !.pc = pc, !.got = got])
    BY <1>1, <2>2, <2>5 DEF IsRun
  <2>6. CASE Now(p, [run[p] EXCEPT !.pc = pc, !.got = got, !.how = how])
    BY <1>1, <2>2, <2>6 DEF IsRun
  <2> QED
    BY <2>1, <2>3, <2>4, <2>5, <2>6
<1>5. CASE LockedGraph(p) /\ ~Now(p, Resting)
  <2> DEFINE new == [OnIndex(p, {run[p].scope}, "recheck") EXCEPT !.tries = @ + 1]
  <2>1. Now(p, new)
    BY <1>5 DEF LockedGraph
  <2>2. IsRun(new) /\ new.saw = Holding /\ new.pc = "wait"
    BY <1>1, OnIndexRun DEF IsRun
  <2> HIDE DEF new
  <2> QED
    BY <1>2, <2>1, <2>2
<1>6. CASE Discover(p) /\ Now(p, [OnIndex(p, {run[p].scope}, "healthy") EXCEPT !.how = "healed"])
  <2> DEFINE new == [OnIndex(p, {run[p].scope}, "healthy") EXCEPT !.how = "healed"]
  <2>1. IsRun(new) /\ new.saw = Holding /\ new.pc = "wait"
    BY <1>1, OnIndexRun DEF IsRun
  <2> HIDE DEF new
  <2> QED
    BY <1>2, <1>6, <2>1 DEF new
<1>7. CASE ProbeGraph(p) \/ Reprobe(p) \/ Recheck(p) \/ UnavailableGraph(p)
  BY <1>3, <1>4, <1>7 DEF ProbeGraph, Reprobe, Recheck, UnavailableGraph, Go
<1>8. CASE Discover(p) \/ Find(p) \/ Told(p)
  BY <1>3, <1>4, <1>6, <1>8 DEF Discover, Find, Told
<1> QED
  BY <1>3, <1>5, <1>7, <1>8

LEMMA GraphInvStep ==
    ASSUME TwoProcesses
    PROVE  GraphInv /\ [CodegraphNext]_<<treeVars, graphVars>> => GraphInv'
<1> SUFFICES ASSUME GraphInv, [CodegraphNext]_<<treeVars, graphVars>>
             PROVE  GraphInv'
  OBVIOUS
<1>1. CASE UNCHANGED <<treeVars, graphVars>>
  BY <1>1, SameChildren, StillGraph DEF graphVars
<1>2. CASE LockAges \/ \E f \in File : SourceEdited(f)
  BY <1>2, SameChildren, StillGraph DEF LockAges, SourceEdited, UnderLease
<1>3. CASE \E p \in Indexer, files \in SUBSET File \ {{}} : IndexCall(p, files)
  BY <1>3, IndexCallInv
<1>4. CASE \E p \in Indexer : KillRun(p)
  BY <1>4, KillRunInv
<1>5. CASE \E p \in GraphProc :
             WaitForRelease(p) \/ ClearArtifacts(p) \/ UnlinkStaleLock(p) \/ ClaimMarkers(p)
                \/ StartIndex(p) \/ Recorded(p) \/ Release(p)
  BY <1>5, WaitForReleaseInv, ClearArtifactsInv, UnlinkStaleLockInv, ClaimMarkersInv,
     StartIndexInv, RecordedInv, ReleaseInv
<1>6. CASE \E c \in children : CgcEnds(c)
  BY <1>6, CgcEndsInv
<1>7. CASE \E p \in Finder, s \in Scope : DiscoverCall(p, s) \/ FindCall(p, s)
  BY <1>7, CallsInv
<1>8. CASE \E p \in Finder : PreflightLook(p) \/ PreflightLaunch(p) \/ StaleGraph(p)
  <2>1. "root" \in Scope
    BY DEF Scope
  <2> QED
    BY <1>8, <2>1, CallsInv, PreflightLaunchInv, StaleGraphInv
<1>9. CASE \E p \in Finder :
             ProbeGraph(p) \/ Reprobe(p) \/ LockedGraph(p) \/ Recheck(p)
                \/ UnavailableGraph(p) \/ Discover(p) \/ Find(p) \/ Told(p)
  BY <1>9, AskingInv
<1> QED
  BY <1>1, <1>2, <1>3, <1>4, <1>5, <1>6, <1>7, <1>8, <1>9 DEF CodegraphNext

LEMMA GraphInvWait == GraphInv => LateRunsWait
  BY DEF GraphInv, WaitsFor, LateRunsWait, Indexing, InPc

(***************************************************************************)
(* The game.  The cells add up because the cells of the full rows are a    *)
(* product, and because the map that lets the others fall is one-to-one.   *)
(***************************************************************************)
Board == (0 .. Width - 1) \X (0 .. Height - 1)
PieceKind == {"I", "O", "T", "S", "Z", "J", "L"}
IsPiece(p) == p \in [kind : PieceKind, turn : 0 .. 3, x : Int, y : Int]

GameInv ==
    /\ stack \subseteq Board
    /\ score.lines \in Nat
    /\ queue \in Seq(PieceKind)
    /\ barred \in BOOLEAN
    /\ Active => IsPiece(piece) /\ CanPlace(piece, stack) /\ ~barred
    /\ CellsAddUp

Differ(a, b, c, d) == a # b /\ a # c /\ a # d /\ b # c /\ b # d /\ c # d

LEMMA FourElements ==
    \A a, b, c, d :
       Differ(a, b, c, d) => IsFiniteSet({a, b, c, d}) /\ Cardinality({a, b, c, d}) = 4
<1> SUFFICES ASSUME NEW a, NEW b, NEW c, NEW d, Differ(a, b, c, d)
             PROVE  IsFiniteSet({a, b, c, d}) /\ Cardinality({a, b, c, d}) = 4
  OBVIOUS
<1> USE DEF Differ
<1>1. IsFiniteSet({a}) /\ Cardinality({a}) = 1
  BY FS_Singleton
<1>2. IsFiniteSet({a} \cup {b}) /\ Cardinality({a} \cup {b}) = 2
  BY <1>1, FS_AddElement
<1>3. IsFiniteSet(({a} \cup {b}) \cup {c}) /\ Cardinality(({a} \cup {b}) \cup {c}) = 3
  BY <1>2, FS_AddElement
<1>4. /\ IsFiniteSet((({a} \cup {b}) \cup {c}) \cup {d})
      /\ Cardinality((({a} \cup {b}) \cup {c}) \cup {d}) = 4
  BY <1>3, FS_AddElement
<1>5. (({a} \cup {b}) \cup {c}) \cup {d} = {a, b, c, d}
  OBVIOUS
<1> QED BY <1>4, <1>5

\* Every orientation of a piece has four cells.
FourCells(S) ==
    \E a, b, c, d \in Nat \X Nat : S = {a, b, c, d} /\ Differ(a, b, c, d)

LEMMA DifferentCells ==
    ASSUME NEW a \in Nat \X Nat, NEW b \in Nat \X Nat, NEW c \in Nat \X Nat,
           NEW d \in Nat \X Nat, Differ(a, b, c, d)
    PROVE  FourCells({a, b, c, d})
  BY DEF FourCells

LEMMA OrientationCells ==
    ASSUME NEW k \in PieceKind, NEW i \in 1 .. 4
    PROVE  FourCells(Orientations[k][i])
<1>0. i = 1 \/ i = 2 \/ i = 3 \/ i = 4
  OBVIOUS
<1>1. CASE k = "I"
  <2>1. /\ Differ(<<0, 1>>, <<1, 1>>, <<2, 1>>, <<3, 1>>)
        /\ Differ(<<2, 0>>, <<2, 1>>, <<2, 2>>, <<2, 3>>)
        /\ Differ(<<0, 2>>, <<1, 2>>, <<2, 2>>, <<3, 2>>)
        /\ Differ(<<1, 0>>, <<1, 1>>, <<1, 2>>, <<1, 3>>)
    BY DEF Differ
  <2>2. /\ FourCells({<<0, 1>>, <<1, 1>>, <<2, 1>>, <<3, 1>>})
        /\ FourCells({<<2, 0>>, <<2, 1>>, <<2, 2>>, <<2, 3>>})
        /\ FourCells({<<0, 2>>, <<1, 2>>, <<2, 2>>, <<3, 2>>})
        /\ FourCells({<<1, 0>>, <<1, 1>>, <<1, 2>>, <<1, 3>>})
    BY <2>1, DifferentCells
  <2>3. /\ Orientations["I"][1] = {<<0, 1>>, <<1, 1>>, <<2, 1>>, <<3, 1>>}
        /\ Orientations["I"][2] = {<<2, 0>>, <<2, 1>>, <<2, 2>>, <<2, 3>>}
        /\ Orientations["I"][3] = {<<0, 2>>, <<1, 2>>, <<2, 2>>, <<3, 2>>}
        /\ Orientations["I"][4] = {<<1, 0>>, <<1, 1>>, <<1, 2>>, <<1, 3>>}
    BY DEF Orientations
  <2> QED BY <1>0, <1>1, <2>2, <2>3
<1>2. CASE k = "O"
  <2>1. /\ Differ(<<1, 0>>, <<2, 0>>, <<1, 1>>, <<2, 1>>)
        /\ Differ(<<1, 0>>, <<2, 0>>, <<1, 1>>, <<2, 1>>)
        /\ Differ(<<1, 0>>, <<2, 0>>, <<1, 1>>, <<2, 1>>)
        /\ Differ(<<1, 0>>, <<2, 0>>, <<1, 1>>, <<2, 1>>)
    BY DEF Differ
  <2>2. /\ FourCells({<<1, 0>>, <<2, 0>>, <<1, 1>>, <<2, 1>>})
        /\ FourCells({<<1, 0>>, <<2, 0>>, <<1, 1>>, <<2, 1>>})
        /\ FourCells({<<1, 0>>, <<2, 0>>, <<1, 1>>, <<2, 1>>})
        /\ FourCells({<<1, 0>>, <<2, 0>>, <<1, 1>>, <<2, 1>>})
    BY <2>1, DifferentCells
  <2>3. /\ Orientations["O"][1] = {<<1, 0>>, <<2, 0>>, <<1, 1>>, <<2, 1>>}
        /\ Orientations["O"][2] = {<<1, 0>>, <<2, 0>>, <<1, 1>>, <<2, 1>>}
        /\ Orientations["O"][3] = {<<1, 0>>, <<2, 0>>, <<1, 1>>, <<2, 1>>}
        /\ Orientations["O"][4] = {<<1, 0>>, <<2, 0>>, <<1, 1>>, <<2, 1>>}
    BY DEF Orientations
  <2> QED BY <1>0, <1>2, <2>2, <2>3
<1>3. CASE k = "T"
  <2>1. /\ Differ(<<1, 0>>, <<0, 1>>, <<1, 1>>, <<2, 1>>)
        /\ Differ(<<1, 0>>, <<1, 1>>, <<2, 1>>, <<1, 2>>)
        /\ Differ(<<0, 1>>, <<1, 1>>, <<2, 1>>, <<1, 2>>)
        /\ Differ(<<1, 0>>, <<0, 1>>, <<1, 1>>, <<1, 2>>)
    BY DEF Differ
  <2>2. /\ FourCells({<<1, 0>>, <<0, 1>>, <<1, 1>>, <<2, 1>>})
        /\ FourCells({<<1, 0>>, <<1, 1>>, <<2, 1>>, <<1, 2>>})
        /\ FourCells({<<0, 1>>, <<1, 1>>, <<2, 1>>, <<1, 2>>})
        /\ FourCells({<<1, 0>>, <<0, 1>>, <<1, 1>>, <<1, 2>>})
    BY <2>1, DifferentCells
  <2>3. /\ Orientations["T"][1] = {<<1, 0>>, <<0, 1>>, <<1, 1>>, <<2, 1>>}
        /\ Orientations["T"][2] = {<<1, 0>>, <<1, 1>>, <<2, 1>>, <<1, 2>>}
        /\ Orientations["T"][3] = {<<0, 1>>, <<1, 1>>, <<2, 1>>, <<1, 2>>}
        /\ Orientations["T"][4] = {<<1, 0>>, <<0, 1>>, <<1, 1>>, <<1, 2>>}
    BY DEF Orientations
  <2> QED BY <1>0, <1>3, <2>2, <2>3
<1>4. CASE k = "S"
  <2>1. /\ Differ(<<1, 0>>, <<2, 0>>, <<0, 1>>, <<1, 1>>)
        /\ Differ(<<1, 0>>, <<1, 1>>, <<2, 1>>, <<2, 2>>)
        /\ Differ(<<1, 1>>, <<2, 1>>, <<0, 2>>, <<1, 2>>)
        /\ Differ(<<0, 0>>, <<0, 1>>, <<1, 1>>, <<1, 2>>)
    BY DEF Differ
  <2>2. /\ FourCells({<<1, 0>>, <<2, 0>>, <<0, 1>>, <<1, 1>>})
        /\ FourCells({<<1, 0>>, <<1, 1>>, <<2, 1>>, <<2, 2>>})
        /\ FourCells({<<1, 1>>, <<2, 1>>, <<0, 2>>, <<1, 2>>})
        /\ FourCells({<<0, 0>>, <<0, 1>>, <<1, 1>>, <<1, 2>>})
    BY <2>1, DifferentCells
  <2>3. /\ Orientations["S"][1] = {<<1, 0>>, <<2, 0>>, <<0, 1>>, <<1, 1>>}
        /\ Orientations["S"][2] = {<<1, 0>>, <<1, 1>>, <<2, 1>>, <<2, 2>>}
        /\ Orientations["S"][3] = {<<1, 1>>, <<2, 1>>, <<0, 2>>, <<1, 2>>}
        /\ Orientations["S"][4] = {<<0, 0>>, <<0, 1>>, <<1, 1>>, <<1, 2>>}
    BY DEF Orientations
  <2> QED BY <1>0, <1>4, <2>2, <2>3
<1>5. CASE k = "Z"
  <2>1. /\ Differ(<<0, 0>>, <<1, 0>>, <<1, 1>>, <<2, 1>>)
        /\ Differ(<<2, 0>>, <<1, 1>>, <<2, 1>>, <<1, 2>>)
        /\ Differ(<<0, 1>>, <<1, 1>>, <<1, 2>>, <<2, 2>>)
        /\ Differ(<<1, 0>>, <<0, 1>>, <<1, 1>>, <<0, 2>>)
    BY DEF Differ
  <2>2. /\ FourCells({<<0, 0>>, <<1, 0>>, <<1, 1>>, <<2, 1>>})
        /\ FourCells({<<2, 0>>, <<1, 1>>, <<2, 1>>, <<1, 2>>})
        /\ FourCells({<<0, 1>>, <<1, 1>>, <<1, 2>>, <<2, 2>>})
        /\ FourCells({<<1, 0>>, <<0, 1>>, <<1, 1>>, <<0, 2>>})
    BY <2>1, DifferentCells
  <2>3. /\ Orientations["Z"][1] = {<<0, 0>>, <<1, 0>>, <<1, 1>>, <<2, 1>>}
        /\ Orientations["Z"][2] = {<<2, 0>>, <<1, 1>>, <<2, 1>>, <<1, 2>>}
        /\ Orientations["Z"][3] = {<<0, 1>>, <<1, 1>>, <<1, 2>>, <<2, 2>>}
        /\ Orientations["Z"][4] = {<<1, 0>>, <<0, 1>>, <<1, 1>>, <<0, 2>>}
    BY DEF Orientations
  <2> QED BY <1>0, <1>5, <2>2, <2>3
<1>6. CASE k = "J"
  <2>1. /\ Differ(<<0, 0>>, <<0, 1>>, <<1, 1>>, <<2, 1>>)
        /\ Differ(<<1, 0>>, <<2, 0>>, <<1, 1>>, <<1, 2>>)
        /\ Differ(<<0, 1>>, <<1, 1>>, <<2, 1>>, <<2, 2>>)
        /\ Differ(<<1, 0>>, <<1, 1>>, <<0, 2>>, <<1, 2>>)
    BY DEF Differ
  <2>2. /\ FourCells({<<0, 0>>, <<0, 1>>, <<1, 1>>, <<2, 1>>})
        /\ FourCells({<<1, 0>>, <<2, 0>>, <<1, 1>>, <<1, 2>>})
        /\ FourCells({<<0, 1>>, <<1, 1>>, <<2, 1>>, <<2, 2>>})
        /\ FourCells({<<1, 0>>, <<1, 1>>, <<0, 2>>, <<1, 2>>})
    BY <2>1, DifferentCells
  <2>3. /\ Orientations["J"][1] = {<<0, 0>>, <<0, 1>>, <<1, 1>>, <<2, 1>>}
        /\ Orientations["J"][2] = {<<1, 0>>, <<2, 0>>, <<1, 1>>, <<1, 2>>}
        /\ Orientations["J"][3] = {<<0, 1>>, <<1, 1>>, <<2, 1>>, <<2, 2>>}
        /\ Orientations["J"][4] = {<<1, 0>>, <<1, 1>>, <<0, 2>>, <<1, 2>>}
    BY DEF Orientations
  <2> QED BY <1>0, <1>6, <2>2, <2>3
<1>7. CASE k = "L"
  <2>1. /\ Differ(<<2, 0>>, <<0, 1>>, <<1, 1>>, <<2, 1>>)
        /\ Differ(<<1, 0>>, <<1, 1>>, <<1, 2>>, <<2, 2>>)
        /\ Differ(<<0, 1>>, <<1, 1>>, <<2, 1>>, <<0, 2>>)
        /\ Differ(<<0, 0>>, <<1, 0>>, <<1, 1>>, <<1, 2>>)
    BY DEF Differ
  <2>2. /\ FourCells({<<2, 0>>, <<0, 1>>, <<1, 1>>, <<2, 1>>})
        /\ FourCells({<<1, 0>>, <<1, 1>>, <<1, 2>>, <<2, 2>>})
        /\ FourCells({<<0, 1>>, <<1, 1>>, <<2, 1>>, <<0, 2>>})
        /\ FourCells({<<0, 0>>, <<1, 0>>, <<1, 1>>, <<1, 2>>})
    BY <2>1, DifferentCells
  <2>3. /\ Orientations["L"][1] = {<<2, 0>>, <<0, 1>>, <<1, 1>>, <<2, 1>>}
        /\ Orientations["L"][2] = {<<1, 0>>, <<1, 1>>, <<1, 2>>, <<2, 2>>}
        /\ Orientations["L"][3] = {<<0, 1>>, <<1, 1>>, <<2, 1>>, <<0, 2>>}
        /\ Orientations["L"][4] = {<<0, 0>>, <<1, 0>>, <<1, 1>>, <<1, 2>>}
    BY DEF Orientations
  <2> QED BY <1>0, <1>7, <2>2, <2>3
<1> QED BY <1>1, <1>2, <1>3, <1>4, <1>5, <1>6, <1>7 DEF PieceKind

\* Wherever it is, a piece takes four cells.
LEMMA PieceCells ==
    ASSUME NEW p, IsPiece(p)
    PROVE  IsFiniteSet(Cells(p)) /\ Cardinality(Cells(p)) = 4
<1> DEFINE at(c) == <<p.x + c[1], p.y + c[2]>>
<1>1. p.kind \in PieceKind /\ p.turn + 1 \in 1 .. 4 /\ p.x \in Int /\ p.y \in Int
  BY DEF IsPiece
<1>2. PICK a, b, c, d \in Nat \X Nat :
         Orientations[p.kind][p.turn + 1] = {a, b, c, d} /\ Differ(a, b, c, d)
  BY <1>1, OrientationCells DEF FourCells
<1>3. Cells(p) = {at(a), at(b), at(c), at(d)}
  BY <1>2 DEF Cells
<1>4. ASSUME NEW e \in Nat \X Nat, NEW f \in Nat \X Nat, e # f
      PROVE  at(e) # at(f)
  <2>1. e = <<e[1], e[2]>> /\ f = <<f[1], f[2]>>
    OBVIOUS
  <2>2. e[1] \in Nat /\ e[2] \in Nat /\ f[1] \in Nat /\ f[2] \in Nat
    OBVIOUS
  <2>3. p.x + e[1] # p.x + f[1] \/ p.y + e[2] # p.y + f[2]
    BY <1>1, <1>4, <2>1, <2>2
  <2> QED BY <2>3
<1>5. Differ(at(a), at(b), at(c), at(d))
  BY <1>2, <1>4 DEF Differ
<1> HIDE DEF at
<1> QED BY <1>3, <1>5, FourElements

\* How far a cell of row y falls when the rows of S are cleared.
Falls(S, y) == Cardinality({r \in S : r > y})

\* What falls keeps its order, and stays on the board.
LEMMA FallsInOrder ==
    ASSUME NEW S \in SUBSET (0 .. Height - 1)
    PROVE  /\ \A y \in 0 .. Height - 1 : Falls(S, y) \in Nat /\ y + Falls(S, y) <= Height - 1
           /\ \A y, z \in 0 .. Height - 1 : z \notin S /\ y < z => y + Falls(S, y) < z + Falls(S, z)
<1>1. Height \in Nat
  BY TetrisAssumption
<1>2. ASSUME NEW a \in Int, NEW b \in Int, NEW T, T \subseteq a .. b
      PROVE  /\ IsFiniteSet(T) /\ Cardinality(T) \in Nat
             /\ Cardinality(T) <= IF a > b THEN 0 ELSE b - a + 1
  <2>1. IsFiniteSet(a .. b) /\ Cardinality(a .. b) = IF a > b THEN 0 ELSE b - a + 1
    BY FS_Interval
  <2> QED BY <1>2, <2>1, FS_Subset, FS_CardinalityType
<1>3. ASSUME NEW y \in 0 .. Height - 1
      PROVE  Falls(S, y) \in Nat /\ y + Falls(S, y) <= Height - 1
  <2>1. {r \in S : r > y} \subseteq (y + 1) .. (Height - 1)
    <3>1. ASSUME NEW r \in S, r > y PROVE r \in (y + 1) .. (Height - 1)
      <4>1. r \in 0 .. Height - 1
        OBVIOUS
      <4> QED BY <1>1, <3>1, <4>1
    <3> QED BY <3>1
  <2>2. /\ Cardinality({r \in S : r > y}) \in Nat
        /\ Cardinality({r \in S : r > y}) <=
             IF y + 1 > Height - 1 THEN 0 ELSE Height - 1 - (y + 1) + 1
    BY <1>1, <1>2, <2>1
  <2> QED BY <1>1, <2>2 DEF Falls
<1>4. ASSUME NEW y \in 0 .. Height - 1, NEW z \in 0 .. Height - 1, z \notin S, y < z
      PROVE  y + Falls(S, y) < z + Falls(S, z)
  <2> DEFINE High == {r \in S : r > z}
             Mid == {r \in S : r > y /\ r < z}
  <2>1. {r \in S : r > y} = Mid \cup High
    <3>1. ASSUME NEW r \in S PROVE r > y <=> (r > y /\ r < z) \/ r > z
      <4>1. r \in 0 .. Height - 1 /\ r # z
        BY <1>4
      <4> QED BY <1>1, <1>4, <4>1
    <3> QED BY <3>1
  <2>2. Mid \subseteq (y + 1) .. (z - 1)
    <3>1. ASSUME NEW r \in S, r > y, r < z PROVE r \in (y + 1) .. (z - 1)
      <4>1. r \in 0 .. Height - 1
        OBVIOUS
      <4> QED BY <1>1, <3>1, <4>1
    <3> QED BY <3>1
  <2>3. IsFiniteSet(Mid) /\ Cardinality(Mid) \in Nat /\ Cardinality(Mid) <= z - 1 - y
    BY <1>1, <1>2, <1>4, <2>2
  <2>4. IsFiniteSet(High)
    BY <1>1, <1>2, High \subseteq 0 .. (Height - 1)
  <2>5. /\ IsFiniteSet(Mid \cap High) /\ Cardinality(Mid \cap High) \in Nat
        /\ Cardinality(High) \in Nat
    BY <2>3, <2>4, FS_Intersection, FS_CardinalityType
  <2>6. Cardinality(Mid \cup High) =
          Cardinality(Mid) + Cardinality(High) - Cardinality(Mid \cap High)
    BY <2>3, <2>4, FS_Union
  <2> HIDE DEF Mid
  <2>7. Falls(S, y) = Cardinality(Mid \cup High) /\ Falls(S, z) = Cardinality(High)
    BY <2>1 DEF Falls
  <2> HIDE DEF High
  <2> QED BY <1>1, <2>3, <2>5, <2>6, <2>7
<1> QED BY <1>3, <1>4

Staying(taken) == {c \in taken : c[2] \notin FullRows(taken)}
Fallen(taken, c) == <<c[1], c[2] + Falls(FullRows(taken), c[2])>>

LEMMA ClearedIs == \A taken : Cleared(taken) = {Fallen(taken, c) : c \in Staying(taken)}
  BY DEF Cleared, Fallen, Staying, Falls

LEMMA BoardFacts ==
    /\ IsFiniteSet(Board)
    /\ \A c \in Board : /\ c = <<c[1], c[2]>> /\ c[1] \in 0 .. Width - 1
                        /\ c[2] \in 0 .. Height - 1
<1>1. IsFiniteSet(0 .. Width - 1) /\ IsFiniteSet(0 .. Height - 1)
  BY FS_Interval, TetrisAssumption
<1>2. IsFiniteSet(Board)
  BY <1>1, FS_Product DEF Board
<1> QED BY <1>2 DEF Board

\* The cells that stay fall one-to-one, on the board.
LEMMA FallenApart ==
    ASSUME NEW taken \in SUBSET Board
    PROVE  /\ \A c \in Staying(taken) : Fallen(taken, c) \in Board
           /\ \A c, d \in Staying(taken) :
                Fallen(taken, c)[2] = Fallen(taken, d)[2] => c[2] = d[2]
           /\ \A c, d \in Staying(taken) : Fallen(taken, c) = Fallen(taken, d) => c = d
<1>1. FullRows(taken) \in SUBSET (0 .. Height - 1) /\ Height \in Nat
  BY TetrisAssumption DEF FullRows
<1>2. \A c \in Staying(taken) : c \in Board /\ c[2] \notin FullRows(taken)
  BY DEF Staying
<1>3. \A c \in Staying(taken) : Fallen(taken, c) \in Board
  <2> SUFFICES ASSUME NEW c \in Staying(taken) PROVE Fallen(taken, c) \in Board
    OBVIOUS
  <2>1. c[1] \in 0 .. Width - 1 /\ c[2] \in 0 .. Height - 1
    BY <1>2, BoardFacts
  <2>2. /\ Falls(FullRows(taken), c[2]) \in Nat
        /\ c[2] + Falls(FullRows(taken), c[2]) <= Height - 1
    BY <1>1, <2>1, FallsInOrder
  <2> QED BY <1>1, <2>1, <2>2 DEF Fallen, Board
<1>4. \A c, d \in Staying(taken) : Fallen(taken, c)[2] = Fallen(taken, d)[2] => c[2] = d[2]
  <2> SUFFICES ASSUME NEW c \in Staying(taken), NEW d \in Staying(taken), c[2] # d[2]
               PROVE  Fallen(taken, c)[2] # Fallen(taken, d)[2]
    OBVIOUS
  <2> DEFINE y == c[2]
             z == d[2]
             S == FullRows(taken)
  <2>1. /\ y \in 0 .. Height - 1 /\ z \in 0 .. Height - 1 /\ y \notin S /\ z \notin S
    BY <1>2, BoardFacts
  <2>2. /\ Falls(S, y) \in Nat /\ Falls(S, z) \in Nat
        /\ y < z => y + Falls(S, y) < z + Falls(S, z)
        /\ z < y => z + Falls(S, z) < y + Falls(S, y)
    BY <1>1, <2>1, FallsInOrder
  <2>3. y + Falls(S, y) # z + Falls(S, z)
    BY <1>1, <2>1, <2>2
  <2> QED BY <2>3 DEF Fallen
<1>5. ASSUME NEW c \in Staying(taken), NEW d \in Staying(taken), Fallen(taken, c) = Fallen(taken, d)
      PROVE  c = d
  <2>1. c[1] = d[1] /\ c[2] = d[2]
    BY <1>4, <1>5 DEF Fallen
  <2>2. c = <<c[1], c[2]>> /\ d = <<d[1], d[2]>>
    BY <1>2, BoardFacts
  <2> QED BY <2>1, <2>2
<1> QED BY <1>3, <1>4, <1>5

\* Clearing takes away the full rows and nothing else, and leaves none full.
LEMMA ClearedCells ==
    ASSUME NEW taken \in SUBSET Board
    PROVE  /\ Cleared(taken) \subseteq Board /\ FullRows(Cleared(taken)) = {}
           /\ Cardinality(FullRows(taken)) \in Nat /\ Cardinality(Cleared(taken)) \in Nat
           /\ Cardinality(taken) =
                Cardinality(Cleared(taken)) + Width * Cardinality(FullRows(taken))
<1> DEFINE full == FullRows(taken)
           gone == (0 .. Width - 1) \X full
<1>1. Width \in Nat \ {0} /\ Height \in Nat \ {0}
  BY TetrisAssumption
<1>2. IsFiniteSet(taken)
  BY BoardFacts, FS_Subset
<1>3. Cleared(taken) \subseteq Board
  BY ClearedIs, FallenApart
<1>4. FullRows(Cleared(taken)) = {}
  <2> SUFFICES ASSUME NEW z \in 0 .. Height - 1, Row(z) \subseteq Cleared(taken) PROVE FALSE
    BY DEF FullRows
  <2>1. ASSUME NEW x \in 0 .. Width - 1
        PROVE  \E c \in Staying(taken) : c[1] = x /\ Fallen(taken, c)[2] = z
    <3>1. <<x, z>> \in Cleared(taken)
      BY <2>1 DEF Row
    <3>2. PICK c \in Staying(taken) : <<x, z>> = Fallen(taken, c)
      BY <3>1, ClearedIs
    <3> QED BY <3>2 DEF Fallen
  <2>2. PICK e \in Staying(taken) : Fallen(taken, e)[2] = z
    BY <2>1, <1>1, 0 \in 0 .. Width - 1
  <2>3. e \in Board /\ e[2] \notin full /\ e[2] \in 0 .. Height - 1
    BY BoardFacts DEF Staying
  <2>4. ASSUME NEW x \in 0 .. Width - 1
        PROVE  <<x, e[2]>> \in taken
    <3>1. PICK c \in Staying(taken) : c[1] = x /\ Fallen(taken, c)[2] = z
      BY <2>1, <2>4
    <3>2. c[2] = e[2]
      BY <2>2, <3>1, FallenApart
    <3>3. c \in taken /\ c = <<c[1], c[2]>>
      BY BoardFacts DEF Staying
    <3> QED BY <3>1, <3>2, <3>3
  <2>5. Row(e[2]) \subseteq taken
    BY <2>4 DEF Row
  <2> QED BY <2>3, <2>5 DEF FullRows
<1>5. /\ IsFiniteSet(full) /\ Cardinality(full) \in Nat
      /\ IsFiniteSet(gone) /\ Cardinality(gone) = Width * Cardinality(full)
  <2>1. IsFiniteSet(0 .. Width - 1) /\ Cardinality(0 .. Width - 1) = Width
    BY <1>1, FS_Interval
  <2>2. IsFiniteSet(0 .. Height - 1) /\ full \subseteq 0 .. Height - 1
    BY <1>1, FS_Interval DEF FullRows
  <2>3. IsFiniteSet(full) /\ Cardinality(full) \in Nat
    BY <2>2, FS_Subset, FS_CardinalityType
  <2> QED BY <2>1, <2>3, FS_Product
<1>6. gone \subseteq taken /\ Staying(taken) = taken \ gone
  <2>1. gone \subseteq taken
    BY DEF FullRows, Row
  <2>2. \A c \in taken : c \in gone <=> c[2] \in full
    BY BoardFacts
  <2> QED BY <2>1, <2>2 DEF Staying
<1>7. IsFiniteSet(Staying(taken)) /\ Cardinality(Staying(taken)) = Cardinality(taken) - Cardinality(gone)
  <2>1. taken \cap gone = gone
    BY <1>6
  <2> HIDE DEF gone
  <2> QED BY <1>2, <1>6, <2>1, FS_Difference
<1>8. IsFiniteSet(Cleared(taken)) /\ Cardinality(Cleared(taken)) = Cardinality(Staying(taken))
  <2> DEFINE f == [c \in Staying(taken) |-> Fallen(taken, c)]
  <2>1. f \in [Staying(taken) -> Cleared(taken)]
    BY ClearedIs
  <2>2. \A c, d \in Staying(taken) : f[c] = f[d] => c = d
    BY FallenApart
  <2>3. \A t \in Cleared(taken) : \E c \in Staying(taken) : f[c] = t
    BY ClearedIs
  <2> HIDE DEF f
  <2>4. ExistsBijection(Staying(taken), Cleared(taken))
    BY <2>1, <2>2, <2>3 DEF ExistsBijection, Bijection, Injection, Surjection, IsInjective
  <2> QED BY <1>7, <2>4, FS_Bijection
<1>9. Cardinality(taken) \in Nat /\ Cardinality(Cleared(taken)) \in Nat
      /\ Cardinality(gone) \in Nat
  BY <1>2, <1>5, <1>8, FS_CardinalityType
<1>10. Cardinality(taken) = Cardinality(Cleared(taken)) + Cardinality(gone)
  BY <1>7, <1>8, <1>9
<1> QED BY <1>3, <1>4, <1>5, <1>9, <1>10

LEMMA NoRowOfNone == FullRows({}) = {}
<1>1. ASSUME NEW y \in 0 .. Height - 1 PROVE <<0, y>> \in Row(y)
  BY TetrisAssumption DEF Row
<1> QED BY <1>1 DEF FullRows

LEMMA FreshPiece == \A k \in PieceKind : IsPiece(Fresh(k))
  BY DEF Fresh, IsPiece

LEMMA PiecesToPlay ==
    /\ PieceQueue \in Seq(PieceKind) /\ PieceQueue # <<>>
    /\ Head(PieceQueue) \in PieceKind /\ Tail(PieceQueue) \in Seq(PieceKind)
    /\ Len(PieceQueue) \in Nat /\ Len(Tail(PieceQueue)) = Len(PieceQueue) - 1
  BY TetrisAssumption DEF PieceKind

LEMMA GameInvInit == GameInit => GameInv
<1> SUFFICES ASSUME GameInit PROVE GameInv
  OBVIOUS
<1>1. CellsAddUp
  <2>1. Cardinality(stack) = 0 /\ score.lines = 0 /\ PiecesLocked = 0 /\ Width \in Nat
    BY FS_EmptySet, TetrisAssumption DEF GameInit, NoScore, PiecesLocked
  <2> QED BY <2>1, NoRowOfNone DEF CellsAddUp, GameInit
<1>2. score.lines \in Nat
  BY DEF GameInit, NoScore
<1>3. stack \subseteq Board /\ queue \in Seq(PieceKind)
  BY DEF GameInit
<1>4. barred \in BOOLEAN
  BY DEF GameInit
<1>5. ~Active
  BY DEF GameInit, Active
<1> QED BY <1>1, <1>2, <1>3, <1>4, <1>5 DEF GameInv

LEMMA RestartAdds == Restart => GameInv'
<1> SUFFICES ASSUME Restart PROVE GameInv'
  OBVIOUS
<1>1. CellsAddUp'
  <2>1. Cardinality(stack') = 0 /\ score'.lines = 0 /\ Width \in Nat
    BY FS_EmptySet, TetrisAssumption DEF Restart, NoScore
  <2>2. PiecesLocked' = 0
    BY PiecesToPlay DEF Restart, PiecesLocked, Active
  <2>3. FullRows(stack') = {}
    BY NoRowOfNone DEF Restart
  <2> QED BY <2>1, <2>2, <2>3 DEF CellsAddUp
<1>2. score'.lines \in Nat /\ stack' \subseteq Board /\ queue' \in Seq(PieceKind)
  BY PiecesToPlay DEF Restart, NoScore
<1>3. IsPiece(piece') /\ CanPlace(piece', stack') /\ ~barred' /\ barred' \in BOOLEAN
  BY PiecesToPlay, FreshPiece DEF Restart
<1> QED BY <1>1, <1>2, <1>3 DEF GameInv

\* Nothing but the active piece changes, and it fits where it goes.
LEMMA PieceMoves ==
    ASSUME GameInv, Active, NEW p, IsPiece(p), CanPlace(p, stack), piece' = p,
           UNCHANGED <<stack, queue, status, score, barred>>
    PROVE  GameInv'
<1>1. PiecesLocked' = PiecesLocked /\ Active'
  BY DEF PiecesLocked, Active
<1>2. CellsAddUp'
  BY <1>1 DEF GameInv, CellsAddUp
<1> QED BY <1>1, <1>2 DEF GameInv

LEMMA MoveAdds ==
    ASSUME NEW dx \in Int, NEW dy \in Int
    PROVE  GameInv /\ Move(dx, dy) => GameInv'
<1> SUFFICES ASSUME GameInv, Move(dx, dy) PROVE GameInv'
  OBVIOUS
<1>1. IsPiece([piece EXCEPT !.x = @ + dx, !.y = @ + dy])
  <2>1. IsPiece(piece)
    BY DEF GameInv, Move
  <2>2. piece.x + dx \in Int /\ piece.y + dy \in Int
    BY <2>1 DEF IsPiece
  <2> QED BY <2>1, <2>2 DEF IsPiece
<1> QED BY <1>1, PieceMoves DEF Move

LEMMA RotateAdds ==
    ASSUME NEW by \in Int
    PROVE  GameInv /\ Rotate(by) => GameInv'
<1> SUFFICES ASSUME GameInv, Rotate(by) PROVE GameInv'
  OBVIOUS
<1>1. IsPiece(piece)
  BY DEF GameInv, Rotate
<1>2. piece.turn \in Int
  BY <1>1 DEF IsPiece
<1>3. (piece.turn + by) % 4 \in 0 .. 3
  BY <1>2
<1>4. IsPiece([piece EXCEPT !.turn = (@ + by) % 4])
  BY <1>1, <1>3 DEF IsPiece
<1> QED BY <1>4, PieceMoves DEF Rotate

LEMMA FallAdds == GameInv /\ Fall => GameInv'
<1> SUFFICES ASSUME GameInv, Fall PROVE GameInv'
  OBVIOUS
<1>1. IsPiece(Dropped)
  BY DEF GameInv, Fall, IsPiece, Dropped
<1> QED BY <1>1, PieceMoves DEF Fall

\* The piece that comes next, or does not: one more was locked.
LEMMA NextPieceCounts ==
    ASSUME GameInv, Active, NEW taken, NextPiece(taken, queue)
    PROVE  /\ queue' \in Seq(PieceKind) /\ barred' \in BOOLEAN
           /\ Active' => IsPiece(piece') /\ CanPlace(piece', taken) /\ ~barred'
           /\ PiecesLocked \in Int /\ PiecesLocked' = PiecesLocked + 1
<1>1. queue \in Seq(PieceKind) /\ ~barred /\ Len(queue) \in Nat /\ Len(PieceQueue) \in Nat
  BY PiecesToPlay DEF GameInv
<1>2. PiecesLocked = Len(PieceQueue) - Len(queue) - 1
  BY DEF PiecesLocked, Active
<1>3. CASE queue = <<>>
  <2>1. queue' = <<>> /\ status' = "game_over" /\ ~barred'
    BY <1>1, <1>3 DEF NextPiece
  <2>2. PiecesLocked' = Len(PieceQueue) - 0 - 0
    BY <2>1 DEF PiecesLocked, Active
  <2>3. queue' \in Seq(PieceKind) /\ ~Active'
    BY <2>1 DEF Active
  <2>5. barred' = barred /\ barred \in BOOLEAN
    BY <1>3 DEF NextPiece, GameInv
  <2>4. PiecesLocked \in Int /\ PiecesLocked' = PiecesLocked + 1
    BY <1>1, <1>2, <1>3, <2>2
  <2> QED BY <2>3, <2>4, <2>5
<1>4. CASE queue # <<>>
  <2>1. /\ queue' = Tail(queue) /\ queue' \in Seq(PieceKind) /\ Len(queue') = Len(queue) - 1
        /\ Head(queue) \in PieceKind
    BY <1>1, <1>4 DEF NextPiece
  <2>2. CASE CanPlace(Fresh(Head(queue)), taken)
    <3>1. piece' = Fresh(Head(queue)) /\ status' = "active" /\ ~barred'
      BY <1>1, <1>4, <2>2 DEF NextPiece
    <3>2. PiecesLocked' = Len(PieceQueue) - Len(queue') - 1
      BY <3>1 DEF PiecesLocked, Active
    <3>3. PiecesLocked \in Int /\ PiecesLocked' = PiecesLocked + 1
      BY <1>1, <1>2, <2>1, <3>2
    <3>4. IsPiece(piece') /\ CanPlace(piece', taken)
      BY <2>1, <2>2, <3>1, FreshPiece
    <3>5. barred' = barred /\ barred \in BOOLEAN
      BY <1>4, <2>2 DEF NextPiece, GameInv
    <3> QED BY <2>1, <3>1, <3>3, <3>4, <3>5
  <2>3. CASE ~CanPlace(Fresh(Head(queue)), taken)
    <3>1. status' = "game_over" /\ barred'
      BY <1>4, <2>3 DEF NextPiece
    <3>2. PiecesLocked' = Len(PieceQueue) - Len(queue') - 1
      BY <3>1 DEF PiecesLocked, Active
    <3>3. barred' \in BOOLEAN
      BY <1>4, <2>3 DEF NextPiece
    <3>4. PiecesLocked \in Int /\ PiecesLocked' = PiecesLocked + 1
      BY <1>1, <1>2, <2>1, <3>2
    <3> QED BY <2>1, <3>1, <3>3, <3>4 DEF Active
  <2> QED BY <2>2, <2>3
<1> QED BY <1>3, <1>4

LEMMA LockAdds == GameInv /\ Lock => GameInv'
<1> SUFFICES ASSUME GameInv, Lock PROVE GameInv'
  OBVIOUS
<1> DEFINE taken == stack \cup Cells(piece)
           gone == Cardinality(FullRows(taken))
<1>1. Cells(piece) \subseteq Board \ stack /\ stack \subseteq Board
  BY DEF GameInv, Lock, CanPlace, Board
<1>2. IsFiniteSet(Cells(piece)) /\ Cardinality(Cells(piece)) = 4
  BY PieceCells DEF GameInv, Lock
<1>3. IsFiniteSet(stack) /\ Cardinality(stack) \in Nat
  BY <1>1, BoardFacts, FS_Subset, FS_CardinalityType
<1>4. Cardinality(taken) = Cardinality(stack) + 4
  <2>1. stack \cap Cells(piece) = {}
    BY <1>1
  <2> QED BY <1>2, <1>3, <2>1, FS_Union, FS_EmptySet
<1>5. taken \in SUBSET Board
  BY <1>1
<1>6. stack' = Cleared(taken) /\ score'.lines = score.lines + gone /\ NextPiece(stack', queue)
  BY DEF Lock, Scored
<1>7. Active
  BY DEF Lock
<1> HIDE DEF taken
<1>8. /\ stack' \subseteq Board /\ FullRows(stack') = {}
      /\ gone \in Nat /\ Cardinality(stack') \in Nat
      /\ Cardinality(taken) = Cardinality(stack') + Width * gone
  BY <1>5, <1>6, ClearedCells
<1> HIDE DEF gone
<1>9. /\ queue' \in Seq(PieceKind) /\ barred' \in BOOLEAN
      /\ Active' => IsPiece(piece') /\ CanPlace(piece', stack') /\ ~barred'
      /\ PiecesLocked \in Int /\ PiecesLocked' = PiecesLocked + 1
  BY <1>6, <1>7, NextPieceCounts
<1>10. score.lines \in Nat /\ Width \in Nat
  BY TetrisAssumption DEF GameInv
<1>11. Width * (score.lines + gone) = Width * score.lines + Width * gone
  BY <1>8, <1>10
<1>12. Cardinality(stack) + Width * score.lines = 4 * PiecesLocked
  BY DEF GameInv, CellsAddUp
<1>13. Cardinality(stack') + Width * score'.lines = 4 * PiecesLocked'
  <2> DEFINE before == Width * score.lines
             added == Width * gone
  <2>1. before \in Int /\ added \in Int
    BY <1>8, <1>10
  <2>2. Width * score'.lines = before + added
    BY <1>6, <1>11
  <2>3. /\ Cardinality(stack) + 4 = Cardinality(stack') + added
        /\ Cardinality(stack) + before = 4 * PiecesLocked
    BY <1>4, <1>8, <1>12
  <2>4. PiecesLocked' = PiecesLocked + 1 /\ PiecesLocked \in Int
    BY <1>9
  <2> HIDE DEF before, added
  <2>5. Cardinality(stack') + (before + added) = 4 * (PiecesLocked + 1)
    BY <1>3, <1>8, <2>1, <2>3, <2>4
  <2> QED BY <2>2, <2>4, <2>5
<1>14. CellsAddUp'
  BY <1>8, <1>13 DEF CellsAddUp
<1> QED BY <1>6, <1>8, <1>9, <1>10, <1>14 DEF GameInv

LEMMA GameInvStep == GameInv /\ [GameNext]_gameVars => GameInv'
<1> SUFFICES ASSUME GameInv, [GameNext]_gameVars PROVE GameInv'
  OBVIOUS
<1>1. CASE Restart
  BY <1>1, RestartAdds
<1>2. ASSUME NEW dx \in -MaxShift .. MaxShift, NEW dy \in -MaxShift .. MaxShift, Move(dx, dy)
      PROVE  GameInv'
  BY <1>2, MoveAdds
<1>3. ASSUME NEW by \in {1, 3}, Rotate(by)
      PROVE  GameInv'
  BY <1>3, RotateAdds
<1>4. CASE Fall
  BY <1>4, FallAdds
<1>5. CASE Lock
  BY <1>5, LockAdds
<1>6. CASE UNCHANGED gameVars
  <2>1. PiecesLocked' = PiecesLocked /\ (Active' <=> Active)
    BY <1>6 DEF PiecesLocked, Active, gameVars
  <2>2. CellsAddUp'
    BY <1>6, <2>1 DEF GameInv, CellsAddUp, gameVars
  <2> QED BY <1>6, <2>1, <2>2 DEF GameInv, gameVars
<1> QED BY <1>1, <1>2, <1>3, <1>4, <1>5, <1>6 DEF GameNext

(***************************************************************************)
(* The theorems: a step of Tooling is a step of each part or leaves the    *)
(* part's variables as they are.                                           *)
(***************************************************************************)
LEMMA InitOfParts ==
    Init => CodegraphInit /\ DaemonInit /\ ServerInit /\ PyrightInit /\ LockInit
              /\ SpecifyInit /\ TaskingInit /\ QaInit /\ GameInit
  BY DEF Init

LEMMA StepOfParts ==
    [Next]_vars => /\ [CodegraphNext]_<<treeVars, graphVars>>
                   /\ [DaemonNext]_daemonVars /\ [ServerNext]_serverVars
                   /\ [PyrightNext]_pyrightVars /\ [LockNext]_lockVars
                   /\ [SpecifyNext]_specifyVars /\ [TaskingNext]_taskingVars
                   /\ [QaNext]_qaVars /\ [GameNext]_gameVars
  BY DEF Next, vars

\* Of two processes, an index run of cgc_safe_index.py that found the other one holding
\* the lease of cgc_owner.py does not index beside it, whatever is killed, fails or
\* grows old meanwhile.  (With a third one it may: that one may
\* take a marker that is being written for a stale one, and free it when it is not.)
THEOREM LateIndexRunsWait ==
    ASSUME TwoProcesses
    PROVE  Spec => []LateRunsWait
<1>1. GraphInv /\ [Next]_vars => GraphInv'
  BY StepOfParts, GraphInvStep
<1> QED BY <1>1, InitOfParts, GraphInvInit, GraphInvWait, PTL DEF Spec

\* While no start of the daemon timed out, nobody stopped it and no client died waiting
\* for one that had no pid file yet, whatever else crashes and however clients interleave
\* under the startup lock of read_code.py, one daemon lives at most and one that serves
\* is named by its pid file.
THEOREM DaemonIsOne == Spec => []OneDaemon
<1>1. DaemonInv /\ [Next]_vars => DaemonInv'
  BY StepOfParts, DaemonInvStep
<1> QED BY <1>1, InitOfParts, DaemonInvInit, DaemonInvOne, PTL DEF Spec

\* Servers of one launcher that start one after the other, of whatever number and
\* whichever are killed: one serves at most, and the pid file names it.
THEOREM ServerIsOne == Spec => []OneServerPerLauncher
<1>1. ServerInv /\ [Next]_vars => ServerInv'
  BY StepOfParts, ServerInvStep
<1> QED BY <1>1, InitOfParts, ServerInvInit, ServerInvOne, PTL DEF Spec

\* However the coroutines of pyright_client.py interleave at their awaits, one child of
\* the language server runs at most, and none once the client is in error for good.
THEOREM LanguageServerIsOne == Spec => []OneLanguageServer
<1>1. PyrightInv /\ [Next]_vars => PyrightInv'
  BY StepOfParts, PyrightInvStep
<1> QED BY <1>1, InitOfParts, PyrightInvInit, PyrightInvOne, PTL DEF Spec

\* As long as no two drivers were at the lock file of a feature at once, one lease runs
\* at most, for any number of drivers, lapses and deaths.
THEOREM FeatureOwnerIsOne == Spec => []OneFeatureOwner
<1>1. LockInv /\ [Next]_vars => LockInv'
  BY StepOfParts, LockInvStep
<1> QED BY <1>1, InitOfParts, LockInvInit, LockInvOneOwner, PTL DEF Spec

\* Requests for features that were numbered one after the other have numbers of their
\* own, and a finished specification is what its own request made of it.
THEOREM FeaturesKept == Spec => []FeaturesAreOwn
<1>1. SpecifyInv /\ [Next]_vars => SpecifyInv'
  BY StepOfParts, SpecifyInvStep
<1> QED BY <1>1, InitOfParts, SpecifyInvInit, SpecifyInvOwn, PTL DEF Spec

\* As long as no two Codex runs overlapped and every run made a session, the saved
\* session of a feature and mode worked on that feature in that mode.
THEOREM WarmAgentsKept == Spec => []WarmAgentsAreOwn
<1>1. TaskingInv /\ [Next]_vars => TaskingInv'
  BY StepOfParts, TaskingInvStep
<1> QED BY <1>1, InitOfParts, TaskingInvInit, TaskingInvOwn, PTL DEF Spec

\* With verdicts copied to the card, however many webhooks wait and whatever the
\* threshold is: the task is stopped for a human at that many failures in a row and at
\* no fewer, until a run is dispatched for a body that a verdict has outdated.
THEOREM EscalationIsExact ==
    ASSUME CardKept
    PROVE  Spec => []CurrentBodiesEscalate
<1>1. QaInv /\ [Next]_vars => QaInv'
  BY StepOfParts, QaInvStep
<1>2. QaInv => CurrentBodiesEscalate
  BY DEF QaInv, QaExact, CurrentBodiesEscalate
<1> QED BY <1>1, <1>2, InitOfParts, QaInvInit, PTL DEF Spec

\* Whatever is asked of the game, on a board of any size and with any queue: a piece is
\* locked on free cells, what leaves the board is its full rows, each counted once, and
\* no full row stays (lock_active_piece, _clear_full_rows).
THEOREM CellsOfTheGameAddUp == Spec => []CellsAddUp
<1>1. GameInv /\ [Next]_vars => GameInv'
  BY StepOfParts, GameInvStep
<1>2. GameInv => CellsAddUp
  BY DEF GameInv
<1> QED BY <1>1, <1>2, InitOfParts, GameInvInit, PTL DEF Spec
===============================================================================
