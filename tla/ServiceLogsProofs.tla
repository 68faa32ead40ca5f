--------------------------- MODULE ServiceLogsProofs ---------------------------
(***************************************************************************)
(* Proofs, for any number of files, archives, lines and faults: a stream of  *)
(* ServiceLogs leaves no line behind and tells the files it missed, and      *)
(* rotations that fail and are tried again cost no archive.                  *)
(***************************************************************************)
EXTENDS ServiceLogs, FiniteSetTheorems, TLAPS

Stream == [pc : {"off", "read", "leaving", "open"}, file : 0..MaxFiles,
           pos : 0..MaxLines, last : Nat, from : Nat, told : BOOLEAN, raced : BOOLEAN]

TypeInv == /\ TypeOK /\ (stream.pc # "off" => stream.file # 0)
           /\ rot = "touched" => base # 0

LEMMA OpenLogTypes ==
  ASSUME TypeInv, OpenLog
  PROVE  /\ born' \in Files /\ base' \in 1..MaxFiles
         /\ (born' = born /\ base' = base) \/ (born' = born + 1 /\ base' = born + 1 /\ base = 0)
<1>1. born \in 1..MaxFiles /\ base \in 0..MaxFiles /\ MaxFiles \in Nat
  BY BoundsNat DEF TypeInv, TypeOK, Files
<1>2. CASE base # 0
  BY <1>1, <1>2 DEF OpenLog, files, Files
<1>3. CASE base = 0
  BY <1>1, <1>3 DEF OpenLog, Files
<1> QED BY <1>2, <1>3

LEMMA ShiftedType == TypeInv => Shifted \in [Slots -> 0..MaxFiles]
BY KeepNat, BoundsNat DEF TypeInv, TypeOK, Shifted, Slots

LEMMA SlotType ==
  ASSUME TypeInv, NEW f \in 0..MaxFiles
  PROVE  [archives EXCEPT ![1] = f] \in [Slots -> 0..MaxFiles]
<1> DEFINE one == 1
<1>1. [archives EXCEPT ![one] = f] \in [Slots -> 0..MaxFiles]
  <2> HIDE DEF one
  <2> QED BY DEF TypeInv, TypeOK
<1> QED BY <1>1

LEMMA InitTypes == Init => TypeInv
<1> SUFFICES ASSUME Init PROVE TypeInv
  OBVIOUS
<1>1. Off \in Stream /\ Off.pc = "off" /\ Off.file = 0
  BY BoundsNat DEF Off, Stream
<1>2. /\ lines \in [Files -> 0..MaxLines] /\ archives \in [Slots -> 0..MaxFiles]
      /\ born \in Files
  BY BoundsNat DEF Init, Files
<1>3. gen \in [sequence : Nat, inode : 0..MaxFiles] /\ faults \in 0..MaxFaults
  BY BoundsNat DEF Init
<1>4. base \in 0..MaxFiles /\ pending \in 0..MaxFiles /\ fd \in 0..MaxFiles
  BY BoundsNat DEF Init
<1> QED BY <1>1, <1>2, <1>3, <1>4 DEF Init, TypeInv, TypeOK, RotationPcs, Stream

LEMMA StepTypes == TypeInv /\ [Next]_vars => TypeInv'
<1> SUFFICES ASSUME TypeInv, [Next]_vars PROVE TypeInv'
  OBVIOUS
<1> USE BoundsNat DEF RotationPcs, files, kept
<1>1. CASE Write
  <2>1. lines' \in [Files -> 0..MaxLines]
    <3>1. lines \in [Files -> 0..MaxLines] /\ fd \in Files /\ MaxLines \in Nat
      BY <1>1 DEF Write, TypeInv, TypeOK, Files
    <3>2. lines[fd] + 1 \in 0..MaxLines /\ lines' = [lines EXCEPT ![fd] = lines[fd] + 1]
      BY <1>1, <3>1 DEF Write
    <3> QED BY <3>1, <3>2
  <2> QED BY <1>1, <2>1 DEF Write, TypeInv, TypeOK
<1>2. CASE Start
  BY <1>2, OpenLogTypes DEF Start, TypeInv, TypeOK
<1>3. CASE Stop
  BY <1>3 DEF Stop, TypeInv, TypeOK
<1>4. CASE Reopen
  <2>1. born' \in Files /\ base' \in 0..MaxFiles /\ fd' \in 0..MaxFiles
    BY <1>4, OpenLogTypes DEF Reopen, TypeInv, TypeOK
  <2>2. base # 0 => base' # 0
    BY <1>4, OpenLogTypes DEF Reopen
  <2>3. UNCHANGED <<lines, pending, handoff, archives, gen, numbered, rot, stream, faults, cuts>>
        /\ reopening' \in BOOLEAN
    BY <1>4 DEF Reopen
  <2> QED BY <2>1, <2>2, <2>3 DEF TypeInv, TypeOK
<1>5. CASE RotateStopped
  BY <1>5, ShiftedType DEF RotateStopped, TypeInv, TypeOK
<1>6. CASE RenameStopped
  <2>1. archives' \in [Slots -> 0..MaxFiles] /\ base' \in 0..MaxFiles
    BY <1>6, SlotType DEF RenameStopped, TypeInv, TypeOK
  <2> QED BY <1>6, <2>1 DEF RenameStopped, TypeInv, TypeOK
<1>7. CASE Prepare
  BY <1>7 DEF Prepare, Retried, TypeInv, TypeOK
<1>8. CASE Rename
  BY <1>8 DEF Rename, TypeInv, TypeOK
<1>9. CASE Touch
  BY <1>9, OpenLogTypes DEF Touch, TypeInv, TypeOK
<1>10. CASE WriteGeneration
  <2>1. gen' \in [sequence : Nat, inode : 0..MaxFiles]
    <3>1. gen.sequence + 1 \in Nat /\ base \in 0..MaxFiles
      BY DEF TypeInv, TypeOK
    <3> QED BY <1>10, <3>1 DEF WriteGeneration
  <2>2. numbered' \subseteq Files
    <3>1. base \in Files
      BY <1>10 DEF WriteGeneration, TypeInv, TypeOK, Files
    <3> QED BY <1>10, <3>1 DEF WriteGeneration, TypeInv, TypeOK
  <2> QED BY <1>10, <2>1, <2>2 DEF WriteGeneration, TypeInv, TypeOK
<1>11. CASE ReloadLogs
  BY <1>11 DEF ReloadLogs, TypeInv, TypeOK
<1>12. CASE MarkHandoff
  BY <1>12 DEF MarkHandoff, TypeInv, TypeOK
<1>13. CASE CompressPending \/ Finish \/ Unlink
  <2>1. pending' \in {pending, 0} /\ rot' \in RotationPcs /\ (handoff' = handoff \/ handoff' = FALSE)
    BY <1>13 DEF CompressPending, Finish, Unlink
  <2>2. UNCHANGED <<born, lines, base, archives, gen, numbered, fd, reopening, stream, faults,
                    cuts>>
    BY <1>13 DEF CompressPending, Finish, Unlink
  <2>3. pending' \in 0..MaxFiles
    BY <2>1 DEF TypeInv, TypeOK
  <2>4. handoff' \in BOOLEAN
    BY <2>1 DEF TypeInv, TypeOK
  <2>5. rot' # "touched"
    BY <1>13 DEF CompressPending, Finish, Unlink
  <2> QED BY <2>1, <2>2, <2>3, <2>4, <2>5 DEF TypeInv, TypeOK
<1>14. CASE Shift
  BY <1>14, ShiftedType DEF Shift, TypeInv, TypeOK
<1>15. CASE Replace
  <2>1. archives' \in [Slots -> 0..MaxFiles] /\ pending' \in 0..MaxFiles
    BY <1>15, SlotType DEF Replace, TypeInv, TypeOK
  <2> QED BY <1>15, <2>1 DEF Replace, TypeInv, TypeOK
<1>16. CASE Die
  BY <1>16 DEF Die, TypeInv, TypeOK
<1>17. CASE Connect \/ Follow
  <2>1. stream' \in Stream /\ (stream'.pc # "off" => stream'.file # 0)
    <3> USE DEF Streams, Stream, TypeInv, TypeOK, Files
    <3>1. CASE Connect
      <4>1. lines[base] \in 0..MaxLines /\ base \in 1..MaxFiles
        BY <3>1 DEF Connect
      <4>2. (IF gen.inode \in {0, base} THEN gen.sequence ELSE Unknown) \in Nat
        BY DEF Unknown
      <4> QED BY <3>1, <4>1, <4>2 DEF Connect, Off
    <3>2. CASE Read
      <4>1. lines[stream.file] \in 0..MaxLines
        BY <3>2 DEF Read
      <4> QED BY <3>2, <4>1 DEF Read
    <3>3. CASE Leave
      BY <3>3 DEF Leave
    <3>4. CASE Number
      <4>1. Missed(stream.last) \in BOOLEAN /\ gen.sequence \in Nat
        BY DEF Missed
      <4> QED BY <3>4, <4>1 DEF Number
    <3>5. CASE Open
      <4>1. CASE base = 0
        BY <3>5, <4>1 DEF Open
      <4>2. CASE base # 0
        <5>1. base \in 1..MaxFiles /\ 0 \in 0..MaxLines
          BY <4>2
        <5> QED BY <3>5, <4>2, <5>1 DEF Open
      <4> QED BY <4>1, <4>2
    <3> QED BY <1>17, <3>1, <3>2, <3>3, <3>4, <3>5 DEF Follow
  <2>2. UNCHANGED <<born, lines, base, pending, handoff, archives, gen, numbered, fd,
                    reopening, rot, faults, cuts>>
    BY <1>17 DEF Connect, Follow, Read, Leave, Number, Open, Streams
  <2> QED BY <2>1, <2>2 DEF TypeInv, TypeOK, Stream
<1>18. CASE UNCHANGED vars
  BY <1>18 DEF vars, TypeInv, TypeOK
<1> QED
  BY <1>1, <1>2, <1>3, <1>4, <1>5, <1>6, <1>7, <1>8, <1>9, <1>10, <1>11, <1>12, <1>13,
     <1>14, <1>15, <1>16, <1>17, <1>18 DEF Next, Daemon, Rotate, Follow

\* Every variable has its type, in every state.
THEOREM LogTypes == Spec => []TypeOK
<1>1. TypeInv => TypeOK
  BY DEF TypeInv
<1> QED BY <1>1, InitTypes, StepTypes, PTL DEF Spec

-----------------------------------------------------------------------------
(* No line is left behind. *)

\* The daemon writes to the current file, or to the one set aside for it until that is
\* marked; a name that was moved does not come back.
WriterInv ==
  /\ base \in {0, born} /\ pending <= born /\ fd <= born /\ stream.file <= born
  /\ pending # 0 => pending # base
  /\ fd # 0 => fd = base \/ base = 0 \/ fd = pending
  /\ handoff /\ pending # 0 => fd # pending
  /\ rot = "unmarked" => pending = 0 /\ ~handoff /\ base # 0
  /\ rot = "renamed" => ~handoff /\ fd \in {0, pending, base}
  /\ rot \in {"marked", "compressed", "shifted", "replaced", "unlinked"} => handoff

\* A stream that goes over has read its file to the end, and the writer is elsewhere.
LeavingInv ==
  /\ stream.pc = "off" => stream.file = 0
  /\ stream.pc \in {"leaving", "open"} =>
       stream.pos = lines[stream.file] /\ fd # stream.file /\ base # stream.file

LEMMA Bounded ==
  ASSUME TypeInv
  PROVE  /\ born \in Nat \ {0} /\ base \in Nat /\ pending \in Nat /\ fd \in Nat
         /\ stream.file \in Nat
BY BoundsNat DEF TypeInv, TypeOK, Files

LEMMA InitWriter == Init => WriterInv /\ LeavingInv
BY DEF Init, WriterInv, LeavingInv, Off

LEMMA StepWriter == TypeInv /\ WriterInv /\ [Next]_vars => WriterInv'
<1> SUFFICES ASSUME TypeInv, WriterInv, [Next]_vars PROVE WriterInv'
  OBVIOUS
<1> USE Bounded DEF files, kept
<1>1. CASE Start
  BY <1>1, OpenLogTypes DEF Start, WriterInv
<1>2. CASE Reopen
  BY <1>2, OpenLogTypes DEF Reopen, WriterInv
<1>3. CASE Touch
  BY <1>3, OpenLogTypes DEF Touch, WriterInv
<1>4. CASE Write \/ Stop
  BY <1>4 DEF Write, Stop, WriterInv
<1>5. CASE Prepare
  BY <1>5 DEF Prepare, Retried, Full, WriterInv
<1>6. CASE Rename
  BY <1>6 DEF Rename, WriterInv
<1>7. CASE WriteGeneration \/ ReloadLogs \/ CompressPending \/ Shift \/ RotateStopped
  BY <1>7 DEF WriteGeneration, ReloadLogs, CompressPending, Shift, RotateStopped, WriterInv
<1>8. CASE MarkHandoff
  BY <1>8 DEF MarkHandoff, Closed, WriterInv
<1>9. CASE Replace \/ Unlink \/ Finish \/ RenameStopped
  BY <1>9 DEF Replace, Unlink, Finish, RenameStopped, WriterInv
<1>10. CASE Die
  BY <1>10 DEF Die, WriterInv
<1>11. CASE Connect \/ Follow
  <2>1. UNCHANGED <<born, base, pending, handoff, fd, rot>>
    BY <1>11 DEF Connect, Follow, Read, Leave, Number, Open, Streams
  <2>2. stream'.file \in {stream.file, base}
    BY <1>11 DEF Connect, Follow, Read, Leave, Number, Open, Streams, Off, TypeInv, TypeOK
  <2> QED BY <2>1, <2>2 DEF WriterInv
<1>12. CASE UNCHANGED vars
  BY <1>12 DEF vars, WriterInv
<1> QED
  BY <1>1, <1>2, <1>3, <1>4, <1>5, <1>6, <1>7, <1>8, <1>9, <1>10, <1>11, <1>12
     DEF Next, Daemon, Rotate

LEMMA StepLeaving == TypeInv /\ WriterInv /\ LeavingInv /\ [Next]_vars => LeavingInv'
<1> SUFFICES ASSUME TypeInv, WriterInv, LeavingInv, [Next]_vars PROVE LeavingInv'
  OBVIOUS
<1> USE Bounded DEF files, kept
<1>1. CASE Start \/ Reopen \/ Touch
  <2>1. /\ UNCHANGED <<lines, stream>> /\ fd' \in {fd, base'}
        /\ (base' = base) \/ (base' = born + 1)
    BY <1>1, OpenLogTypes DEF Start, Reopen, Touch
  <2> QED BY <2>1 DEF WriterInv, LeavingInv
<1>2. CASE Write
  BY <1>2 DEF Write, LeavingInv, TypeInv, TypeOK
<1>3. CASE Read \/ Number \/ Open \/ Connect
  <2>1. CASE Number
    BY <1>3, <2>1 DEF Number, Streams, LeavingInv, TypeInv, TypeOK
  <2>2. CASE Read \/ Open \/ Connect
    <3>1. stream'.pc = "read"
      BY <2>2 DEF Read, Open, Connect, Off, Streams, TypeInv, TypeOK
    <3> QED BY <3>1 DEF LeavingInv
  <2> QED BY <1>3, <2>1, <2>2
<1>4. CASE Leave
  <2>1. /\ stream' = [stream EXCEPT !.pc = "leaving"] /\ stream.pos = lines[stream.file]
        /\ base \notin {0, stream.file} /\ (pending = 0 \/ handoff) /\ stream.file # 0
        /\ UNCHANGED <<lines, fd, base>>
    BY <1>4 DEF Leave, Streams, TypeInv
  <2>2. fd # stream.file
    BY <2>1 DEF WriterInv
  <2> QED BY <2>1, <2>2 DEF LeavingInv, TypeInv, TypeOK
<1>5. CASE Stop
  BY <1>5 DEF Stop, LeavingInv, TypeInv
<1>6. CASE RotateStopped \/ Die \/ (Rotate /\ ~Touch)
  <2>1. UNCHANGED <<lines, stream, fd>> /\ base' \in {base, 0}
    BY <1>6 DEF RotateStopped, Die, Rotate, Prepare, Rename, WriteGeneration, ReloadLogs,
       MarkHandoff, CompressPending, Shift, Replace, Unlink, Finish, RenameStopped
  <2> QED BY <2>1 DEF LeavingInv, TypeInv
<1>7. CASE UNCHANGED vars
  BY <1>7 DEF vars, LeavingInv
<1> QED
  BY <1>1, <1>2, <1>3, <1>4, <1>5, <1>6, <1>7 DEF Next, Daemon, Rotate, Follow

\* A stream never goes over to another file before it has delivered all of its own, for
\* any number of files, lines, archives and rotations that die.
THEOREM NoLineIsLeft == Spec => LeavesNoLine
<1>1. TypeInv /\ LeavingInv /\ [Next]_vars =>
        [stream'.file # stream.file /\ stream.file # 0 =>
           stream.pos = lines[stream.file] /\ fd # stream.file]_vars
  <2> SUFFICES ASSUME TypeInv, LeavingInv, Next, stream'.file # stream.file, stream.file # 0
               PROVE  stream.pos = lines[stream.file] /\ fd # stream.file
    OBVIOUS
  <2>1. stream' # stream
    OBVIOUS
  <2>2. Connect \/ Follow
    BY <2>1 DEF Next, Daemon, Rotate, Write, Start, Stop, Reopen, RotateStopped, Die, Prepare,
       Rename, Touch, WriteGeneration, ReloadLogs, MarkHandoff, CompressPending, Shift, Replace,
       Unlink, Finish, RenameStopped
  <2>3. Open
    BY <2>2 DEF Follow, Connect, Read, Leave, Number, Streams, LeavingInv, TypeInv, TypeOK
  <2> QED BY <2>3 DEF Open, LeavingInv
<1> QED BY <1>1, InitTypes, StepTypes, InitWriter, StepWriter, StepLeaving, PTL
           DEF Spec, LeavesNoLine

-----------------------------------------------------------------------------
(* No archive is lost. *)

\* Files among the first n archives, without the one that is still to be archived.
Archived(n) == {archives[m] : m \in 1..n} \ {0, pending}

\* 1 while the helper has made room for a file and not filled it.
Room == IF rot \in {"shifted", "stopshifted"} \/ (rot = "replaced" /\ Compress) THEN 1 ELSE 0

\* As many files in the first n archives as there are places, but for those cut off.
Enough(n) == Cardinality(Archived(n)) + cuts + Room >= n

\* A rotation finds the file it is to archive, and room for it.
PlacesInv ==
  /\ \A n \in Slots: archives[n] <= born /\ (base # 0 => archives[n] # base)
  /\ rot \in {"renamed", "touched", "prepared", "reloaded", "marked", "compressed", "shifted"} =>
       pending # 0
  /\ rot \in {"shifted", "stopshifted"} => archives[1] = 0
  /\ rot = "replaced" => IF Compress THEN pending # 0 /\ archives[1] = pending ELSE pending = 0
  /\ rot = "unlinked" => pending = 0
  /\ rot = "stopshifted" => base # 0

\* Below an archive there are no holes but those of a rotation that was cut off; nothing
\* was dropped unless the archives are as full.
KeptInv ==
  /\ \A n \in Slots: archives[n] # 0 => Enough(n)
  /\ \/ Enough(Keep)
     \/ \A f \in 1..born: f = base \/ f = pending \/ \E n \in Slots: archives[n] = f


\* What the next two lemmas need to know of the archives.
LEMMA ArchivedFacts ==
  ASSUME TypeInv, NEW n \in 0..Keep
  PROVE  IsFiniteSet(Archived(n)) /\ Cardinality(Archived(n)) \in Nat
<1>1. \A m \in 1..n: m \in Slots
  BY KeepNat DEF Slots
<1>2. \A m \in 1..n: archives[m] \in 0..MaxFiles
  BY <1>1 DEF TypeInv, TypeOK
<1>3. Archived(n) \subseteq 0..MaxFiles
  BY <1>2 DEF Archived
<1>4. IsFiniteSet(0..MaxFiles)
  <2>1. 0 \in Int /\ MaxFiles \in Int
    BY BoundsNat
  <2> QED BY <2>1, FS_Interval
<1>5. IsFiniteSet(Archived(n))
  BY <1>3, <1>4, FS_Subset
<1> QED BY <1>5, FS_CardinalityType

LEMMA ShiftedArchives ==
  ASSUME TypeInv, archives' = Shifted, pending' = pending, NEW n \in Slots
  PROVE  Archived(n)' = Archived(n - 1)
<1>1. n \in Nat \ {0} /\ \A m \in 1..n: m \in Slots
  BY KeepNat DEF Slots
<1>2. \A m \in 1..n: archives'[m] = IF m = 1 THEN 0 ELSE archives[m - 1]
  BY <1>1 DEF Shifted
<1>3. \A m \in 1..(n - 1): m + 1 \in 1..n /\ m + 1 # 1 /\ m + 1 - 1 = m
  BY <1>1
<1>4. \A m \in 1..(n - 1): archives'[m + 1] = archives[m]
  BY <1>2, <1>3
<1>5. \A m \in 1..n: m = 1 \/ m - 1 \in 1..(n - 1)
  BY <1>1
<1>6. ASSUME NEW f \in Archived(n)' PROVE f \in Archived(n - 1)
  <2>1. PICK m \in 1..n: f = archives'[m] /\ f \notin {0, pending}
    BY DEF Archived
  <2>2. m - 1 \in 1..(n - 1) /\ f = archives[m - 1]
    BY <1>2, <1>5, <2>1
  <2> QED BY <2>1, <2>2 DEF Archived
<1>7. ASSUME NEW f \in Archived(n - 1) PROVE f \in Archived(n)'
  <2>1. PICK m \in 1..(n - 1): f = archives[m] /\ f \notin {0, pending}
    BY DEF Archived
  <2>2. m + 1 \in 1..n /\ f = archives'[m + 1]
    BY <1>3, <1>4, <2>1
  <2> QED BY <2>1, <2>2 DEF Archived
<1> QED BY <1>6, <1>7

\* Making room costs at most the oldest archive, of which there are enough then.
LEMMA ShiftKeeps ==
  ASSUME TypeInv, TypeInv', PlacesInv, KeptInv, archives' = Shifted,
         UNCHANGED <<pending, cuts, born, base>>, Room = 0, Room' = 1
  PROVE  /\ KeptInv' /\ archives'[1] = 0
         /\ \A n \in Slots: archives'[n] <= born /\ (base # 0 => archives'[n] # base)
<1>1. Keep \in Nat \ {0} /\ Slots = 1..Keep /\ cuts \in Nat /\ born \in Nat
  BY KeepNat, BoundsNat DEF Slots, TypeInv, TypeOK, Files
<1>2. \A n \in Slots: archives'[n] = IF n = 1 THEN 0 ELSE archives[n - 1]
  BY DEF Shifted
<1>3. \A n \in Slots: n = 1 \/ n - 1 \in Slots
  BY <1>1
<1>4. archives'[1] = 0
  BY <1>1, <1>2
<1>5. \A n \in Slots: archives'[n] <= born /\ (base # 0 => archives'[n] # base)
  BY <1>1, <1>2, <1>3 DEF PlacesInv
<1>6. \A n \in Slots: Archived(n)' = Archived(n - 1) /\ Cardinality(Archived(n - 1)) \in Nat
  <2> TAKE n \in Slots
  <2>1. n - 1 \in 0..Keep
    BY <1>1
  <2> QED BY <2>1, ArchivedFacts, ShiftedArchives
<1>7. \A n \in Slots: Enough(n)' <=> Cardinality(Archived(n - 1)) + cuts + 1 >= n
  BY <1>6 DEF Enough
<1>8. ASSUME NEW n \in Slots, archives'[n] # 0 PROVE Enough(n)'
  <2>1. n - 1 \in Slots /\ archives[n - 1] # 0
    BY <1>2, <1>3, <1>8
  <2>2. Cardinality(Archived(n - 1)) + cuts + 0 >= n - 1
    BY <2>1 DEF KeptInv, Enough
  <2>3. Cardinality(Archived(n - 1)) \in Nat /\ n \in Nat
    <3>1. n \in Nat
      BY <1>1
    <3>2. Cardinality(Archived(n - 1)) \in Nat
      BY <1>6
    <3> QED BY <3>1, <3>2
  <2>4. Cardinality(Archived(n - 1)) + cuts + 1 >= n
    BY <1>1, <2>2, <2>3
  <2> QED BY <1>7, <2>4
<1>9. ASSUME Enough(Keep) PROVE Enough(Keep)'
  <2>1. Keep \in Slots /\ Keep \in 0..Keep /\ Keep - 1 \in 0..Keep
    BY <1>1
  <2>2. /\ IsFiniteSet(Archived(Keep - 1)) /\ Cardinality(Archived(Keep - 1)) \in Nat
        /\ IsFiniteSet(Archived(Keep)) /\ Cardinality(Archived(Keep)) \in Nat
    BY <2>1, ArchivedFacts
  <2>3. Archived(Keep) \subseteq Archived(Keep - 1) \cup {archives[Keep]}
    <3>1. \A m \in 1..Keep: m = Keep \/ m \in 1..(Keep - 1)
      BY <1>1
    <3> QED BY <3>1 DEF Archived
  <2>4. /\ IsFiniteSet(Archived(Keep - 1) \cup {archives[Keep]})
        /\ Cardinality(Archived(Keep - 1) \cup {archives[Keep]}) \in
             {Cardinality(Archived(Keep - 1)), Cardinality(Archived(Keep - 1)) + 1}
    BY <2>2, FS_AddElement
  <2>5. Cardinality(Archived(Keep)) <= Cardinality(Archived(Keep - 1) \cup {archives[Keep]})
    BY <2>3, <2>4, FS_Subset
  <2>6. Cardinality(Archived(Keep)) <= Cardinality(Archived(Keep - 1)) + 1
    BY <2>2, <2>4, <2>5
  <2>7. Cardinality(Archived(Keep)) + cuts + 0 >= Keep
    BY <1>9 DEF Enough
  <2>8. Cardinality(Archived(Keep - 1)) + cuts + 1 >= Keep
    BY <1>1, <2>2, <2>6, <2>7
  <2> QED BY <1>7, <2>1, <2>8
<1>10. ASSUME archives[Keep] = 0,
              \A f \in 1..born: f = base \/ f = pending \/ \E n \in Slots: archives[n] = f,
              NEW f \in 1..born, f # base, f # pending
       PROVE  \E n \in Slots: archives'[n] = f
  <2>1. PICK n \in Slots: archives[n] = f
    BY <1>10
  <2>2. n # Keep
    BY <1>10, <2>1
  <2>3. PICK m \in Slots: m # 1 /\ m - 1 = n
    <3> DEFINE k == n + 1
    <3>1. k \in Slots /\ k # 1 /\ k - 1 = n
      BY <1>1, <2>2
    <3> HIDE DEF k
    <3> QED BY <3>1
  <2>4. archives'[m] = archives[m - 1]
    BY <1>2, <2>3
  <2>5. archives'[m] = f
    BY <2>1, <2>3, <2>4
  <2> QED BY <2>5
<1>11. Keep \in Slots
  BY <1>1
<1>12. KeptInv'
  <2>1. CASE Enough(Keep)
    BY <1>8, <1>9, <2>1 DEF KeptInv
  <2>2. CASE ~Enough(Keep)
    <3>1. archives[Keep] = 0
      BY <1>11, <2>2 DEF KeptInv
    <3>2. \A f \in 1..born': f = base' \/ f = pending' \/ \E n \in Slots: archives'[n] = f
      BY <1>10, <2>2, <3>1 DEF KeptInv
    <3> QED BY <1>8, <3>2 DEF KeptInv
  <2> QED BY <2>1, <2>2
<1> QED BY <1>4, <1>5, <1>12

\* Filling the room makes up for it.
LEMMA FillKeeps ==
  ASSUME TypeInv, KeptInv, NEW x, Room = 1, Room' = 0, cuts' = cuts,
         \A n \in Slots: Archived(n)' = Archived(n) \cup {x} /\ x \notin Archived(n),
         \A n \in Slots: archives'[n] # 0 => n = 1 \/ archives[n] # 0
  PROVE  /\ \A n \in Slots: archives'[n] # 0 => Enough(n)'
         /\ Enough(Keep) => Enough(Keep)'
<1>1. Keep \in Nat \ {0} /\ Slots = 1..Keep /\ cuts \in Nat
  BY KeepNat DEF Slots, TypeInv, TypeOK
<1>2. \A n \in Slots: /\ Cardinality(Archived(n)) \in Nat
                      /\ Cardinality(Archived(n)') = Cardinality(Archived(n)) + 1
  <2> TAKE n \in Slots
  <2>1. n \in 0..Keep
    BY <1>1
  <2>2. IsFiniteSet(Archived(n)) /\ Cardinality(Archived(n)) \in Nat
    BY <2>1, ArchivedFacts
  <2>3. Cardinality(Archived(n) \cup {x}) = Cardinality(Archived(n)) + 1
    BY <2>2, FS_AddElement
  <2> QED BY <2>2, <2>3
<1>3. \A n \in Slots: Enough(n)' <=> Cardinality(Archived(n)) + 1 + cuts + 0 >= n
  BY <1>2 DEF Enough
<1>4. \A n \in Slots: Enough(n) <=> Cardinality(Archived(n)) + cuts + 1 >= n
  BY DEF Enough
<1>5. \A n \in Slots: Enough(n) => Enough(n)'
  <2> TAKE n \in Slots
  <2>1. Cardinality(Archived(n)) \in Nat /\ n \in Nat
    BY <1>1, <1>2
  <2>2. Cardinality(Archived(n)) + cuts + 1 >= n => Cardinality(Archived(n)) + 1 + cuts + 0 >= n
    BY <1>1, <2>1
  <2> QED BY <1>3, <1>4, <2>2
<1>6. 1 \in Slots /\ Keep \in Slots
  BY <1>1
<1>7. Enough(1)'
  <2>1. Cardinality(Archived(1)) \in Nat
    BY <1>2, <1>6
  <2>2. Cardinality(Archived(1)) + 1 + cuts + 0 >= 1
    BY <1>1, <2>1
  <2> QED BY <1>3, <1>6, <2>2
<1> QED BY <1>5, <1>6, <1>7 DEF KeptInv

\* What is as full as before is full enough.
LEMMA SameKeeps ==
  ASSUME TypeInv, TypeInv', KeptInv, \A n \in Slots: Archived(n)' = Archived(n),
         cuts' + Room' >= cuts + Room,
         \A n \in Slots: archives'[n] # 0 => archives[n] # 0 \/ (n = 1 /\ Room' = 1)
  PROVE  /\ \A n \in Slots: archives'[n] # 0 => Enough(n)'
         /\ Enough(Keep) => Enough(Keep)'
<1>1. Keep \in Nat \ {0} /\ Slots = 1..Keep /\ cuts \in Nat /\ cuts' \in Nat
      /\ Room \in Nat /\ Room' \in Nat
  BY KeepNat DEF Slots, TypeInv, TypeOK, Room
<1>2. \A n \in Slots: Cardinality(Archived(n)) \in Nat /\ n \in Nat
  <2> TAKE n \in Slots
  <2>1. n \in 0..Keep
    BY <1>1
  <2> QED BY <2>1, ArchivedFacts
<1>3. \A n \in Slots: /\ Enough(n) <=> Cardinality(Archived(n)) + cuts + Room >= n
                      /\ Enough(n)' <=> Cardinality(Archived(n)) + cuts' + Room' >= n
  BY DEF Enough
<1>4. \A n \in Slots: Enough(n) => Enough(n)'
  <2> TAKE n \in Slots
  <2>1. Cardinality(Archived(n)) + cuts + Room >= n => Cardinality(Archived(n)) + cuts' + Room' >= n
    <3> DEFINE c == Cardinality(Archived(n))
               a == cuts
               b == cuts'
               p == Room
               q == Room'
    <3>1. c \in Nat /\ n \in Nat
      BY <1>2
    <3>2. a \in Nat /\ b \in Nat /\ p \in Nat /\ q \in Nat /\ b + q >= a + p
      BY <1>1
    <3>3. c + a + p >= n => c + b + q >= n
      <4> HIDE DEF c, a, b, p, q
      <4> QED BY <3>1, <3>2
    <3> QED BY <3>3
  <2> QED BY <1>3, <2>1
<1>5. Room' = 1 => Enough(1)'
  <2>1. Cardinality(Archived(1)) \in Nat /\ 1 \in Slots
    BY <1>1, <1>2
  <2>2. Room' = 1 => Cardinality(Archived(1)) + cuts' + Room' >= 1
    BY <1>1, <2>1
  <2> QED BY <1>3, <2>1, <2>2
<1>6. Keep \in Slots
  BY <1>1
<1> QED BY <1>4, <1>5, <1>6 DEF KeptInv

LEMMA StepKept ==
  ASSUME TypeInv, TypeInv', WriterInv, PlacesInv, KeptInv, [Next]_vars
  PROVE  PlacesInv' /\ KeptInv'
<1> USE DEF files, kept
<1>1. /\ Slots = 1..Keep /\ Keep \in Nat \ {0} /\ 1 \in Slots /\ Keep \in Slots
      /\ born \in Nat \ {0} /\ base \in Nat /\ pending \in Nat /\ cuts \in Nat
      /\ archives \in [Slots -> 0..MaxFiles] /\ archives' \in [Slots -> 0..MaxFiles]
      /\ \A n \in Slots: archives[n] \in Nat
      /\ \A n \in Slots: \A m \in 1..n: m \in Slots
  <2>1. /\ Slots = 1..Keep /\ Keep \in Nat \ {0} /\ 1 \in Slots /\ Keep \in Slots
        /\ \A n \in Slots: \A m \in 1..n: m \in Slots
    BY KeepNat DEF Slots
  <2>2. born \in Nat \ {0} /\ base \in Nat /\ pending \in Nat
    BY Bounded
  <2>3. archives \in [Slots -> 0..MaxFiles] /\ cuts \in Nat
    BY DEF TypeInv, TypeOK
  <2>4. archives' \in [Slots -> 0..MaxFiles]
    BY DEF TypeInv, TypeOK
  <2>5. \A n \in Slots: archives[n] \in Nat
    BY <2>3, BoundsNat
  <2> QED BY <2>1, <2>2, <2>3, <2>4, <2>5
<1>2. CASE Write \/ Stop \/ Start \/ Reopen \/ Touch \/ Connect \/ Follow \/ UNCHANGED vars
           \/ Prepare \/ WriteGeneration \/ ReloadLogs \/ MarkHandoff \/ CompressPending \/ Finish
  <2>1. UNCHANGED <<archives, pending, cuts>>
    BY <1>2 DEF Write, Start, Stop, Reopen, Touch, Connect, Follow, Read, Leave, Number, Open,
       Streams, vars, Prepare, WriteGeneration, ReloadLogs, MarkHandoff, CompressPending, Finish
  <2>2. Room' = Room
    BY <1>2 DEF Write, Start, Stop, Reopen, Touch, Connect, Follow, Read, Leave, Number, Open,
       Streams, vars, Prepare, Retried, WriteGeneration, ReloadLogs, MarkHandoff, CompressPending,
       Finish, Room
  <2>3. UNCHANGED <<born, base>> \/ (base = 0 /\ born' = born + 1 /\ base' = born + 1)
    BY <1>2, OpenLogTypes DEF Write, Start, Stop, Reopen, Touch, Connect, Follow, Read, Leave, Number,
       Open, Streams, vars, Prepare, WriteGeneration, ReloadLogs, MarkHandoff, CompressPending, Finish
  <2>4. \A n \in Slots: Archived(n)' = Archived(n)
    BY <2>1 DEF Archived
  <2>5. cuts' + Room' >= cuts + Room
    BY <1>1, <2>1, <2>2 DEF Room
  <2>6. /\ \A n \in Slots: archives'[n] # 0 => Enough(n)'
        /\ Enough(Keep) => Enough(Keep)'
    BY <2>4, <2>5, <2>1, SameKeeps
  <2>7. (\A f \in 1..born: f = base \/ f = pending \/ \E n \in Slots: archives[n] = f) =>
          (\A f \in 1..born': f = base' \/ f = pending' \/ \E n \in Slots: archives'[n] = f)
    BY <1>1, <2>1, <2>3
  <2>8. KeptInv'
    BY <2>6, <2>7 DEF KeptInv
  <2>9. \A n \in Slots: archives'[n] <= born' /\ (base' # 0 => archives'[n] # base')
    BY <1>1, <2>1, <2>3 DEF PlacesInv
  <2>10. /\ rot' \in {"renamed", "touched", "prepared", "reloaded", "marked", "compressed",
                    "shifted"} => pending' # 0
         /\ rot' \in {"shifted", "stopshifted"} => archives'[1] = 0
         /\ rot' = "replaced" => IF Compress THEN pending' # 0 /\ archives'[1] = pending'
                                ELSE pending' = 0
         /\ rot' = "unlinked" => pending' = 0
         /\ rot' = "stopshifted" => base' # 0
    <3>1. CASE rot' = rot /\ (base # 0 => base' # 0)
      BY <2>1, <3>1 DEF PlacesInv
    <3>2. CASE rot' = "idle" \/ (rot' = "unmarked")
      BY <3>2
    <3>3. CASE /\ rot' \in {"prepared", "touched", "reloaded", "marked", "compressed"}
               /\ pending # 0
      BY <2>1, <3>3
    <3>4. (rot' = rot /\ (base # 0 => base' # 0)) \/ rot' = "idle" \/ rot' = "unmarked"
          \/ (/\ rot' \in {"prepared", "touched", "reloaded", "marked", "compressed"}
              /\ pending # 0)
      <4>1. CASE Write \/ Start \/ Stop \/ Reopen \/ Connect \/ Follow \/ UNCHANGED vars
        <5>1. rot' = rot
          BY <4>1 DEF Write, Start, Stop, Reopen, Connect, Follow, Read, Leave, Number, Open, Streams, vars
        <5>2. base # 0 => base' # 0
          BY <1>1, <2>1, <2>3
        <5> QED BY <5>1, <5>2
      <4>2. CASE Prepare \/ Finish
        BY <4>2 DEF Prepare, Retried, Finish
      <4>3. CASE Touch \/ WriteGeneration \/ ReloadLogs \/ MarkHandoff \/ CompressPending
        BY <4>3 DEF Touch, WriteGeneration, ReloadLogs, MarkHandoff, CompressPending, PlacesInv
      <4> QED BY <1>2, <4>1, <4>2, <4>3
    <3> QED BY <3>1, <3>2, <3>3, <3>4
  <2> QED BY <2>8, <2>9, <2>10 DEF PlacesInv
<1>3. CASE Rename
  <2>1. /\ rot = "unmarked" /\ rot' = "renamed" /\ pending' = base /\ base' = 0
        /\ pending = 0 /\ base # 0 /\ UNCHANGED <<born, archives, cuts>>
    BY <1>3 DEF Rename, WriterInv
  <2>2. \A n \in Slots: archives[n] # base
    BY <2>1 DEF PlacesInv
  <2>3. \A n \in Slots: Archived(n)' = Archived(n)
    BY <1>1, <2>1, <2>2 DEF Archived
  <2>4. Room = 0 /\ Room' = 0
    BY <2>1 DEF Room
  <2>5. /\ \A n \in Slots: archives'[n] # 0 => Enough(n)'
        /\ Enough(Keep) => Enough(Keep)'
    BY <1>1, <2>1, <2>3, <2>4, SameKeeps
  <2>6. (\A f \in 1..born: f = base \/ f = pending \/ \E n \in Slots: archives[n] = f) =>
          (\A f \in 1..born': f = base' \/ f = pending' \/ \E n \in Slots: archives'[n] = f)
    BY <1>1, <2>1
  <2>7. PlacesInv'
    BY <2>1 DEF PlacesInv
  <2> QED BY <2>5, <2>6, <2>7 DEF KeptInv
<1>4. CASE RotateStopped \/ Shift
  <2>1. /\ archives' = Shifted /\ UNCHANGED <<pending, cuts, born, base>>
        /\ (rot = "idle" /\ rot' = "stopshifted" /\ base # 0)
           \/ (rot = "compressed" /\ rot' = "shifted" /\ pending # 0)
    BY <1>4 DEF RotateStopped, Shift, Full, PlacesInv
  <2>2. Room = 0 /\ Room' = 1
    BY <2>1 DEF Room
  <2>3. /\ KeptInv' /\ archives'[1] = 0
        /\ \A n \in Slots: archives'[n] <= born /\ (base # 0 => archives'[n] # base)
    BY <2>1, <2>2, ShiftKeeps
  <2> QED BY <2>1, <2>3 DEF PlacesInv
<1>5. CASE RenameStopped
  <2>1. /\ rot = "stopshifted" /\ rot' = "idle" /\ base' = 0 /\ base # 0 /\ base \in 1..born
        /\ archives' = [archives EXCEPT ![1] = base] /\ archives[1] = 0
        /\ UNCHANGED <<pending, cuts, born>> /\ base # pending
    BY <1>1, <1>5 DEF RenameStopped, PlacesInv, WriterInv
  <2>2. archives'[1] = base /\ \A n \in Slots: n # 1 => archives'[n] = archives[n]
    BY <1>1, <2>1
  <2>3. \A n \in Slots: archives[n] # base /\ archives[n] <= born
    BY <2>1 DEF PlacesInv
  <2>4. \A n \in Slots: Archived(n)' = Archived(n) \cup {base} /\ base \notin Archived(n)
    <3> TAKE n \in Slots
    <3>1. 1 \in 1..n /\ \A m \in 1..n: m \in Slots
      BY <1>1
    <3>2. base \notin Archived(n)
      BY <2>3, <3>1 DEF Archived
    <3>3. \A m \in 1..n: archives'[m] = IF m = 1 THEN base ELSE archives[m]
      BY <2>2, <3>1
    <3>4. Archived(n)' = Archived(n) \cup {base}
      BY <2>1, <3>1, <3>3 DEF Archived
    <3> QED BY <3>2, <3>4
  <2>5. Room = 1 /\ Room' = 0
    BY <2>1 DEF Room
  <2>6. /\ \A n \in Slots: archives'[n] # 0 => Enough(n)'
        /\ Enough(Keep) => Enough(Keep)'
    BY <2>1, <2>2, <2>4, <2>5, FillKeeps
  <2>7. (\A f \in 1..born: f = base \/ f = pending \/ \E n \in Slots: archives[n] = f) =>
          (\A f \in 1..born': f = base' \/ f = pending' \/ \E n \in Slots: archives'[n] = f)
    BY <1>1, <2>1, <2>2
  <2>8. PlacesInv'
    <3>1. \A n \in Slots: archives'[n] <= born
      BY <1>1, <2>1, <2>2, <2>3
    <3> QED BY <2>1, <3>1 DEF PlacesInv
  <2> QED BY <2>6, <2>7, <2>8 DEF KeptInv
<1>6. CASE Replace
  <2>1. /\ rot = "shifted" /\ rot' = "replaced" /\ pending # 0 /\ archives[1] = 0
        /\ archives' = [archives EXCEPT ![1] = pending]
        /\ pending' = IF Compress THEN pending ELSE 0
        /\ UNCHANGED <<born, base, cuts>> /\ pending <= born /\ pending # base
    BY <1>6 DEF Replace, PlacesInv, WriterInv
  <2>2. archives'[1] = pending /\ \A n \in Slots: n # 1 => archives'[n] = archives[n]
    BY <1>1, <2>1
  <2>3. \A n \in Slots: \A m \in 1..n: archives'[m] = IF m = 1 THEN pending ELSE archives[m]
    BY <1>1, <2>2
  <2>4. /\ \A n \in Slots: archives'[n] # 0 => Enough(n)'
        /\ Enough(Keep) => Enough(Keep)'
    <3>1. CASE Compress
      <4>1. \A n \in Slots: Archived(n)' = Archived(n)
        BY <1>1, <2>1, <2>3, <3>1 DEF Archived
      <4>2. Room = 1 /\ Room' = 1
        BY <2>1, <3>1 DEF Room
      <4>3. cuts' + Room' >= cuts + Room
        BY <1>1, <2>1, <4>2
      <4> QED BY <2>2, <4>1, <4>2, <4>3, SameKeeps
    <3>2. CASE ~Compress
      <4>1. \A n \in Slots: Archived(n)' = Archived(n) \cup {pending} /\ pending \notin Archived(n)
        <5> TAKE n \in Slots
        <5>1. 1 \in 1..n
          BY <1>1
        <5>2. Archived(n)' = Archived(n) \cup {pending}
          BY <2>1, <2>3, <3>2, <5>1 DEF Archived
        <5> QED BY <5>2 DEF Archived
      <4>2. Room = 1 /\ Room' = 0
        BY <2>1, <3>2 DEF Room
      <4> QED BY <2>1, <2>2, <4>1, <4>2, FillKeeps
    <3> QED BY <3>1, <3>2
  <2>5. (\A f \in 1..born: f = base \/ f = pending \/ \E n \in Slots: archives[n] = f) =>
          (\A f \in 1..born': f = base' \/ f = pending' \/ \E n \in Slots: archives'[n] = f)
    BY <1>1, <2>1, <2>2
  <2>6. PlacesInv'
    <3>1. \A n \in Slots: archives'[n] <= born /\ (base # 0 => archives'[n] # base)
      BY <1>1, <2>1, <2>2 DEF PlacesInv
    <3> QED BY <2>1, <2>2, <3>1 DEF PlacesInv
  <2> QED BY <2>4, <2>5, <2>6 DEF KeptInv
<1>7. CASE Unlink
  <2>1. /\ rot = "replaced" /\ rot' = "unlinked" /\ pending' = 0
        /\ UNCHANGED <<born, base, archives, cuts>>
        /\ IF Compress THEN pending # 0 /\ archives[1] = pending ELSE pending = 0
    BY <1>7 DEF Unlink, PlacesInv
  <2>2. /\ \A n \in Slots: archives'[n] # 0 => Enough(n)'
        /\ Enough(Keep) => Enough(Keep)'
    <3>1. CASE Compress
      <4>1. \A n \in Slots: Archived(n)' = Archived(n) \cup {pending} /\ pending \notin Archived(n)
        <5> TAKE n \in Slots
        <5>1. 1 \in 1..n
          BY <1>1
        <5>2. Archived(n)' = Archived(n) \cup {pending}
          BY <2>1, <3>1, <5>1 DEF Archived
        <5> QED BY <5>2 DEF Archived
      <4>2. Room = 1 /\ Room' = 0
        BY <2>1, <3>1 DEF Room
      <4> QED BY <2>1, <4>1, <4>2, FillKeeps
    <3>2. CASE ~Compress
      <4>1. \A n \in Slots: Archived(n)' = Archived(n)
        BY <2>1, <3>2 DEF Archived
      <4>2. Room = 0 /\ Room' = 0
        BY <2>1, <3>2 DEF Room
      <4>3. cuts' + Room' >= cuts + Room
        BY <1>1, <2>1, <4>2
      <4> QED BY <2>1, <4>1, <4>3, SameKeeps
    <3> QED BY <3>1, <3>2
  <2>3. (\A f \in 1..born: f = base \/ f = pending \/ \E n \in Slots: archives[n] = f) =>
          (\A f \in 1..born': f = base' \/ f = pending' \/ \E n \in Slots: archives'[n] = f)
    BY <1>1, <2>1
  <2>4. PlacesInv'
    BY <2>1 DEF PlacesInv
  <2> QED BY <2>2, <2>3, <2>4 DEF KeptInv
<1>8. CASE Die
  <2>1. /\ rot' = "idle" /\ UNCHANGED <<born, base, archives, pending>>
        /\ cuts' = IF rot \in {"shifted", "replaced", "stopshifted"} THEN cuts + 1 ELSE cuts
    BY <1>8 DEF Die
  <2>2. \A n \in Slots: Archived(n)' = Archived(n)
    BY <2>1 DEF Archived
  <2>3. cuts' + Room' >= cuts + Room
    <3>1. Room' = 0
      BY <2>1 DEF Room
    <3>2. CASE rot \in {"shifted", "replaced", "stopshifted"}
      BY <1>1, <2>1, <3>1, <3>2 DEF Room
    <3>3. CASE rot \notin {"shifted", "replaced", "stopshifted"}
      BY <1>1, <2>1, <3>1, <3>3 DEF Room
    <3> QED BY <3>2, <3>3
  <2>4. /\ \A n \in Slots: archives'[n] # 0 => Enough(n)'
        /\ Enough(Keep) => Enough(Keep)'
    BY <2>1, <2>2, <2>3, SameKeeps
  <2>5. PlacesInv'
    BY <2>1 DEF PlacesInv
  <2> QED BY <2>1, <2>4, <2>5 DEF KeptInv
<1> QED
  BY <1>2, <1>3, <1>4, <1>5, <1>6, <1>7, <1>8 DEF Next, Daemon, Rotate
LEMMA InitKept == Init => PlacesInv /\ KeptInv
<1> SUFFICES ASSUME Init PROVE PlacesInv /\ KeptInv
  OBVIOUS
<1>1. /\ born = 1 /\ base = 1 /\ \A n \in Slots: archives[n] = 0
      /\ rot = "idle"
  BY DEF Init
<1>2. \A f \in 1..born: f = base
  BY <1>1
<1> QED BY <1>1, <1>2 DEF PlacesInv, KeptInv

\* Rotations that fail and are tried again cost no archive, for any number of archives,
\* files and faults: the places of KeptInv are filled by files that are on the disk.
THEOREM ArchivesAreKept == Spec => []RetentionKept
<1>1. TypeInv /\ WriterInv /\ PlacesInv /\ KeptInv => RetentionKept
  <2> SUFFICES ASSUME TypeInv, WriterInv, PlacesInv, KeptInv PROVE RetentionKept
    OBVIOUS
  <2> DEFINE leaving == rot = "stopshifted"
             rotated == born - (IF base = 0 \/ leaving THEN 0 ELSE 1)
             onDisk == ({pending} \cup {archives[n] : n \in Slots}
                                  \cup (IF leaving THEN {base} ELSE {})) \ {0}
  <2>1. /\ born \in Nat \ {0} /\ base \in {0, born} /\ pending \in Nat /\ rotated \in Nat
        /\ Keep \in Nat \ {0} /\ Slots = 1..Keep /\ cuts \in Nat
    BY Bounded, KeepNat DEF WriterInv, Slots, TypeInv, TypeOK
  <2>2. IsFiniteSet(onDisk) /\ Cardinality(onDisk) \in Nat
    <3>1. onDisk \subseteq 0..MaxFiles
      BY DEF TypeInv, TypeOK
    <3>2. IsFiniteSet(0..MaxFiles)
      <4>1. 0 \in Int /\ MaxFiles \in Int
        BY BoundsNat
      <4> QED BY <4>1, FS_Interval
    <3>3. IsFiniteSet(onDisk)
      BY <3>1, <3>2, FS_Subset
    <3> QED BY <3>3, FS_CardinalityType
  <2>3. Archived(Keep) \subseteq onDisk
    BY <2>1 DEF Archived
  <2>4. IsFiniteSet(Archived(Keep)) /\ Cardinality(Archived(Keep)) \in Nat
    <3>1. Keep \in 0..Keep
      BY <2>1
    <3> QED BY <3>1, ArchivedFacts
  <2>5. CASE Enough(Keep)
    <3>1. Cardinality(Archived(Keep)) + cuts + Room >= Keep
      BY <2>5 DEF Enough
    <3>2. CASE Room = 0
      <4>1. Cardinality(Archived(Keep)) <= Cardinality(onDisk)
        BY <2>2, <2>3, FS_Subset
      <4>2. Cardinality(onDisk) + cuts >= Keep
        <5> HIDE DEF onDisk
        <5> QED BY <2>1, <2>2, <2>4, <3>1, <3>2, <4>1
      <4> HIDE DEF onDisk, rotated
      <4>3. Cardinality(onDisk) + cuts >= (IF rotated < Keep THEN rotated ELSE Keep)
        BY <2>1, <2>2, <4>2
      <4> QED BY <4>3 DEF onDisk, rotated, RetentionKept
    <3>3. CASE Room = 1
      <4>1. PICK x \in onDisk: x \notin Archived(Keep)
        <5>1. CASE rot = "stopshifted"
          <6>1. base # 0 /\ \A n \in Slots: archives[n] # base
            BY <5>1 DEF PlacesInv
          <6>2. base \in onDisk /\ base \notin Archived(Keep)
            BY <2>1, <5>1, <6>1 DEF Archived
          <6> QED BY <6>2
        <5>2. CASE rot # "stopshifted"
          <6>1. pending # 0
            BY <3>3, <5>2 DEF Room, PlacesInv
          <6>2. pending \in onDisk /\ pending \notin Archived(Keep)
            BY <6>1 DEF Archived
          <6> QED BY <6>2
        <5> QED BY <5>1, <5>2
      <4>2. Archived(Keep) \cup {x} \subseteq onDisk
        BY <2>3, <4>1
      <4>3. Cardinality(Archived(Keep) \cup {x}) = Cardinality(Archived(Keep)) + 1
        BY <2>4, <4>1, FS_AddElement
      <4>4. Cardinality(Archived(Keep) \cup {x}) <= Cardinality(onDisk)
        BY <2>2, <4>2, FS_Subset
      <4>5. Cardinality(onDisk) + cuts >= Keep
        <5> HIDE DEF onDisk
        <5> QED BY <2>1, <2>2, <2>4, <3>1, <3>3, <4>3, <4>4
      <4> HIDE DEF onDisk, rotated
      <4>6. Cardinality(onDisk) + cuts >= (IF rotated < Keep THEN rotated ELSE Keep)
        BY <2>1, <2>2, <4>5
      <4> QED BY <4>6 DEF onDisk, rotated, RetentionKept
    <3> QED BY <3>2, <3>3 DEF Room
  <2>6. CASE \A f \in 1..born: f = base \/ f = pending \/ \E n \in Slots: archives[n] = f
    <3>1. \A f \in 1..rotated: f \in 1..born /\ f # 0 /\ (f = base => leaving)
      BY <2>1
    <3>2. 1..rotated \subseteq onDisk
      <4> SUFFICES ASSUME NEW f \in 1..rotated PROVE f \in onDisk
        OBVIOUS
      <4>1. f \in 1..born /\ f # 0 /\ (f = base => leaving)
        BY <3>1
      <4>2. f = base \/ f = pending \/ \E n \in Slots: archives[n] = f
        BY <2>6, <4>1
      <4> HIDE DEF rotated
      <4> QED BY <4>1, <4>2
    <3>3. Cardinality(1..rotated) = rotated
      <4> HIDE DEF rotated
      <4>1. Cardinality(1..rotated) = IF 1 > rotated THEN 0 ELSE rotated - 1 + 1
        <5>1. 1 \in Int /\ rotated \in Int
          BY <2>1
        <5> QED BY <5>1, FS_Interval
      <4> QED BY <2>1, <4>1
    <3> HIDE DEF onDisk, rotated
    <3>4. rotated <= Cardinality(onDisk)
      BY <2>2, <3>2, <3>3, FS_Subset
    <3>5. Cardinality(onDisk) + cuts >= (IF rotated < Keep THEN rotated ELSE Keep)
      BY <2>1, <2>2, <3>4
    <3> QED BY <3>5 DEF onDisk, rotated, RetentionKept
  <2> QED BY <2>5, <2>6 DEF KeptInv
<1>2. TypeInv /\ WriterInv /\ PlacesInv /\ KeptInv /\ [Next]_vars => PlacesInv' /\ KeptInv'
  BY StepTypes, StepKept
<1> QED BY <1>1, <1>2, InitTypes, StepTypes, InitWriter, StepWriter, InitKept, PTL DEF Spec

-----------------------------------------------------------------------------
(* No gap goes unnoticed. *)

Count(S, file) == Cardinality({f \in S : f <= file})

\* Each file is numbered once, in the order of their creation.
NumberInv ==
  /\ numbered \subseteq 1..born /\ gen.sequence = Cardinality(numbered)
  /\ rot \in {"renamed", "touched"} => base \notin numbered

\* The stream does not believe it has seen more files than were numbered up to its own.
ToldInv ==
  /\ stream.pc # "off" => stream.last = Unknown \/ stream.last <= gen.sequence
  /\ stream.pc \in {"read", "leaving"} /\ ~stream.raced =>
       stream.last = Unknown \/ stream.last <= Count(numbered, stream.file)
  /\ stream.pc = "open" =>
       /\ stream.last = stream.from /\ stream.from <= gen.sequence
       /\ ~stream.raced => stream.told \/ stream.from <= Count(numbered, stream.file) + 1

LEMMA Counts ==
  ASSUME TypeInv, NumberInv
  PROVE  /\ IsFiniteSet(numbered) /\ gen.sequence \in Nat
         /\ \A n \in Nat: IsFiniteSet({f \in numbered : f <= n}) /\ Count(numbered, n) \in Nat
         /\ Count(numbered, born) = gen.sequence
<1>1. born \in Nat
  BY Bounded
<1>2. IsFiniteSet(1..born)
  <2>1. 1 \in Int /\ born \in Int
    BY <1>1
  <2> QED BY <2>1, FS_Interval
<1>3. IsFiniteSet(numbered)
  BY <1>2, FS_Subset DEF NumberInv
<1>4. \A n \in Nat: IsFiniteSet({f \in numbered : f <= n}) /\ Count(numbered, n) \in Nat
  <2> TAKE n \in Nat
  <2>1. {f \in numbered : f <= n} \subseteq numbered
    OBVIOUS
  <2>2. IsFiniteSet({f \in numbered : f <= n})
    BY <1>3, <2>1, FS_Subset
  <2> QED BY <2>2, FS_CardinalityType DEF Count
<1>5. {f \in numbered : f <= born} = numbered
  <2>1. \A f \in numbered: f <= born
    BY <1>1 DEF NumberInv
  <2> QED BY <2>1
<1>6. Count(numbered, born) = gen.sequence
  BY <1>5 DEF Count, NumberInv
<1> QED BY <1>1, <1>3, <1>4, <1>6

LEMMA InitTold == Init => NumberInv /\ ToldInv
<1> SUFFICES ASSUME Init PROVE NumberInv /\ ToldInv
  OBVIOUS
<1>1. Cardinality(numbered) = 0
  BY FS_EmptySet DEF Init
<1> QED BY <1>1 DEF Init, NumberInv, ToldInv, Off

\* A generation is written for a file that had none.
LEMMA StepNumber ==
  ASSUME TypeInv, WriterInv, NumberInv, [Next]_vars
  PROVE  /\ NumberInv' /\ numbered \subseteq numbered'
         /\ gen.sequence <= gen'.sequence
<1> USE DEF files, kept
<1>1. CASE WriteGeneration
  <2>1. /\ base \in 1..born /\ base \notin numbered /\ numbered' = numbered \cup {base}
        /\ gen'.sequence = gen.sequence + 1 /\ rot' = "prepared" /\ born' = born
    BY <1>1, Bounded DEF WriteGeneration, TypeInv, WriterInv, NumberInv
  <2>2. Cardinality(numbered') = Cardinality(numbered) + 1
    BY <2>1, Counts, FS_AddElement
  <2> QED BY <2>1, <2>2, Counts DEF NumberInv
<1>2. CASE ~WriteGeneration
  <2>1. UNCHANGED <<gen, numbered>>
    BY <1>2 DEF Next, Daemon, Rotate, Follow, Write, Start, Stop, Reopen, RotateStopped,
       RenameStopped, Prepare, Rename, Touch, ReloadLogs, MarkHandoff, CompressPending, Shift,
       Replace, Unlink, Finish, Die, Connect, Read, Leave, Number, Open, Streams, vars
  <2>2. \/ born' = born /\ base' \in {base, 0}
        \/ born' = born + 1 /\ base' = born + 1
    BY <1>2, OpenLogTypes
       DEF Next, Daemon, Rotate, Follow, Write, Start, Stop, Reopen, RotateStopped,
       RenameStopped, Prepare, Rename, Touch, ReloadLogs, MarkHandoff, CompressPending, Shift,
       Replace, Unlink, Finish, Die, Connect, Read, Leave, Number, Open, Streams, vars
  <2>3. rot' \in {"renamed", "touched"} => rot \in {"renamed", "touched"} \/ base' = 0
    BY <1>2 DEF Next, Daemon, Rotate, Follow, Write, Start, Stop, Reopen, RotateStopped,
       RenameStopped, Prepare, Retried, Rename, Touch, ReloadLogs, MarkHandoff, CompressPending,
       Shift, Replace, Unlink, Finish, Die, Connect, Read, Leave, Number, Open, Streams, vars
  <2>4. \A f \in numbered: f \in Nat \ {0} /\ f <= born
    BY Bounded DEF NumberInv
  <2>5. 0 \notin numbered /\ born + 1 \notin numbered
    BY <2>4, Bounded
  <2>6. rot' \in {"renamed", "touched"} => base' \notin numbered'
    BY <2>1, <2>2, <2>3, <2>5 DEF NumberInv
  <2>7. numbered' \subseteq 1..born'
    BY <2>1, <2>2, <2>4, Bounded
  <2> QED BY <2>1, <2>6, <2>7, Counts DEF NumberInv
<1> QED BY <1>1, <1>2

LEMMA StepTold ==
  ASSUME TypeInv, TypeInv', WriterInv, NumberInv, ToldInv, [Next]_vars
  PROVE  ToldInv'
<1> USE DEF files, kept
<1>1. /\ NumberInv' /\ numbered \subseteq numbered' /\ gen.sequence <= gen'.sequence
  BY StepNumber
<1>2. gen.sequence \in Nat /\ gen'.sequence \in Nat /\ stream.last \in Nat /\ stream.from \in Nat
      /\ stream.file \in Nat
  BY Bounded DEF TypeInv, TypeOK
<1>3. \A n \in Nat: /\ Count(numbered, n) \in Nat /\ Count(numbered', n) \in Nat
                    /\ Count(numbered, n) <= Count(numbered', n)
  <2> TAKE n \in Nat
  <2>1. {f \in numbered : f <= n} \subseteq {f \in numbered' : f <= n}
    BY <1>1
  <2>2. IsFiniteSet(Files)
    <3>1. 1 \in Int /\ MaxFiles \in Int
      BY BoundsNat
    <3> QED BY <3>1, FS_Interval DEF Files
  <2>3. {f \in numbered' : f <= n} \subseteq Files
    BY DEF TypeInv, TypeOK
  <2>4. IsFiniteSet({f \in numbered' : f <= n})
    BY <2>2, <2>3, FS_Subset
  <2>5. Count(numbered', n) = Cardinality({f \in numbered' : f <= n})
    BY DEF Count
  <2>6. Count(numbered', n) \in Nat
    BY <2>4, <2>5, FS_CardinalityType
  <2>7. Count(numbered, n) <= Count(numbered', n)
    BY <2>1, <2>4, <2>5, FS_Subset DEF Count
  <2>8. Count(numbered, n) \in Nat
    BY Counts
  <2> QED BY <2>6, <2>7, <2>8
<1>4. base # 0 => base = born /\ Count(numbered, base) = gen.sequence
  BY Counts DEF WriterInv
<1>5. CASE stream' = stream
  <2>1. Count(numbered, stream.file) \in Nat /\ Count(numbered', stream.file) \in Nat
        /\ Count(numbered, stream.file) <= Count(numbered', stream.file)
    BY <1>2, <1>3
  <2>2. Count(numbered', stream'.file) = Count(numbered', stream.file)
    BY <1>5
  <2>3. stream.last <= gen.sequence => stream.last <= gen'.sequence
    BY <1>1, <1>2
  <2>4. stream.last <= Count(numbered, stream.file) => stream.last <= Count(numbered', stream.file)
    BY <1>2, <2>1
  <2>5. stream.from <= gen.sequence => stream.from <= gen'.sequence
    BY <1>1, <1>2
  <2>6. stream.from <= Count(numbered, stream.file) + 1 =>
          stream.from <= Count(numbered', stream.file) + 1
    BY <1>2, <2>1
  <2> QED BY <1>5, <2>2, <2>3, <2>4, <2>5, <2>6 DEF ToldInv
<1>6. CASE Connect \/ Follow
  <2>1. UNCHANGED <<gen, numbered, base>>
    BY <1>6 DEF Connect, Follow, Read, Leave, Number, Open, Streams
  <2>3. CASE Connect
    <3>1. /\ stream'.pc = "read" /\ stream'.file = base /\ base # 0
          /\ stream'.last \in {gen.sequence, Unknown}
      BY <2>3 DEF Connect, Streams, Off
    <3>2. Count(numbered', stream'.file) = gen.sequence
      BY <1>4, <2>1, <3>1
    <3> QED BY <1>2, <2>1, <3>1, <3>2 DEF ToldInv
  <2>4. CASE Read \/ Leave
    <3>1. /\ stream.pc = "read" /\ stream'.pc \in {"read", "leaving"}
          /\ stream'.file = stream.file /\ stream'.last = stream.last
          /\ stream'.raced = stream.raced
      BY <2>4 DEF Read, Leave, Streams, TypeInv, TypeOK
    <3>2. Count(numbered', stream'.file) = Count(numbered, stream.file)
      BY <1>2, <2>1, <3>1
    <3> QED BY <2>1, <3>1, <3>2 DEF ToldInv
  <2>5. CASE Number
    <3>1. /\ stream.pc = "leaving" /\ stream'.pc = "open" /\ stream'.file = stream.file
          /\ stream'.told = Missed(stream.last) /\ stream'.last = gen.sequence
          /\ stream'.from = gen.sequence /\ stream'.raced = stream.raced
      BY <2>5 DEF Number, Streams, TypeInv, TypeOK
    <3>2. /\ Count(numbered', stream'.file) = Count(numbered, stream.file)
          /\ Count(numbered, stream.file) \in Nat
      BY <1>2, <1>3, <2>1, <3>1
    <3>3. ~stream.raced => Missed(stream.last) \/ gen.sequence <= Count(numbered, stream.file) + 1
      <4>1. ~stream.raced => stream.last = Unknown \/ stream.last <= Count(numbered, stream.file)
        BY <3>1 DEF ToldInv
      <4>2. Missed(stream.last) \/ (stream.last # Unknown /\ gen.sequence = stream.last + 1)
        BY DEF Missed
      <4> QED BY <1>2, <3>2, <4>1, <4>2
    <3> QED BY <1>2, <2>1, <3>1, <3>2, <3>3 DEF ToldInv
  <2>6. CASE Open
    <3>1. stream.pc = "open" /\ stream'.pc = "read" /\ stream'.last = stream.last
      BY <2>6 DEF Open, Streams, TypeInv, TypeOK
    <3>2. stream.last <= gen.sequence
      BY <3>1 DEF ToldInv
    <3>3. stream'.raced \/ (base # 0 /\ stream'.file = base)
      BY <2>6 DEF Open, Streams, TypeInv, TypeOK
    <3>4. stream'.raced \/ stream'.last <= Count(numbered', stream'.file)
      <4>1. CASE base # 0 /\ stream'.file = base
        <5>1. Count(numbered', stream'.file) = gen.sequence
          BY <1>4, <2>1, <4>1
        <5> QED BY <3>1, <3>2, <5>1
      <4> QED BY <3>3, <4>1
    <3> QED BY <2>1, <3>1, <3>2, <3>4 DEF ToldInv
  <2> QED BY <1>6, <2>3, <2>4, <2>5, <2>6 DEF Follow
<1>7. stream' = stream \/ Connect \/ Follow
  BY DEF Next, Daemon, Rotate, Write, Start, Stop, Reopen, RotateStopped,
     RenameStopped, Prepare, Rename, Touch, WriteGeneration, ReloadLogs, MarkHandoff,
     CompressPending, Shift, Replace, Unlink, Finish, Die, vars
<1> QED BY <1>5, <1>6, <1>7

\* A stream that misses a whole file says so, for any number of files and rotations: it
\* believes to have seen at most as many as were numbered up to its own, and two files
\* after that are two more.
THEOREM MissesAreTold == Spec => GapsAreTold
<1>1. TypeInv /\ WriterInv /\ LeavingInv /\ NumberInv /\ ToldInv /\ [Next]_vars =>
        [stream'.file > stream.file + 1 /\ stream.file # 0 =>
           \/ stream.told \/ stream.raced \/ gen.sequence # stream.from
           \/ ~((stream.file + 1)..stream'.file \subseteq numbered)]_vars
  <2> SUFFICES ASSUME TypeInv, LeavingInv, NumberInv, ToldInv, Next,
                      stream'.file > stream.file + 1, stream.file # 0,
                      ~stream.told, ~stream.raced, gen.sequence = stream.from,
                      (stream.file + 1)..stream'.file \subseteq numbered
               PROVE  FALSE
    OBVIOUS
  <2>1. stream.file \in Nat /\ stream'.file \in Nat
    <3>1. stream.file \in Nat /\ base \in Nat
      BY Bounded
    <3>2. stream'.file \in {stream.file, base}
      BY DEF Next, Daemon, Rotate, Follow, Write, Start, Stop, Reopen, RotateStopped,
         RenameStopped, Prepare, Rename, Touch, WriteGeneration, ReloadLogs, MarkHandoff,
         CompressPending, Shift, Replace, Unlink, Finish, Die, Connect, Read, Leave, Number,
         Open, Streams, Off, TypeInv, TypeOK
    <3> QED BY <3>1, <3>2
  <2>2. stream.pc = "open"
    <3>1. stream'.file # stream.file
      BY <2>1
    <3>2. stream' # stream
      BY <3>1
    <3>3. Connect \/ Follow
      BY <3>2 DEF Next, Daemon, Rotate, Write, Start, Stop, Reopen, RotateStopped, Die, Prepare,
         Rename, Touch, WriteGeneration, ReloadLogs, MarkHandoff, CompressPending, Shift, Replace,
         Unlink, Finish, RenameStopped
    <3> QED BY <3>1, <3>3 DEF Follow, Connect, Read, Leave, Number, Open, Streams, LeavingInv,
            TypeInv, TypeOK
  <2> DEFINE file == stream.file
             Old == {f \in numbered : f <= file}
  <2>3. gen.sequence <= Cardinality(Old) + 1
    BY <2>2 DEF ToldInv, Count
  <2>4. /\ IsFiniteSet(Old) /\ Cardinality(Old) \in Nat
        /\ IsFiniteSet(numbered) /\ gen.sequence = Cardinality(numbered)
    BY <2>1, Counts DEF Count, NumberInv
  <2>5. PICK x \in numbered, y \in numbered: x \notin Old /\ y \notin Old /\ x # y
    <3>1. file + 1 \in numbered /\ file + 2 \in numbered
      BY <2>1
    <3>2. ~(file + 1 <= file) /\ ~(file + 2 <= file) /\ file + 1 # file + 2
      BY <2>1
    <3> QED BY <3>1, <3>2
  <2> HIDE DEF Old, file
  <2>6. /\ IsFiniteSet(Old \cup {x}) /\ Cardinality(Old \cup {x}) = Cardinality(Old) + 1
    BY <2>4, <2>5, FS_AddElement
  <2>7. Cardinality((Old \cup {x}) \cup {y}) = Cardinality(Old) + 2
    <3>1. y \notin Old \cup {x}
      BY <2>5
    <3>2. Cardinality((Old \cup {x}) \cup {y}) = Cardinality(Old \cup {x}) + 1
      BY <2>6, <3>1, FS_AddElement
    <3> QED BY <2>4, <2>6, <3>2
  <2>8. Cardinality((Old \cup {x}) \cup {y}) <= Cardinality(numbered)
    <3>1. (Old \cup {x}) \cup {y} \subseteq numbered
      BY <2>5 DEF Old
    <3> QED BY <2>4, <3>1, FS_Subset
  <2> DEFINE old == Cardinality(Old)
             all == Cardinality(numbered)
  <2>9. old \in Nat /\ all <= old + 1 /\ old + 2 <= all /\ all \in Nat
    BY <2>3, <2>4, <2>7, <2>8, FS_CardinalityType
  <2> HIDE DEF old, all
  <2> QED BY <2>9
<1>2. TypeInv /\ WriterInv /\ NumberInv /\ [Next]_vars => NumberInv'
  BY StepNumber
<1>3. TypeInv /\ WriterInv /\ NumberInv /\ ToldInv /\ [Next]_vars => ToldInv'
  BY StepTypes, StepTold
<1> QED BY <1>1, <1>2, <1>3, InitTypes, StepTypes, InitWriter, StepWriter, StepLeaving, InitTold,
           PTL DEF Spec, GapsAreTold

=============================================================================
