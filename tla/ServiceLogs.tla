------------------------------ MODULE ServiceLogs ------------------------------
(***************************************************************************)
(* The log of one service: log_manager.py, the helper that rotates it while    *)
(* PM2 writes (pm2_log_rotation.py) and the stream a browser follows.  A file  *)
(* is an inode; what it holds is how many lines it has.  The daemon, the       *)
(* helper, which may die at any step, and the stream run concurrently.  The    *)
(* operation lock of the service keeps one rotation at a time; it does not     *)
(* keep PM2 from starting or losing the service by itself.                     *)
(***************************************************************************)
EXTENDS Naturals, FiniteSets

CONSTANTS
  Keep,       \* log.keep: archives .log.1 to .log.Keep
  Threshold,  \* log.max_bytes, in lines
  Compress,   \* log.compress
  MaxFiles, MaxLines, MaxFaults   \* bounds: files, lines of a file, faults of the helper

ASSUME KeepNat == Keep \in Nat \ {0} /\ Threshold \in Nat \ {0} /\ Compress \in BOOLEAN
ASSUME BoundsNat == MaxFiles \in Nat \ {0} /\ MaxLines \in Nat /\ MaxFaults \in Nat

VARIABLES
  born,      \* files created so far; the last is the newest
  lines,     \* how many lines each holds
  base,      \* <id>.log, 0 when it is not there
  pending,   \* <id>.log.pending
  handoff,   \* <id>.log.pending.closed exists
  archives,  \* <id>.log.<n>, plain or .gz
  gen,       \* <id>.log.generation
  numbered,  \* files a generation was written for
  fd,        \* the file the daemon writes to, 0 while the service is stopped
  reopening, \* the daemon was asked to reopen its files
  rot,       \* where the rotation is
  stream,    \* the stream: its file, how much it delivered, last_generation
  faults, cuts

files == <<born, base>>
kept  == <<pending, handoff, archives>>
vars == <<born, lines, base, pending, handoff, archives, gen, numbered, fd, reopening,
          rot, stream, faults, cuts>>

Files == 1..MaxFiles
Slots == 1..Keep
Unknown == MaxFiles + 1   \* last_generation is None
Off == [pc |-> "off", file |-> 0, pos |-> 0, last |-> 0, from |-> 0, told |-> FALSE,
        raced |-> FALSE]

\* Opening the log for appending creates it if it is not there.
OpenLog ==
  IF base # 0 THEN UNCHANGED files
  ELSE born < MaxFiles /\ born' = born + 1 /\ base' = born + 1

Full == base # 0 /\ lines[base] >= Threshold

Shifted == [n \in Slots |-> IF n = 1 THEN 0 ELSE archives[n - 1]]

-----------------------------------------------------------------------------
(* The daemon *)

Write ==
  /\ fd # 0 /\ lines[fd] < MaxLines /\ lines' = [lines EXCEPT ![fd] = @ + 1]
  /\ UNCHANGED <<files, kept, gen, numbered, fd, reopening, rot, stream, faults, cuts>>

Start ==
  /\ fd = 0 /\ OpenLog /\ fd' = base'
  /\ UNCHANGED <<lines, kept, gen, numbered, reopening, rot, stream, faults, cuts>>

Stop ==
  /\ fd # 0 /\ fd' = 0
  /\ UNCHANGED <<files, lines, kept, gen, numbered, reopening, rot, stream, faults, cuts>>

Reopen ==
  /\ reopening /\ reopening' = FALSE
  /\ IF fd = 0 THEN UNCHANGED <<files, fd>> ELSE OpenLog /\ fd' = base'
  /\ UNCHANGED <<lines, kept, gen, numbered, rot, stream, faults, cuts>>

-----------------------------------------------------------------------------
(* rotate_if_needed, of a stopped service: shift the archives, then rename *)

RotateStopped ==
  /\ rot = "idle" /\ fd = 0 /\ Full /\ born < MaxFiles
  /\ archives' = Shifted /\ rot' = "stopshifted"
  /\ UNCHANGED <<files, lines, pending, handoff, gen, numbered, fd, reopening, stream,
                 faults, cuts>>

RenameStopped ==
  /\ rot = "stopshifted" /\ rot' = "idle" /\ base' = 0
  /\ archives' = [archives EXCEPT ![1] = base]
  /\ UNCHANGED <<born, lines, pending, handoff, gen, numbered, fd, reopening, stream,
                 faults, cuts>>

-----------------------------------------------------------------------------
(* Rotation while PM2 writes: prepare, reload, check, finish *)

\* Mutant of Retried: a pending file is left to the next rotation that is due.
RetriedMut == "idle"

\* A pending file, of an attempt that did not finish, is taken up again.
Retried == "prepared"

Prepare ==
  /\ rot = "idle"
  /\ \/ pending # 0 /\ rot' = Retried /\ UNCHANGED handoff
     \/ pending = 0 /\ Full /\ born < MaxFiles /\ rot' = "unmarked" /\ handoff' = FALSE
  /\ UNCHANGED <<files, lines, pending, archives, gen, numbered, fd, reopening, stream,
                 faults, cuts>>

Rename ==
  /\ rot = "unmarked" /\ rot' = "renamed" /\ pending' = base /\ base' = 0
  /\ UNCHANGED <<born, lines, handoff, archives, gen, numbered, fd, reopening, stream,
                 faults, cuts>>

Touch ==
  /\ rot = "renamed" /\ rot' = "touched" /\ OpenLog
  /\ UNCHANGED <<lines, kept, gen, numbered, fd, reopening, stream, faults, cuts>>

WriteGeneration ==
  /\ rot = "touched" /\ rot' = "prepared"
  /\ gen' = [sequence |-> gen.sequence + 1, inode |-> base]
  /\ numbered' = numbered \cup {base}
  /\ UNCHANGED <<files, lines, kept, fd, reopening, stream, faults, cuts>>

ReloadLogs ==
  /\ rot = "prepared" /\ rot' = "reloaded" /\ reopening' = TRUE
  /\ UNCHANGED <<files, lines, kept, gen, numbered, fd, stream, faults, cuts>>

\* Mutant of Closed: the daemon is not asked.
ClosedMut == TRUE

\* The daemon no longer has the pending file open.
Closed == fd # pending

\* Once the daemon has closed the file it is marked; at the deadline it is kept.
MarkHandoff ==
  /\ rot = "reloaded"
  /\ IF Closed THEN rot' = "marked" /\ handoff' = TRUE
     ELSE rot' = "idle" /\ UNCHANGED handoff
  /\ UNCHANGED <<files, lines, pending, archives, gen, numbered, fd, reopening, stream,
                 faults, cuts>>

\* Mutant of CompressPending: the archives make room before the source is compressed.
CompressPendingMut ==
  /\ rot = "marked" /\ rot' = "compressed" /\ archives' = Shifted
  /\ UNCHANGED <<files, lines, pending, handoff, gen, numbered, fd, reopening, stream,
                 faults, cuts>>

CompressPending ==
  /\ rot = "marked" /\ rot' = "compressed"
  /\ UNCHANGED <<files, lines, kept, gen, numbered, fd, reopening, stream, faults, cuts>>

Shift ==
  /\ rot = "compressed" /\ rot' = "shifted" /\ archives' = Shifted
  /\ UNCHANGED <<files, lines, pending, handoff, gen, numbered, fd, reopening, stream,
                 faults, cuts>>

\* The compressed copy, or the pending file itself, takes the first slot.
Replace ==
  /\ rot = "shifted" /\ rot' = "replaced"
  /\ archives' = [archives EXCEPT ![1] = pending]
  /\ pending' = IF Compress THEN pending ELSE 0
  /\ UNCHANGED <<files, lines, handoff, gen, numbered, fd, reopening, stream, faults, cuts>>

Unlink ==
  /\ rot = "replaced" /\ rot' = "unlinked" /\ pending' = 0
  /\ UNCHANGED <<files, lines, handoff, archives, gen, numbered, fd, reopening, stream,
                 faults, cuts>>

Finish ==
  /\ rot = "unlinked" /\ rot' = "idle" /\ handoff' = FALSE
  /\ UNCHANGED <<files, lines, pending, archives, gen, numbered, fd, reopening, stream,
                 faults, cuts>>

\* The helper fails or dies: a command that fails, a full disk, a timeout, a kill.
Die ==
  /\ rot # "idle" /\ faults < MaxFaults /\ faults' = faults + 1 /\ rot' = "idle"
  /\ cuts' = IF rot \in {"shifted", "replaced", "stopshifted"} THEN cuts + 1 ELSE cuts
  /\ UNCHANGED <<files, lines, kept, gen, numbered, fd, reopening, stream>>

-----------------------------------------------------------------------------
(* The stream *)

Streams(s) ==
  /\ stream' = s
  /\ UNCHANGED <<files, lines, kept, gen, numbered, fd, reopening, rot, faults, cuts>>

Connect ==
  /\ stream.pc = "off" /\ base # 0
  /\ Streams([Off EXCEPT !.pc = "read", !.file = base, !.pos = lines[base],
                !.last = IF gen.inode \in {0, base} THEN gen.sequence ELSE Unknown])

Read ==
  /\ stream.pc = "read" /\ stream.pos < lines[stream.file]
  /\ Streams([stream EXCEPT !.pos = lines[stream.file]])

\* The file was replaced and its writer has left it: one last drain.
Leave ==
  /\ stream.pc = "read" /\ stream.pos = lines[stream.file]
  /\ base \notin {0, stream.file} /\ (pending = 0 \/ handoff)
  /\ Streams([stream EXCEPT !.pc = "leaving"])

\* Mutant of Missed: a stream that is behind by more than one goes unnoticed.
MissedMut(last) == last = Unknown
Missed(last) == last = Unknown \/ gen.sequence # last + 1

\* The generation tells whether a file was missed; a notice is sent if so.
Number ==
  /\ stream.pc = "leaving"
  /\ Streams([stream EXCEPT !.pc = "open", !.told = Missed(stream.last),
                            !.last = gen.sequence, !.from = gen.sequence])

\* The new file is opened; if it is not there the stream goes on with the old one.
Open ==
  /\ stream.pc = "open"
  /\ IF base = 0 THEN Streams([stream EXCEPT !.pc = "read", !.raced = TRUE])
     ELSE Streams([stream EXCEPT !.pc = "read", !.file = base, !.pos = 0,
                                 !.told = FALSE, !.raced = FALSE])

-----------------------------------------------------------------------------
Init ==
  /\ born = 1 /\ base = 1 /\ fd = 1 /\ lines = [f \in Files |-> 0]
  /\ pending = 0 /\ handoff = FALSE /\ archives = [n \in Slots |-> 0]
  /\ gen = [sequence |-> 0, inode |-> 0] /\ numbered = {} /\ reopening = FALSE
  /\ rot = "idle" /\ stream = Off /\ faults = 0 /\ cuts = 0

Rotate == \/ Prepare \/ Rename \/ Touch \/ WriteGeneration \/ ReloadLogs \/ MarkHandoff
          \/ CompressPending \/ Shift \/ Replace \/ Unlink \/ Finish \/ RenameStopped
Follow == Read \/ Leave \/ Number \/ Open
Daemon == Write \/ Start \/ Stop \/ Reopen

Next == Daemon \/ Rotate \/ RotateStopped \/ Die \/ Connect \/ Follow
Spec == Init /\ [][Next]_vars

\* The poll comes round and its helper goes on; the daemon does what it is asked; a
\* client that reads lets the stream go on.
FairSpec == Spec /\ WF_vars(Rotate) /\ WF_vars(Reopen) /\ WF_vars(Follow)

-----------------------------------------------------------------------------
(* Properties *)

RotationPcs == {"idle", "stopshifted", "unmarked", "renamed", "touched", "prepared",
                "reloaded", "marked", "compressed", "shifted", "replaced", "unlinked"}

\* Every variable has its type.
TypeOK ==
  /\ born \in Files /\ base \in 0..MaxFiles /\ pending \in 0..MaxFiles /\ fd \in 0..MaxFiles
  /\ lines \in [Files -> 0..MaxLines] /\ archives \in [Slots -> 0..MaxFiles]
  /\ handoff \in BOOLEAN /\ reopening \in BOOLEAN /\ rot \in RotationPcs
  /\ gen \in [sequence : Nat, inode : 0..MaxFiles] /\ numbered \subseteq Files
  /\ stream \in [pc : {"off", "read", "leaving", "open"}, file : 0..MaxFiles,
                 pos : 0..MaxLines, last : Nat, from : Nat, told : BOOLEAN, raced : BOOLEAN]
  /\ faults \in 0..MaxFaults /\ cuts \in Nat

\* A stream goes over to another file only when it has delivered every line of its own
\* and nobody can add one, whatever rotations were cut off before.
LeavesNoLine ==
  [][stream'.file # stream.file /\ stream.file # 0 =>
       stream.pos = lines[stream.file] /\ fd # stream.file]_vars

\* A stream that misses a whole file says so.  The code keeps this for files that were
\* numbered and when no rotation comes between reading the number and opening the file.
GapsAreTold ==
  [][stream'.file > stream.file + 1 /\ stream.file # 0 =>
       \/ stream.told \/ stream.raced \/ gen.sequence # stream.from
       \/ ~((stream.file + 1)..stream'.file \subseteq numbered)]_vars

\* Rotations that fail and are tried again cost no archive: of the files rotated so far
\* the disk has as many as it is to keep, but for one each time the helper was killed
\* between making room and filling it.
RetentionKept ==
  LET leaving == rot = "stopshifted"
      rotated == born - (IF base = 0 \/ leaving THEN 0 ELSE 1)
      onDisk  == ({pending} \cup {archives[n] : n \in Slots}
                            \cup (IF leaving THEN {base} ELSE {})) \ {0} IN
  Cardinality(onDisk) + cuts >= (IF rotated < Keep THEN rotated ELSE Keep)

\* A stream ends up at the end of the current file: no rotation that was cut off leaves
\* it waiting for ever on a file that nobody writes to.
StreamCatchesUp ==
  <>[](stream.pc # "off" =>
         base = 0 \/ (stream.file = base /\ stream.pos = lines[base]))
=============================================================================
