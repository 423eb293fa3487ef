--------------------------- MODULE StructuredLogger ---------------------------
(***************************************************************************)
(* core::StructuredLogger: threads log messages that pass the level to     *)
(* every sink; here a rotating file and a console.  The level is an atomic *)
(* read before the message is formatted; the sinks are called one after    *)
(* the other under sinksMutex_, each with a mutex of its own.              *)
(***************************************************************************)
EXTENDS Naturals, Sequences, FiniteSets, SequencesExt

(***************************************************************************)
(* core::FileSink: a log file and its backups.  A rotation shifts the      *)
(* numbered backups (or names the backup after the second), renames the    *)
(* file, compresses the backup, removes the oldest and opens a new file;   *)
(* renaming, compressing and opening may fail.  The state of a sink is a   *)
(* record, so that the logger can write to it within one dispatch.         *)
(* Assumes a file path with a directory.                                   *)
(***************************************************************************)
CONSTANTS MaxFileSize,       \* lines; a line has size 1
          MaxBackupFiles,
          RotationInterval   \* seconds
ASSUME RotationAssumption == {MaxFileSize, MaxBackupFiles, RotationInterval} \subseteq Nat

RotationTypes == {"None", "SizeBased", "TimeBased", "Hybrid"}

RotationPolicies ==
  [type : RotationTypes, compressionEnabled : BOOLEAN, timestampedNames : BOOLEAN]

\* What may go wrong in a rotation; "partial" leaves an incomplete .gz behind.
RotationFaults == {"none", "rename", "compress", "partial", "open"}

\* A backup is <<name, compressed>>; its name is its number or its second.
\* lines and cuts are history: the lines written, and where rotations cut them.
NewSink(policy, now) ==
  [policy |-> policy, open |-> TRUE, file |-> <<>>, currentSize |-> 0, lastRotation |-> now,
   backups |-> <<>>, lines |-> <<>>, cuts |-> <<>>, faults |-> {}]

shouldRotate(s, now) ==
  LET sizeTriggered == MaxFileSize > 0 /\ s.currentSize >= MaxFileSize
      timeTriggered == RotationInterval > 0 /\ now - s.lastRotation >= RotationInterval
  IN  \/ s.policy.type \in {"SizeBased", "Hybrid"} /\ sizeTriggered
      \/ s.policy.type \in {"TimeBased", "Hybrid"} /\ timeTriggered

Put(backups, n, content) ==
  [m \in DOMAIN backups \union {n} |-> IF m = n THEN content ELSE backups[m]]
Without(backups, N) == [m \in DOMAIN backups \ N |-> backups[m]]

\* Mutant: the shift stops before the first backup.
shiftNotFirst(b) ==
  LET moved == {n \in DOMAIN b : n[1] \in 2..(MaxBackupFiles - 1)} IN
  [n \in (DOMAIN b \ moved) \union {<<m[1] + 1, m[2]>> : m \in moved} |->
     IF <<n[1] - 1, n[2]>> \in moved THEN b[<<n[1] - 1, n[2]>>] ELSE b[n]]

\* Each number below the limit moves up by one, the compressed file if there
\* is one, else the plain one; a file of that name is replaced.
rotateBackupFiles(b) ==
  LET moved == {n \in DOMAIN b : n[1] \in 1..(MaxBackupFiles - 1)
                                 /\ (n[2] \/ <<n[1], TRUE>> \notin DOMAIN b)}
      up(n) == <<n[1] + 1, n[2]>>
  IN  [n \in (DOMAIN b \ moved) \union {up(m) : m \in moved} |->
         IF \E m \in moved : up(m) = n THEN b[CHOOSE m \in moved : up(m) = n] ELSE b[n]]

\* The names above the limit go; of timestamped files the oldest.
cleanupOldBackups(s, b) ==
  IF s.policy.timestampedNames
  THEN LET older(n) == {m \in DOMAIN b : m[1] < n[1] \/ (m[1] = n[1] /\ ~m[2] /\ n[2])}
       IN  Without(b, {n \in DOMAIN b : Cardinality(DOMAIN b) - Cardinality(older(n)) > MaxBackupFiles})
  ELSE Without(b, {n \in DOMAIN b : n[1] \in (MaxBackupFiles + 1)..(MaxBackupFiles + 10)})

\* Leaves the plain backup when it fails, and perhaps a damaged .gz.
compressBackup(b, name, fault) ==
  CASE <<name, FALSE>> \notin DOMAIN b -> b
    [] fault = "compress" -> b
    [] fault = "partial"  -> Put(b, <<name, TRUE>>, <<>>)
    [] OTHER -> Without(Put(b, <<name, TRUE>>, b[<<name, FALSE>>]), {<<name, FALSE>>})

\* A sink whose file could not be reopened earlier has nothing to rename.
performRotation(s, now, fault) ==
  LET name    == IF s.policy.timestampedNames THEN now ELSE 1
      shifted == IF s.policy.timestampedNames THEN s.backups ELSE rotateBackupFiles(s.backups)
      renamed == IF s.open THEN Put(shifted, <<name, FALSE>>, s.file) ELSE shifted
      packed  == IF s.policy.compressionEnabled THEN compressBackup(renamed, name, fault) ELSE renamed
      again   == s.policy.timestampedNames /\ \E n \in DOMAIN s.backups : n[1] = now
      faults  == s.faults \union ({fault} \ {"none"}) \union (IF again THEN {"sameSecond"} ELSE {})
  IN
  IF fault = "rename" /\ s.open
  THEN [s EXCEPT !.backups = shifted, !.currentSize = Len(s.file), !.faults = faults]
  ELSE [s EXCEPT !.backups = cleanupOldBackups(s, packed),
                 !.open = fault # "open", !.file = <<>>,
                 !.currentSize = IF fault = "open" THEN @ ELSE 0,
                 !.lastRotation = IF fault = "open" THEN @ ELSE now,
                 !.cuts = IF s.open THEN Append(@, Len(s.lines)) ELSE @,
                 !.faults = faults]

\* write: rotates first; a sink whose file is not open is never opened again.
SinkWrites(s, line, now, fault) ==
  IF ~s.open THEN s
  ELSE LET r == IF shouldRotate(s, now) THEN performRotation(s, now, fault) ELSE s
       IN  [r EXCEPT !.file = IF r.open THEN Append(@, line) ELSE @,
                     !.lines = Append(@, line), !.currentSize = @ + 1]

-----------------------------------------------------------------------------

\* The k-th rotation ended a file with line Cut(s, k); the lines between it and
\* the next.
Cut(s, k) == IF k = 0 THEN 0 ELSE s.cuts[k]
Between(s, k) ==
  SubSeq(s.lines, Cut(s, k) + 1, IF k < Len(s.cuts) THEN s.cuts[k + 1] ELSE Len(s.lines))

\* The backups newer than n.
Newer(s, n) ==
  {m \in DOMAIN s.backups : IF s.policy.timestampedNames THEN m[1] > n[1] ELSE m[1] < n[1]}

-----------------------------------------------------------------------------
CONSTANTS LogThreads,
          SinkPolicies,   \* the policies the file sink is made with
          MaxLines, MaxRotations, MaxFaults, MaxSinkCalls, LogHorizon   \* bounds
ASSUME LoggerAssumption ==
  /\ SinkPolicies \subseteq RotationPolicies
  /\ {MaxLines, MaxRotations, MaxFaults, MaxSinkCalls, LogHorizon} \subseteq Nat

VARIABLES
  logLevel,     \* level_
  logSinks,     \* sinks_; one sink may be there twice
  calling,      \* threads past the check of the level, without sinksMutex_
  entry,        \* by thread, the place of sinks_ it has come to; 0 without sinksMutex_
  fileSink,     \* the FileSink
  console,      \* lines on the console
  dispatched,   \* history: number of messages dispatched
  sinkCalls,    \* history: calls of addSink and removeSink
  logNow

logVars == <<logLevel, logSinks, calling, entry, fileSink, console, dispatched, sinkCalls, logNow>>

\* LogLevelConfig: 0 is debug, 1 info, 2 warning, 3 error; what the text of a
\* level means.
stringToLogLevel(s) ==
  CASE s = "debug" -> 0 [] s \in {"warning", "warn"} -> 2 [] s = "error" -> 3 [] OTHER -> 1

LogInit ==
  /\ logLevel = stringToLogLevel("info") /\ logSinks = <<"file", "console">>
  /\ calling = {} /\ entry = [t \in LogThreads |-> 0]
  /\ \E p \in SinkPolicies : fileSink = NewSink(p, 0)
  /\ console = <<>> /\ dispatched = 0 /\ sinkCalls = 0 /\ logNow = 0

setLevel(l) ==
  /\ logLevel' = l
  /\ UNCHANGED <<logSinks, calling, entry, fileSink, console, dispatched, sinkCalls, logNow>>

\* The check of the level, before the message is formatted.
logCall(t, l) ==
  /\ t \notin calling /\ entry[t] = 0 /\ dispatched < MaxLines
  /\ l >= logLevel
  /\ calling' = calling \union {t}
  /\ UNCHANGED <<logLevel, logSinks, entry, fileSink, console, dispatched, sinkCalls, logNow>>

logConnectionEvent(t) == logCall(t, stringToLogLevel("info"))
errorWithContext(t) == logCall(t, stringToLogLevel("error"))

SinksFree == \A t \in LogThreads : entry[t] = 0
NextEntry(i) == IF i < Len(logSinks) THEN i + 1 ELSE 0

dispatch(t) ==
  /\ t \in calling /\ SinksFree /\ dispatched < MaxLines
  /\ dispatched' = dispatched + 1
  /\ calling' = calling \ {t}
  /\ entry' = [entry EXCEPT ![t] = NextEntry(0)]
  /\ UNCHANGED <<logLevel, logSinks, fileSink, console, sinkCalls, logNow>>

\* The next entry of the list, the file with what may go wrong in its rotation;
\* the mutex is released after the last.
writeToSink(t, fault) ==
  /\ entry[t] # 0
  /\ \/ /\ logSinks[entry[t]] = "file"
        /\ fileSink' = SinkWrites(fileSink, dispatched, logNow, fault)
        /\ UNCHANGED console
     \/ /\ logSinks[entry[t]] = "console"
        /\ console' = Append(console, dispatched)
        /\ UNCHANGED fileSink
  /\ entry' = [entry EXCEPT ![t] = NextEntry(entry[t])]
  /\ UNCHANGED <<logLevel, logSinks, calling, dispatched, sinkCalls, logNow>>

addSink(k) ==
  /\ SinksFree /\ sinkCalls < MaxSinkCalls
  /\ logSinks' = Append(logSinks, k)
  /\ sinkCalls' = sinkCalls + 1
  /\ UNCHANGED <<logLevel, calling, entry, fileSink, console, dispatched, logNow>>

\* Removes every entry of the sink.
removeSink(k) ==
  /\ SinksFree /\ sinkCalls < MaxSinkCalls
  /\ logSinks' = Remove(logSinks, k)
  /\ sinkCalls' = sinkCalls + 1
  /\ UNCHANGED <<logLevel, calling, entry, fileSink, console, dispatched, logNow>>

\* Needs the file's mutex only: it may come between two sinks.
forceRotation(fault) ==
  /\ Len(fileSink.cuts) < MaxRotations
  /\ fileSink' = performRotation(fileSink, logNow, fault)
  /\ UNCHANGED <<logLevel, logSinks, calling, entry, console, dispatched, sinkCalls, logNow>>

logTick ==
  /\ logNow < LogHorizon
  /\ logNow' = logNow + 1
  /\ UNCHANGED <<logLevel, logSinks, calling, entry, fileSink, console, dispatched, sinkCalls>>

LogNext ==
  \/ \E l \in {"info", "error"} : setLevel(stringToLogLevel(l))
  \/ \E t \in LogThreads : logConnectionEvent(t) \/ errorWithContext(t) \/ logCall(t, stringToLogLevel("warn"))
                           \/ dispatch(t)
  \/ \E f \in RotationFaults :
       /\ Cardinality(fileSink.faults \union {f}) <= MaxFaults + 1
       /\ forceRotation(f) \/ \E t \in LogThreads : writeToSink(t, f)
  \/ \E k \in {"file", "console"} : addSink(k) \/ removeSink(k)
  \/ logTick

-----------------------------------------------------------------------------

(***************************************************************************)
(* No line is lost, doubled or reordered by rotation.  The file has the    *)
(* lines since the last rotation, and the backup with n newer ones those   *)
(* between the two rotations that far back, so the files, oldest first,    *)
(* are the lines written from some rotation on; without a fault from the   *)
(* oldest that the limit lets the sink keep (a failed rename has used up a *)
(* number).  Not promised after a failed compression (the next rotation    *)
(* replaces the backup it left), a file that could not be opened (nothing  *)
(* is written any more), or two rotations in one second.  The number of    *)
(* backups is bounded even then.  The file gets what the console gets,     *)
(* from all threads in the same order.                                     *)
(***************************************************************************)
LogLinesKept ==
  LET s == fileSink
      D == DOMAIN s.backups
      k == Len(s.cuts)
      age(n) == Cardinality(Newer(s, n)) IN
  /\ s.faults \subseteq {"rename"} =>
       /\ s.file = Between(s, k)
       /\ \A n \in D : age(n) < k /\ s.backups[n] = Between(s, k - 1 - age(n))
       /\ \A m, n \in D : m # n => m[1] # n[1]
       /\ s.faults = {} => Cardinality(D) = IF k < MaxBackupFiles THEN k ELSE MaxBackupFiles
  /\ Cardinality(D) <= 2 * MaxBackupFiles
  /\ sinkCalls = 0 /\ "open" \notin s.faults =>
       s.lines = IF \E t \in LogThreads : entry[t] = 2 THEN Append(console, dispatched) ELSE console
=============================================================================
