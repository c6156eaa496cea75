------------------------------ MODULE FileTail ------------------------------
(***************************************************************************)
(* The file collector (internal/collector/filetail.go, lines.go): one     *)
(* descriptor, one inotify watch and a partial line, following a path     *)
(* that a logger appends to and that logrotate renames, recreates or      *)
(* truncates between any two system calls of the collector.               *)
(*                                                                         *)
(* The logger writes lines in two writes.  Write 2k-1 is the head of line  *)
(* k and write 2k its tail with the newline, so a file is a sequence of    *)
(* numbers and a delivered line is a sequence that ends in an even one.    *)
(***************************************************************************)
EXTENDS Integers, Sequences, SequencesExt, FiniteSets

CONSTANTS
  FtMaxWrites,   \* bound: writes of the logger
  FtMaxFiles,    \* bound: inodes that were ever at the path
  FtMaxFaults,   \* bound: truncations, failed watches and renames of old files
  FtLineCap      \* maxStreamLineBytes, in writes

ASSUME FtConstants ==
  /\ {FtMaxWrites, FtMaxFiles, FtMaxFaults, FtLineCap} \subseteq Nat
  /\ FtMaxFiles >= 1 /\ FtLineCap >= 2

VARIABLES
  ftPath,    \* inode the path names, 0 for none
  ftData,    \* content of each inode
  ftLogger,  \* inode the logger holds open
  ftMade,    \* inodes created so far
  ftWrites,  \* writes so far
  ftFaults,
  ftPc,      \* where Run stands
  ftFd,      \* inode f is open on, 0 when closed
  ftOff,     \* read offset of f
  ftWd,      \* fileWd, 0 for none
  ftWatch,   \* inode the kernel watches under fileWd
  ftWds,     \* watch descriptors handed out so far (never reused)
  ftEvents,  \* pending inotify events <<wd, "mod" or "gone">>; wd 0 is the directory
  ftBatch,   \* the events read in this pass; "timeout" when poll timed out
  ftAsm,     \* the assembler's partial line
  ftOut,     \* delivered lines
  ftRaced    \* history: the last watch Run put after an open is on another inode

ftEnv  == <<ftPath, ftData, ftLogger, ftMade, ftWrites>>
ftVars == <<ftPath, ftData, ftLogger, ftMade, ftWrites, ftFaults, ftPc, ftFd,
            ftOff, ftWd, ftWatch, ftWds, ftEvents, ftBatch, ftAsm, ftOut, ftRaced>>

FtInodes == 1 .. FtMaxFiles
FtPcs == {"start", "startWatch", "poll", "restore", "compare", "rewind",
          "drain", "open", "watch", "reopen", "rewatch", "stopped"}

FtInit ==
  /\ ftPath = 1 /\ ftLogger = 1 /\ ftMade = 1
  /\ ftData = [i \in FtInodes |-> <<>>]
  /\ ftWrites = 0 /\ ftFaults = 0
  /\ ftPc = "start" /\ ftFd = 0 /\ ftOff = 0
  /\ ftWd = 0 /\ ftWatch = 0 /\ ftWds = 0
  /\ ftEvents = {} /\ ftBatch = {} /\ ftAsm = <<>> /\ ftOut = <<>>
  /\ ftRaced = FALSE

-----------------------------------------------------------------------------
(* The kernel, the logger and logrotate. *)

\* What inotify queues for a watched inode.
FtNotify(i, what) ==
  IF ftWd # 0 /\ ftWatch = i THEN ftEvents \cup {<<ftWd, what>>} ELSE ftEvents

\* The directory watch reports a new name; it only wakes the poll.
FtDirEvent == IF ftWds > 0 THEN ftEvents \cup {<<0, "mod">>} ELSE ftEvents

\* A truncated file is not regrown past the collector's offset before it looks:
\* the size comparison of rewindIfTruncated cannot see that one.
FtRegrowsSlowly(i) ==
  ~ (ftFd = i /\ Len(ftData[i]) < ftOff /\ Len(ftData[i]) + 1 >= ftOff)

FtWrite ==
  /\ ftWrites < FtMaxWrites
  /\ FtRegrowsSlowly(ftLogger)
  /\ ftWrites' = ftWrites + 1
  /\ ftData' = [ftData EXCEPT ![ftLogger] = Append(@, ftWrites')]
  /\ ftEvents' = FtNotify(ftLogger, "mod")
  /\ UNCHANGED <<ftPath, ftLogger, ftMade, ftFaults, ftPc, ftFd, ftOff, ftWd, ftWatch,
                 ftWds, ftBatch, ftAsm, ftOut, ftRaced>>

\* logrotate renames the file away ...
FtRename ==
  /\ ftPath # 0
  /\ ftMade < FtMaxFiles
  /\ ftPath' = 0
  /\ ftEvents' = FtNotify(ftPath, "gone")
  /\ UNCHANGED <<ftData, ftLogger, ftMade, ftWrites, ftFaults, ftPc, ftFd, ftOff, ftWd,
                 ftWatch, ftWds, ftBatch, ftAsm, ftOut, ftRaced>>

\* ... and creates an empty one in its place.
FtCreate ==
  /\ ftPath = 0
  /\ ftMade' = ftMade + 1 /\ ftPath' = ftMade'
  /\ ftEvents' = FtDirEvent
  /\ UNCHANGED <<ftData, ftLogger, ftWrites, ftFaults, ftPc, ftFd, ftOff, ftWd,
                 ftWatch, ftWds, ftBatch, ftAsm, ftOut, ftRaced>>

\* The logger reopens its log, between two lines.
FtLoggerReopens ==
  /\ ftPath # 0 /\ ftLogger # ftPath
  /\ ftWrites % 2 = 0
  /\ ftLogger' = ftPath
  /\ UNCHANGED <<ftPath, ftData, ftMade, ftWrites, ftFaults, ftPc, ftFd, ftOff, ftWd,
                 ftWatch, ftWds, ftEvents, ftBatch, ftAsm, ftOut, ftRaced>>

FtCopyTruncate ==
  /\ ftFaults < FtMaxFaults
  /\ ftPath # 0 /\ ftData[ftPath] # <<>>
  /\ ftFaults' = ftFaults + 1
  /\ ftData' = [ftData EXCEPT ![ftPath] = <<>>]
  /\ ftEvents' = FtNotify(ftPath, "mod")
  /\ UNCHANGED <<ftPath, ftLogger, ftMade, ftWrites, ftPc, ftFd, ftOff, ftWd, ftWatch,
                 ftWds, ftBatch, ftAsm, ftOut, ftRaced>>

\* A rotated file is renamed again or deleted (compress, max-file pruning).
FtOldMoved ==
  /\ ftFaults < FtMaxFaults
  /\ ftWd # 0 /\ ftWatch # ftPath
  /\ ftFaults' = ftFaults + 1
  /\ ftEvents' = FtNotify(ftWatch, "gone")
  /\ UNCHANGED <<ftEnv, ftPc, ftFd, ftOff, ftWd, ftWatch, ftWds, ftBatch,
                 ftAsm, ftOut, ftRaced>>

-----------------------------------------------------------------------------
(* The collector. *)

\* addWatch: a new descriptor on the inode the path names now.
FtAddWatch ==
  /\ ftPath # 0
  /\ ftWds' = ftWds + 1 /\ ftWd' = ftWds' /\ ftWatch' = ftPath
  /\ UNCHANGED ftFaults

\* It fails when the path is gone, or at a kernel limit.
FtAddWatchFails ==
  /\ \/ ftPath = 0 /\ UNCHANGED ftFaults
     \/ ftFaults < FtMaxFaults /\ ftFaults' = ftFaults + 1
  /\ ftWd' = 0 /\ ftWatch' = 0
  /\ UNCHANGED ftWds

\* Run opens the path and seeks to its end ...
FtStart ==
  /\ ftPc = "start"
  /\ ftPath # 0
  /\ ftFd' = ftPath /\ ftOff' = Len(ftData[ftPath])
  /\ ftPc' = "startWatch"
  /\ UNCHANGED <<ftEnv, ftFaults, ftWd, ftWatch, ftWds, ftEvents, ftBatch,
                 ftAsm, ftOut, ftRaced>>

\* Run returned an error: descriptors are closed, the partial line is lost and
\* the supervisor calls Run again.
FtFails ==
  /\ ftPc' = "start" /\ ftFd' = 0 /\ ftOff' = 0
  /\ ftWd' = 0 /\ ftWatch' = 0 /\ ftEvents' = {} /\ ftBatch' = {} /\ ftAsm' = <<>>
  /\ ftRaced' = FALSE
  /\ UNCHANGED <<ftEnv, ftWds, ftOut>>

\* ... then watches it; a failure here is fatal.
FtStartWatch ==
  /\ ftPc = "startWatch"
  /\ \/ /\ FtAddWatch
        /\ ftPc' = "poll"
        /\ UNCHANGED <<ftEnv, ftFd, ftOff, ftEvents, ftBatch, ftAsm, ftOut>>
        /\ ftRaced' = (ftWatch' # ftFd)
     \/ FtAddWatchFails /\ FtFails

\* poll reports events: all are read.
FtPollEvents ==
  /\ ftPc = "poll"
  /\ ftEvents # {}
  /\ ftBatch' = ftEvents /\ ftEvents' = {}
  /\ ftPc' = IF ftWd = 0 THEN "restore" ELSE "rewind"
  /\ UNCHANGED <<ftEnv, ftFaults, ftFd, ftOff, ftWd, ftWatch, ftWds, ftAsm, ftOut, ftRaced>>

\* poll times out: the stat-based pass.
FtPollTimeout ==
  /\ ftPc = "poll"
  /\ ftEvents = {}
  /\ ftBatch' = {}
  /\ ftPc' = IF ftWd = 0 THEN "restore" ELSE "rewind"
  /\ UNCHANGED <<ftEnv, ftFaults, ftFd, ftOff, ftWd, ftWatch, ftWds, ftEvents,
                 ftAsm, ftOut, ftRaced>>

\* restoreWatch retries the watch first ...
FtRestore ==
  /\ ftPc = "restore"
  /\ FtAddWatch \/ FtAddWatchFails
  /\ ftPc' = "compare"
  /\ UNCHANGED <<ftEnv, ftFd, ftOff, ftEvents, ftBatch, ftAsm, ftOut, ftRaced>>

\* lineAssembler.feed: writes are added up to the cap; a newline emits the line.
FtFeed(acc, w) ==
  LET line == IF Len(acc.asm) < FtLineCap THEN Append(acc.asm, w) ELSE acc.asm
  IN  IF w % 2 = 0 THEN [asm |-> <<>>, out |-> Append(acc.out, line)]
                   ELSE [acc EXCEPT !.asm = line]

\* drainLines: from the offset to the end of the file.
FtDrained ==
  LET read[n \in 0 .. Len(ftData[ftFd])] ==
        IF n <= ftOff THEN [asm |-> ftAsm, out |-> ftOut] ELSE FtFeed(read[n - 1], ftData[ftFd][n])
  IN  read[Len(ftData[ftFd])]

FtDrainFd ==
  /\ ftAsm' = FtDrained.asm /\ ftOut' = FtDrained.out
  /\ ftOff' = IF Len(ftData[ftFd]) > ftOff THEN Len(ftData[ftFd]) ELSE ftOff

\* ... and then compares inodes; a path that is gone is not a rotation yet.
FtPathRotatedNever == FALSE
FtPathRotated == ftPath \notin {0, ftFd}

FtCompare ==
  /\ ftPc = "compare"
  /\ IF FtPathRotated
     THEN FtDrainFd /\ ftPc' = "reopen"
     ELSE ftPc' = "rewind" /\ UNCHANGED <<ftOff, ftAsm, ftOut>>
  /\ UNCHANGED <<ftEnv, ftFaults, ftFd, ftWd, ftWatch, ftWds, ftEvents, ftBatch, ftRaced>>

\* rewindIfTruncated
FtRewound == Len(ftData[ftFd]) < ftOff

FtRewind ==
  /\ ftPc = "rewind"
  /\ ftPc' = "drain"
  /\ IF FtRewound THEN ftOff' = 0 /\ ftAsm' = <<>>
                  ELSE UNCHANGED <<ftOff, ftAsm>>
  /\ UNCHANGED <<ftEnv, ftFaults, ftFd, ftWd, ftWatch, ftWds, ftEvents, ftBatch, ftOut, ftRaced>>

\* Which of the events read is a rotation: one of the current watch only.
FtIsRotationAny(e) == e[2] = "gone"
FtIsRotation(e) == e[1] = ftWd /\ e[2] = "gone"

\* The pass drains what is there, then follows a rotation if it read one.
FtDrain ==
  /\ ftPc = "drain"
  /\ FtDrainFd
  /\ ftPc' = IF \E e \in ftBatch : FtIsRotation(e) THEN "open" ELSE "poll"
  /\ UNCHANGED <<ftEnv, ftFaults, ftFd, ftWd, ftWatch, ftWds, ftEvents, ftBatch, ftRaced>>

\* followRotation: close f, drop the watch, open what the path names now.
FtOpened ==
  /\ ftPath # 0
  /\ ftFd' = ftPath /\ ftOff' = 0 /\ ftAsm' = <<>>
  /\ ftWd' = 0 /\ ftWatch' = 0
  /\ UNCHANGED <<ftEnv, ftFaults, ftWds, ftEvents, ftBatch, ftOut>>
  /\ ftRaced' = FALSE

FtOpen ==
  /\ \/ ftPc = "open" /\ ftPc' = "watch"
     \/ ftPc = "reopen" /\ ftPc' = "rewatch"
  /\ FtOpened

\* reopenWithRetry gives up when the file did not reappear.
FtOpenGivesUp ==
  /\ ftPc \in {"open", "reopen"}
  /\ ftPath = 0
  /\ UNCHANGED ftFaults
  /\ FtFails

\* The new inode is watched by a second call on the path; a failure leaves no
\* watch, and the next pass restores it.
FtWatch ==
  /\ \/ ftPc = "watch" /\ ftPc' = "poll"
     \/ ftPc = "rewatch" /\ ftPc' = "rewind"
  /\ FtAddWatch \/ FtAddWatchFails
  /\ UNCHANGED <<ftEnv, ftFd, ftOff, ftEvents, ftBatch, ftAsm, ftOut>>
  /\ ftRaced' = (ftWd' # 0 /\ ftWatch' # ftFd)

\* The context is cancelled.
FtStop ==
  /\ ftPc = "poll"
  /\ ftWrites = FtMaxWrites
  /\ ftPc' = "stopped"
  /\ UNCHANGED <<ftEnv, ftFaults, ftFd, ftOff, ftWd, ftWatch, ftWds, ftEvents,
                 ftBatch, ftAsm, ftOut, ftRaced>>

FtCollector ==
  \/ FtStart \/ FtStartWatch \/ FtPollEvents \/ FtPollTimeout \/ FtRestore
  \/ FtCompare \/ FtRewind \/ FtDrain \/ FtOpen \/ FtOpenGivesUp \/ FtWatch

FtNext ==
  \/ FtCollector \/ FtStop
  \/ FtWrite \/ FtRename \/ FtCreate \/ FtLoggerReopens \/ FtCopyTruncate \/ FtOldMoved

FtFairness == WF_ftVars(FtCollector)
FtSpec == FtInit /\ [][FtNext]_ftVars /\ FtFairness

-----------------------------------------------------------------------------
\* Types of the variables.
FtTypeOK ==
  /\ ftPath \in FtInodes \cup {0} /\ ftFd \in FtInodes \cup {0}
  /\ ftWatch \in FtInodes \cup {0} /\ {ftLogger, ftMade} \subseteq FtInodes
  /\ \A i \in FtInodes : ftData[i] \in Seq(1 .. FtMaxWrites)
  /\ ftWrites \in 0 .. FtMaxWrites /\ ftFaults \in 0 .. FtMaxFaults
  /\ ftPc \in FtPcs /\ ftOff \in Nat /\ ftWd \in 0 .. ftWds
  /\ ftWd = 0 <=> ftWatch = 0
  /\ ftAsm \in Seq(1 .. FtMaxWrites) /\ \A l \in Range(ftOut) : Len(l) <= FtLineCap

\* No line is delivered twice, whatever renames, truncations and restarts
\* happen between the collector's calls: a replayed line convicts twice.
FtOnce ==
  \A i, j \in DOMAIN ftOut : i # j => Last(ftOut[i]) # Last(ftOut[j])

\* A delivered line holds the writes of one line only: a fragment of the old
\* file is never glued to the first line of the new one.
FtNoGlue ==
  \A l \in Range(ftOut) : Len(l) = 1 \/ l = <<Last(l) - 1, Last(l)>>

\* The collector reads all of the file that is at the path.
FtCaughtUp == ftPath # 0 => ftFd = ftPath /\ ftOff = Len(ftData[ftPath])

\* Once the rotations stop, the collector ends up reading the file at the path
\* to its end, whichever calls they fell between and whichever watches failed:
\* unless it stopped, or a rename and a create both fell between its open and
\* its watch of the same path.
FtCatchesUp == <>[]FtCaughtUp \/ <>[]ftRaced \/ <>[](ftPc = "stopped")

\* The tailer through every rotation, truncation, failed call and restart: the
\* variables keep their types, no line is delivered twice, and no delivered
\* line mixes two files (openAndSeek, isRotation, readLines).
FtInv == FtTypeOK /\ FtOnce /\ FtNoGlue
=============================================================================
