------------------------------- MODULE LogLib -------------------------------
(***************************************************************************)
(* The log (src/LogLib): threads queue messages, one thread writes them to  *)
(* a file and rotates the files when that one is full.  The program may be  *)
(* killed between any two steps, and is then started again.                 *)
(*                                                                          *)
(* Messages are numbered in the order of the queue; a file is the sequence  *)
(* of the messages in it, and its size is their number.  The three writes   *)
(* of a message are one step.                                               *)
(***************************************************************************)
EXTENDS Integers, SequencesExt

CONSTANTS
    LastLogFile,   \* 5: the files are MercuryLog.0.txt to MercuryLog.5.txt
    MaxLogSize,    \* MAX_LOG_FILE_SIZE
    MaxLogMsgs,    \* the messages that are logged
    MaxLogRestarts

ASSUME LogAssumption == LastLogFile \in Nat \ {0} /\ MaxLogSize \in Nat

VARIABLES
    LogMsgQueue,
    hLogMsgEvent,  \* the semaphore
    logThread,     \* "init", "waiting", "draining", "checking", or "rotating"
    shift,         \* RotateLogFiles: the file to be renamed next
    logFiles,      \* per file number its messages; a file may not exist
    LogLibInitialized,
    logNr,         \* how many messages were logged
    written,       \* history: the messages written
    restarts

logVars == <<LogMsgQueue, hLogMsgEvent, logThread, shift, logFiles, LogLibInitialized,
             logNr, written, restarts>>

Without(files, n) == [k \in DOMAIN files \ {n} |-> files[k]]
Moved(files, n) ==
    IF n \notin DOMAIN files THEN files
    ELSE [k \in (DOMAIN files \ {n}) \cup {n + 1} |-> IF k = n + 1 THEN files[n] ELSE files[k]]

\* InitLog rotates the files before anything else.
LogInit ==
    /\ LogMsgQueue = <<>> /\ hLogMsgEvent = 0 /\ LogLibInitialized = FALSE
    /\ logThread = "init" /\ shift = LastLogFile
    /\ logFiles = <<>> /\ logNr = 0 /\ written = <<>> /\ restarts = 0

\* RotateLogFiles unlinks the last file, then renames from the last to the
\* first, and creates a new first file.
FirstKept(files) ==  \* Fault: the first file is not renamed.
    IF shift = LastLogFile THEN Without(files, LastLogFile)
    ELSE IF shift = 0 THEN files ELSE Moved(files, shift)
Shifted(files) ==
    IF shift = LastLogFile THEN Without(files, LastLogFile) ELSE Moved(files, shift)

RotateStep ==
    /\ logThread \in {"init", "rotating"} /\ shift >= 0
    /\ logFiles' = Shifted(logFiles)
    /\ shift' = shift - 1
    /\ UNCHANGED <<LogMsgQueue, hLogMsgEvent, logThread, LogLibInitialized, logNr, written, restarts>>

\* creat; after InitLog's rotation the thread is started and logging allowed.
RotateEnds ==
    /\ logThread \in {"init", "rotating"} /\ shift = -1
    /\ logFiles' = [k \in DOMAIN logFiles \cup {0} |-> IF k = 0 THEN <<>> ELSE logFiles[k]]
    /\ shift' = LastLogFile
    /\ logThread' = "waiting" /\ LogLibInitialized' = TRUE
    /\ UNCHANGED <<LogMsgQueue, hLogMsgEvent, logNr, written, restarts>>

\* LogMessage and LogMessageBuffer, whose QueueLogMsg waits while files are
\* renamed; before InitLog they abort the program.
LogMessage ==
    /\ LogLibInitialized /\ logThread # "rotating" /\ logNr < MaxLogMsgs
    /\ logNr' = logNr + 1
    /\ LogMsgQueue' = <<logNr'>> \o LogMsgQueue
    /\ hLogMsgEvent' = hLogMsgEvent + 1
    /\ UNCHANGED <<logThread, shift, logFiles, LogLibInitialized, written, restarts>>

LogThreadWakes ==
    /\ logThread = "waiting" /\ hLogMsgEvent > 0
    /\ hLogMsgEvent' = hLogMsgEvent - 1 /\ logThread' = "draining"
    /\ UNCHANGED <<LogMsgQueue, shift, logFiles, LogLibInitialized, logNr, written, restarts>>

\* DequeueLogMsg from the back, and WriteLogMsgToFile.
WriteLogMsg ==
    /\ logThread = "draining" /\ LogMsgQueue # <<>>
    /\ LogMsgQueue' = Front(LogMsgQueue)
    /\ logFiles' = [logFiles EXCEPT ![0] = Append(@, Last(LogMsgQueue))]
    /\ written' = Append(written, Last(LogMsgQueue))
    /\ UNCHANGED <<hLogMsgEvent, logThread, shift, LogLibInitialized, logNr, restarts>>

LogDrained ==
    /\ logThread = "draining" /\ LogMsgQueue = <<>>
    /\ logThread' = "checking"
    /\ UNCHANGED <<LogMsgQueue, hLogMsgEvent, shift, logFiles, LogLibInitialized, logNr,
                   written, restarts>>

CheckLogRotation ==
    /\ logThread = "checking"
    /\ logThread' = IF Len(logFiles[0]) > MaxLogSize THEN "rotating" ELSE "waiting"
    /\ UNCHANGED <<LogMsgQueue, hLogMsgEvent, shift, logFiles, LogLibInitialized, logNr,
                   written, restarts>>

\* The program is killed, or a write fails and it aborts; it is started again.
RestartLog ==
    /\ restarts < MaxLogRestarts
    /\ restarts' = restarts + 1
    /\ LogMsgQueue' = <<>> /\ hLogMsgEvent' = 0 /\ LogLibInitialized' = FALSE
    /\ logThread' = "init" /\ shift' = LastLogFile
    /\ UNCHANGED <<logFiles, logNr, written>>

LogNext == RotateStep \/ RotateEnds \/ LogMessage \/ LogThreadWakes \/ WriteLogMsg
           \/ LogDrained \/ CheckLogRotation \/ RestartLog

\* The text of the log: the files from the last to the first.
InFile(files, n) == IF n \in DOMAIN files THEN files[n] ELSE <<>>
Text(files) ==
    LET text[n \in 0 .. LastLogFile] ==
            IF n = 0 THEN InFile(files, 0) ELSE InFile(files, n) \o text[n - 1]
    IN  text[LastLogFile]
LogText == Text(logFiles)

\* LogMessage, LogThread: the thread does not wait in vain for what is queued.
LogNoticed == logThread # "draining" /\ LogMsgQueue # <<>> => hLogMsgEvent > 0

\* RotateLogFiles, WriteLogMsgToFile: whenever the program is killed, the
\* files hold the newest of what was written, in order and without a gap, the
\* messages being in queue order; no step loses any but the last file's; and
\* the thread that writes them is told of those that wait.
LogKeepsNewest ==
    /\ [](/\ IsSuffix(LogText, written)
          /\ \A i, j \in DOMAIN written : i < j => written[i] < written[j]
          /\ LogNoticed)
    /\ [][\/ IsPrefix(LogText, LogText')
          \/ LastLogFile \in DOMAIN logFiles /\ LogText = logFiles[LastLogFile] \o LogText']_logVars
=============================================================================
