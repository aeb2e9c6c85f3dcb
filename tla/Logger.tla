------------------------------- MODULE Logger -------------------------------
(***************************************************************************)
(* The service's logger: callers push entries onto a queue, the writer     *)
(* thread takes them in batches and passes each to the log file and to the *)
(* ring buffer that get_logs reads, the rotator's thread closes, archives  *)
(* and reopens the file by schedule, and Shutdown ends the writer.         *)
(*                                                                         *)
(* An entry is its number in the order of pushing; 0 stands for an empty   *)
(* slot of the ring.  A message of the rotator goes to the ring only and   *)
(* has a negative number.                                                  *)
(***************************************************************************)
EXTENDS Integers, Sequences

CONSTANTS
    Caller,       \* threads that log
    MaxFileSize,  \* entries that fill the log file (10 MB)
    MaxFiles,     \* m_maxFiles (5)
    RingSize,     \* RING_BUFFER_SIZE (2000)
    MaxEntries,   \* bound: entries logged
    MaxRotations  \* bound: scheduled rotations

ASSUME LoggerAssumption ==
    /\ MaxFileSize \in Nat \ {0} /\ MaxFiles \in Nat \ {0, 1} /\ RingSize \in Nat \ {0}
    /\ MaxEntries \in Nat /\ MaxRotations \in Nat

Adder == {"writer", "rotator"}

VARIABLES
    running,    \* m_running
    queue,      \* m_asyncQueue.queue
    qlock,      \* m_asyncQueue.mutex is held by the writer
    logged,     \* entries pushed so far
    caller,     \* where each logging thread is
    writer,     \* the writer thread
    batch,      \* what it has taken and not yet passed on
    shutdown,   \* the caller of Shutdown
    file,       \* the entries in tcp_redirector.log
    handle,     \* m_file is not null
    flock,      \* m_fileMutex is held by the writer
    backups,    \* tcp_redirector.1.log ..
    ring,       \* m_ringBuffer
    ringIndex,  \* m_ringIndex
    slot,       \* index fetched by an AddToRingBuffer in progress (-1: none)
    rotator,    \* the rotator's thread
    rotations,  \* rotations it has begun
    written,    \* history: entries written to a file, in order
    dropped,    \* history: entries that found no file
    added,      \* history: entries and messages in the order of their slots
    lapped,     \* history: a slot was fetched again before it was stored
    leaked      \* history: m_file was overwritten while open

queueVars == <<running, queue, qlock, logged, caller>>
fileVars  == <<file, handle, flock, backups, written, dropped, leaked>>
ringVars  == <<ring, ringIndex, slot, added, lapped>>
vars == <<queueVars, writer, batch, shutdown, fileVars, ringVars, rotator, rotations>>

\* After Initialize; the file may not have opened.
Init ==
    /\ running = TRUE /\ queue = <<>> /\ qlock = FALSE /\ logged = 0
    /\ caller = [t \in Caller |-> "idle"]
    /\ writer = "loop" /\ batch = <<>> /\ shutdown = "no"
    /\ file = <<>> /\ handle \in BOOLEAN /\ flock = FALSE
    /\ backups = [i \in 1 .. MaxFiles - 1 |-> <<>>]
    /\ ring = [i \in 0 .. RingSize - 1 |-> 0] /\ ringIndex = 0
    /\ slot = [a \in Adder |-> -1]
    /\ rotator = "sleep" /\ rotations = 0
    /\ written = <<>> /\ dropped = {} /\ added = <<>>
    /\ lapped = FALSE /\ leaked = FALSE

-----------------------------------------------------------------------------
(* Log: push under the mutex, then notify_one                               *)

Log(t) ==
    /\ caller[t] = "idle" /\ ~qlock /\ logged < MaxEntries
    /\ logged' = logged + 1
    /\ queue' = Append(queue, logged + 1)
    /\ caller' = [caller EXCEPT ![t] = "notify"]
    /\ UNCHANGED <<running, qlock, writer, batch, shutdown, fileVars, ringVars,
                   rotator, rotations>>

Wake == writer' = IF writer = "wait" THEN "lock" ELSE writer

\* Fault: the caller notifies only if its entry is the queue's only one, tested
\* after the mutex is released.
NotifyFirst(t) ==
    /\ caller[t] = "notify"
    /\ IF Len(queue) = 1 THEN Wake ELSE UNCHANGED writer
    /\ caller' = [caller EXCEPT ![t] = "idle"]
    /\ UNCHANGED <<running, queue, qlock, logged, batch, shutdown, fileVars, ringVars,
                   rotator, rotations>>
Notify(t) ==
    /\ caller[t] = "notify"
    /\ Wake
    /\ caller' = [caller EXCEPT ![t] = "idle"]
    /\ UNCHANGED <<running, queue, qlock, logged, batch, shutdown, fileVars, ringVars,
                   rotator, rotations>>

-----------------------------------------------------------------------------
(* WriterThread                                                             *)

WriterLoop ==
    /\ writer = "loop"
    /\ writer' = IF running THEN "lock" ELSE "flush"
    /\ UNCHANGED <<queueVars, batch, shutdown, fileVars, ringVars, rotator, rotations>>

WriterLock ==
    /\ writer = "lock" /\ ~qlock
    /\ qlock' = TRUE
    /\ writer' = "test"
    /\ UNCHANGED <<running, queue, logged, caller, batch, shutdown, fileVars, ringVars,
                   rotator, rotations>>

\* The predicate of the wait holds: take everything, or leave the loop.
\* Fault: the front is read and not popped.
WriterTakesCopy ==
    /\ writer = "test" /\ (queue # <<>> \/ ~running)
    /\ batch' = queue
    /\ qlock' = FALSE
    /\ writer' = IF queue = <<>> THEN "flush" ELSE "write"
    /\ UNCHANGED <<running, queue, logged, caller, shutdown, fileVars, ringVars,
                   rotator, rotations>>
WriterTakes ==
    /\ writer = "test" /\ (queue # <<>> \/ ~running)
    /\ batch' = queue /\ queue' = <<>>
    /\ qlock' = FALSE
    /\ writer' = IF queue = <<>> THEN "flush" ELSE "write"
    /\ UNCHANGED <<running, logged, caller, shutdown, fileVars, ringVars,
                   rotator, rotations>>

\* It does not hold: from this on the thread will wait ...
WriterTests ==
    /\ writer = "test" /\ queue = <<>> /\ running
    /\ writer' = "block"
    /\ UNCHANGED <<queueVars, batch, shutdown, fileVars, ringVars, rotator, rotations>>

\* ... and does, releasing the mutex in the same step.
WriterWaits ==
    /\ writer = "block"
    /\ writer' = "wait" /\ qlock' = FALSE
    /\ UNCHANGED <<running, queue, logged, caller, batch, shutdown, fileVars, ringVars,
                   rotator, rotations>>

\* For each entry: the file, if there is one, under its mutex ...
WriterFile ==
    /\ writer = "write" /\ ~flock
    /\ IF handle THEN writer' = "writing" /\ flock' = TRUE /\ UNCHANGED dropped
       ELSE /\ writer' = "ring" /\ dropped' = dropped \cup {Head(batch)}
            /\ UNCHANGED flock
    /\ UNCHANGED <<queueVars, batch, shutdown, file, handle, backups, written, leaked,
                   ringVars, rotator, rotations>>

\* The log and its numbered copies, from the newest; <<>>: there is no such file.
LogFiles == [i \in 0 .. MaxFiles - 1 |-> IF i = 0 THEN file ELSE backups[i]]

\* RotateLogFile: the last file is removed, then each moves up by one number, the log
\* itself at the end.  Nobody asks whether that worked: a file that is not in `moved'
\* stays, and the one below it, if it moves, replaces it.
Moved(old, moved) ==
    [i \in 0 .. MaxFiles - 1 |->
        IF i - 1 \in moved /\ old[i - 1] # <<>> THEN old[i - 1]
        ELSE IF i \in moved THEN <<>> ELSE old[i]]

\* ... where a full file is rotated before the mutex is released; the new one
\* may not open.  A log that could not be moved is appended to and rotated again ...
WriterWrites ==
    LET log == [LogFiles EXCEPT ![0] = Append(file, Head(batch))] IN
    /\ writer = "writing"
    /\ writer' = "ring" /\ flock' = FALSE
    /\ written' = Append(written, Head(batch))
    /\ IF Len(log[0]) < MaxFileSize
       THEN file' = log[0] /\ UNCHANGED <<handle, backups>>
       ELSE \E moved \in SUBSET (0 .. MaxFiles - 1) :
            LET new == Moved(log, moved) IN
            /\ file' = new[0] /\ backups' = [i \in 1 .. MaxFiles - 1 |-> new[i]]
            /\ handle' \in BOOLEAN
    /\ UNCHANGED <<queueVars, batch, shutdown, dropped, leaked, ringVars, rotator,
                   rotations>>

\* ... and AddToRingBuffer: fetch_add, then the slot under m_ringMutex.
FetchSlot(a, entry) ==
    LET i == ringIndex % RingSize IN
    /\ slot' = [slot EXCEPT ![a] = i]
    /\ ringIndex' = ringIndex + 1
    /\ added' = Append(added, entry)
    /\ lapped' = (lapped \/ \E b \in Adder : slot[b] = i)
    /\ UNCHANGED ring

StoreSlot(a, entry) ==
    /\ ring' = [ring EXCEPT ![slot[a]] = entry]
    /\ slot' = [slot EXCEPT ![a] = -1]
    /\ UNCHANGED <<ringIndex, added, lapped>>

WriterFetches ==
    /\ writer = "ring"
    /\ FetchSlot("writer", Head(batch))
    /\ writer' = "store"
    /\ UNCHANGED <<queueVars, batch, shutdown, fileVars, rotator, rotations>>

WriterStores ==
    /\ writer = "store"
    /\ StoreSlot("writer", Head(batch))
    /\ batch' = Tail(batch)
    /\ writer' = IF Len(batch) = 1 THEN "loop" ELSE "write"
    /\ UNCHANGED <<queueVars, shutdown, fileVars, rotator, rotations>>

WriterEnds ==
    /\ writer = "flush" /\ ~flock
    /\ writer' = "ended"
    /\ UNCHANGED <<queueVars, batch, shutdown, fileVars, ringVars, rotator, rotations>>

-----------------------------------------------------------------------------
(* Shutdown                                                                 *)

ShutdownFlag ==
    /\ shutdown = "no"
    /\ shutdown' = "notify" /\ running' = FALSE
    /\ UNCHANGED <<queue, qlock, logged, caller, writer, batch, fileVars, ringVars,
                   rotator, rotations>>

\* notify_all under the mutex: not between the writer's test and its wait.
\* Fault: without the mutex.
ShutdownNotifyUnlocked ==
    /\ shutdown = "notify"
    /\ shutdown' = "join"
    /\ Wake
    /\ UNCHANGED <<queueVars, batch, fileVars, ringVars, rotator, rotations>>
ShutdownNotify ==
    /\ shutdown = "notify" /\ ~qlock
    /\ shutdown' = "join"
    /\ Wake
    /\ UNCHANGED <<queueVars, batch, fileVars, ringVars, rotator, rotations>>

ShutdownJoin ==
    /\ shutdown = "join" /\ writer = "ended"
    /\ shutdown' = "close"
    /\ UNCHANGED <<queueVars, writer, batch, fileVars, ringVars, rotator, rotations>>

ShutdownClose ==
    /\ shutdown = "close" /\ ~flock
    /\ shutdown' = "done" /\ handle' = FALSE
    /\ UNCHANGED <<queueVars, writer, batch, file, flock, backups, written, dropped,
                   leaked, ringVars, rotator, rotations>>

-----------------------------------------------------------------------------
(* LogRotator: RotateAndArchive when the schedule says so                   *)

\* Fault: the close callback does not take m_fileMutex.
RotateCloseUnlocked ==
    /\ rotator = "sleep" /\ rotations < MaxRotations
    /\ rotator' = "archive" /\ rotations' = rotations + 1
    /\ handle' = FALSE
    /\ UNCHANGED <<queueVars, writer, batch, shutdown, file, flock, backups, written,
                   dropped, leaked, ringVars>>
RotateClose ==
    /\ rotator = "sleep" /\ rotations < MaxRotations /\ ~flock
    /\ rotator' = "archive" /\ rotations' = rotations + 1
    /\ handle' = FALSE
    /\ UNCHANGED <<queueVars, writer, batch, shutdown, file, flock, backups, written,
                   dropped, leaked, ringVars>>

\* The file is renamed, compressed or moved; a rename that fails leaves it where it is.
\* DeleteOldArchives takes the numbered files for archives: old ones are deleted.
RotateArchive ==
    /\ rotator = "archive"
    /\ rotator' = "open"
    /\ file' \in {file, <<>>}
    /\ \E old \in SUBSET (1 .. MaxFiles - 1) :
          backups' = [i \in 1 .. MaxFiles - 1 |-> IF i \in old THEN <<>> ELSE backups[i]]
    /\ UNCHANGED <<queueVars, writer, batch, shutdown, handle, flock, written,
                   dropped, leaked, ringVars, rotations>>

\* OpenLogFile, without m_fileMutex.
RotateOpen ==
    /\ rotator = "open"
    /\ rotator' = "ring"
    /\ leaked' = (leaked \/ handle)
    /\ handle' \in BOOLEAN
    /\ UNCHANGED <<queueVars, writer, batch, shutdown, file, flock, backups, written,
                   dropped, ringVars, rotations>>

\* The messages of a rotation (one stands for all of them) go to the ring.
RotateFetches ==
    /\ rotator = "ring"
    /\ FetchSlot("rotator", -rotations)
    /\ rotator' = "store"
    /\ UNCHANGED <<queueVars, writer, batch, shutdown, fileVars, rotations>>

RotateStores ==
    /\ rotator = "store"
    /\ StoreSlot("rotator", -rotations)
    /\ rotator' = "sleep"
    /\ UNCHANGED <<queueVars, writer, batch, shutdown, fileVars, rotations>>

-----------------------------------------------------------------------------
(* GetRecentEntries                                                         *)

\* The slots read for the last max entries, in the order of reading.
\* Fault: the entries to skip are counted from slot 0.
RecentFromZero(max) ==
    LET total == IF ringIndex < RingSize THEN ringIndex ELSE RingSize
        n     == IF total > max THEN max ELSE total
    IN  [k \in 1 .. n |-> ring[(total - n + k - 1) % RingSize]]
GetRecentEntries(max) ==
    LET total == IF ringIndex < RingSize THEN ringIndex ELSE RingSize
        wrap  == IF ringIndex < RingSize THEN 0 ELSE ringIndex % RingSize
        n     == IF total > max THEN max ELSE total
    IN  [k \in 1 .. n |-> ring[(wrap + total - n + k - 1) % RingSize]]

-----------------------------------------------------------------------------
Writer ==
    \/ WriterLoop \/ WriterLock \/ WriterTakes \/ WriterTests \/ WriterWaits
    \/ WriterFile \/ WriterWrites \/ WriterFetches \/ WriterStores \/ WriterEnds

Shutdown == ShutdownNotify \/ ShutdownJoin \/ ShutdownClose

Rotator == RotateArchive \/ RotateOpen \/ RotateFetches \/ RotateStores

Next ==
    \/ \E t \in Caller : Log(t) \/ Notify(t)
    \/ Writer \/ ShutdownFlag \/ Shutdown \/ RotateClose \/ Rotator

Spec == Init /\ [][Next]_vars

\* Threads that are not blocked go on.  Nobody has to log, to shut down or to
\* rotate.
Fairness ==
    /\ \A t \in Caller : WF_vars(Notify(t))
    /\ WF_vars(Writer) /\ WF_vars(Shutdown) /\ WF_vars(Rotator)

FairSpec == Spec /\ Fairness

-----------------------------------------------------------------------------
(* Properties                                                               *)

\* Types: a slot is an index of the ring.
TypeOK ==
    /\ running \in BOOLEAN /\ qlock \in BOOLEAN /\ handle \in BOOLEAN
    /\ flock \in BOOLEAN /\ lapped \in BOOLEAN /\ leaked \in BOOLEAN
    /\ logged \in 0 .. MaxEntries /\ rotations \in 0 .. MaxRotations
    /\ queue \in Seq(1 .. MaxEntries) /\ batch \in Seq(1 .. MaxEntries)
    /\ caller \in [Caller -> {"idle", "notify"}]
    /\ writer \in {"loop", "lock", "test", "block", "wait", "write", "writing", "ring",
                   "store", "flush", "ended"}
    /\ shutdown \in {"no", "notify", "join", "close", "done"}
    /\ rotator \in {"sleep", "archive", "open", "ring", "store"}
    /\ file \in Seq(1 .. MaxEntries)
    /\ backups \in [1 .. MaxFiles - 1 -> Seq(1 .. MaxEntries)]
    /\ ringIndex \in Nat /\ ring \in [0 .. RingSize - 1 -> Int]
    /\ slot \in [Adder -> -1 .. RingSize - 1]

\* The entries that writing has still to deal with.
Left == IF writer \in {"ring", "store"} THEN Tail(batch) ELSE batch

\* Whatever callers, rotations and Shutdown interleave: files get the entries in
\* the order of pushing, none twice, and one that is neither written nor waiting
\* was taken while there was no file.
EntriesAccounted ==
    LET all == written \o Left \o queue IN
    /\ \A i, j \in 1 .. Len(all) : i < j => all[i] < all[j]
    /\ dropped \cup {all[i] : i \in 1 .. Len(all)} = 1 .. logged
    /\ \A i \in 1 .. Len(all) : all[i] \notin dropped

\* Whichever renames fail and whatever the rotator deletes, a file with a smaller number
\* has the newer entries, the log the newest: nothing is shuffled or copied twice.
FilesInOrder ==
    \A i, j \in 0 .. MaxFiles - 1 : i < j =>
        \A k \in 1 .. Len(LogFiles[i]), m \in 1 .. Len(LogFiles[j]) :
            LogFiles[i][k] > LogFiles[j][m]

\* "Maximum file size: 10 MB": the log never grows beyond its limit.
SizeKept == Len(file) < MaxFileSize

\* The writer never writes to a file that is closed, and no open file is lost,
\* though the rotator reopens it without the mutex.
FileUsedOpen == (writer = "writing" => handle) /\ ~leaked

\* While no entry is being added, get_logs returns the last entries in the order
\* of their slots, at every fill of the ring and for every count asked for.
RecentIsLast ==
    (~lapped /\ \A a \in Adder : slot[a] = -1) =>
        \A max \in 0 .. RingSize + 1 :
            LET n == Len(GetRecentEntries(max)) IN
            /\ n = IF Len(added) <= max /\ Len(added) <= RingSize THEN Len(added)
                   ELSE IF max <= RingSize THEN max ELSE RingSize
            /\ GetRecentEntries(max) = SubSeq(added, Len(added) - n + 1, Len(added))

\* Shutdown returns: its notification cannot fall between the writer's test of
\* m_running and its wait.
ShutdownReturns == shutdown = "notify" ~> shutdown = "done"

\* An entry does not stay in the queue of a running logger.
QueueDrains == queue # <<>> /\ running ~> queue = <<>> \/ ~running

\* "Flush the rest before shutdown": what was logged before Shutdown is written.
NothingLeftBehind == shutdown = "done" => queue = <<>>

\* Shutdown leaves the file closed.
ClosedAfterShutdown == shutdown = "done" => ~handle

\* get_logs never shows an empty entry.
RecentIsFilled ==
    \A max \in 0 .. RingSize : \A k \in 1 .. Len(GetRecentEntries(max)) :
        GetRecentEntries(max)[k] # 0
=============================================================================
