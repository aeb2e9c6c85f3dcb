---------------------------- MODULE LoggerProofs ----------------------------
(***************************************************************************)
(* Proofs about Logger, for any number of callers and any limits: the log  *)
(* file's handle is used and replaced safely although the rotator opens it *)
(* without m_fileMutex, the numbered files are the newest, no entry is     *)
(* lost or written out of order, and get_logs returns the last entries.    *)
(***************************************************************************)
EXTENDS Logger, SequenceTheorems, TLAPS

\* The writer is in its file section exactly while it holds m_fileMutex, and
\* then the file is open.
SectionLocked == flock = (writer = "writing") /\ (writer = "writing" => handle)

\* From the rotator's close to its open there is no file: RotateLogFile, the
\* only other one to open it, needs an open one.
ClosedForArchive == rotator \in {"archive", "open"} => ~handle

FInv ==
    /\ flock \in BOOLEAN /\ handle \in BOOLEAN /\ leaked = FALSE
    /\ SectionLocked /\ ClosedForArchive

\* The steps that leave the file, its mutex, the section and the rotator alone.
LEMMA FileUntouched ==
    ASSUME FInv,
           UNCHANGED <<flock, handle, leaked, rotator>>,
           writer' = writer \/ (writer # "writing" /\ writer' # "writing")
    PROVE  FInv'
BY DEF FInv, SectionLocked, ClosedForArchive

\* The invariant is inductive.
THEOREM LoggerFileInductive == Spec => []FInv
<1>1. Init => FInv BY DEF Init, FInv, SectionLocked, ClosedForArchive
<1>2. ASSUME FInv, [Next]_vars PROVE FInv'
  <2>1. ASSUME NEW t \in Caller, Log(t) \/ Notify(t) PROVE FInv'
    <3>1. UNCHANGED <<flock, handle, leaked, rotator>>
      BY <2>1 DEF Log, Notify, fileVars
    <3>2. writer' = writer \/ (writer # "writing" /\ writer' # "writing")
      BY <2>1 DEF Log, Notify, Wake
    <3> QED BY <1>2, <3>1, <3>2, FileUntouched
  <2>2. CASE WriterLoop \/ WriterLock \/ WriterTakes \/ WriterTests \/ WriterWaits
    <3>1. UNCHANGED <<flock, handle, leaked, rotator>>
      BY <2>2 DEF WriterLoop, WriterLock, WriterTakes, WriterTests, WriterWaits, fileVars
    <3>2. writer # "writing" /\ writer' # "writing"
      BY <2>2 DEF WriterLoop, WriterLock, WriterTakes, WriterTests, WriterWaits
    <3> QED BY <1>2, <3>1, <3>2, FileUntouched
  <2>3. CASE WriterFile
    BY <1>2, <2>3 DEF FInv, SectionLocked, ClosedForArchive, WriterFile
  <2>4. CASE WriterWrites
    BY <1>2, <2>4 DEF FInv, SectionLocked, ClosedForArchive, WriterWrites
  <2>5. CASE WriterFetches \/ WriterStores \/ WriterEnds
    <3>1. UNCHANGED <<flock, handle, leaked, rotator>>
      BY <2>5 DEF WriterFetches, WriterStores, WriterEnds, fileVars
    <3>2. writer # "writing" /\ writer' # "writing"
      BY <2>5 DEF WriterFetches, WriterStores, WriterEnds
    <3> QED BY <1>2, <3>1, <3>2, FileUntouched
  <2>6. CASE ShutdownFlag \/ ShutdownNotify \/ ShutdownJoin
    <3>1. UNCHANGED <<flock, handle, leaked, rotator>>
      BY <2>6 DEF ShutdownFlag, ShutdownNotify, ShutdownJoin, fileVars
    <3>2. writer' = writer \/ (writer # "writing" /\ writer' # "writing")
      BY <2>6 DEF ShutdownFlag, ShutdownNotify, ShutdownJoin, Wake
    <3> QED BY <1>2, <3>1, <3>2, FileUntouched
  <2>7. CASE ShutdownClose
    BY <1>2, <2>7 DEF FInv, SectionLocked, ClosedForArchive, ShutdownClose
  <2>8. CASE RotateClose
    BY <1>2, <2>8 DEF FInv, SectionLocked, ClosedForArchive, RotateClose
  <2>9. CASE RotateArchive
    BY <1>2, <2>9 DEF FInv, SectionLocked, ClosedForArchive, RotateArchive
  <2>10. CASE RotateOpen
    BY <1>2, <2>10 DEF FInv, SectionLocked, ClosedForArchive, RotateOpen
  <2>11. CASE RotateFetches \/ RotateStores
    BY <1>2, <2>11 DEF FInv, SectionLocked, ClosedForArchive, RotateFetches,
          RotateStores, fileVars
  <2>12. CASE UNCHANGED vars
    BY <1>2, <2>12 DEF FInv, SectionLocked, ClosedForArchive, vars, fileVars
  <2> QED
    BY <1>2, <2>1, <2>2, <2>3, <2>4, <2>5, <2>6, <2>7, <2>8, <2>9, <2>10, <2>11, <2>12
    DEF Next, Writer, Shutdown, Rotator
<1> QED BY <1>1, <1>2, PTL DEF Spec

\* The writer never writes to a closed file and no open file is overwritten, for
\* any interleaving of callers, rotations by size, rotations by schedule and
\* Shutdown.
THEOREM LogFileUsedOpen == Spec => []FileUsedOpen
<1>1. FInv => FileUsedOpen BY DEF FInv, SectionLocked, FileUsedOpen
<1> QED BY <1>1, LoggerFileInductive, PTL

-----------------------------------------------------------------------------
(* Types                                                                    *)

Entries == Seq(1 .. MaxEntries)

\* The writer has an entry in hand from the file to the ring.
HasEntry == writer \in {"write", "writing", "ring", "store"} => batch # <<>>

TInv == TypeOK /\ HasEntry

\* Only the last entry leaves an empty batch behind.
LEMMA TailNotEmpty ==
    ASSUME NEW S, NEW s \in Seq(S), s # <<>>, Len(s) # 1
    PROVE  Tail(s) # <<>>
<1>1. Len(s) \in Nat /\ Len(s) # 0 BY EmptySeq
<1>2. Len(Tail(s)) = Len(s) - 1 BY HeadTailProperties
<1>3. Len(Tail(s)) # 0 BY <1>1, <1>2
<1> QED BY <1>3, EmptySeq

\* The slot fetched from the index exists.
LEMMA SlotInRing ==
    ASSUME TypeOK PROVE ringIndex % RingSize \in 0 .. RingSize - 1
BY LoggerAssumption DEF TypeOK

\* What the step of an adder leaves in the ring.
LEMMA RingTyped ==
    ASSUME TypeOK, NEW a \in Adder, NEW entry \in Int,
           FetchSlot(a, entry) \/ StoreSlot(a, entry)
    PROVE  /\ ringIndex' \in Nat /\ lapped' \in BOOLEAN
           /\ ring' \in [0 .. RingSize - 1 -> Int]
           /\ slot' \in [Adder -> -1 .. RingSize - 1]
<1> USE LoggerAssumption
<1>1. CASE FetchSlot(a, entry)
  <2>1. ringIndex' \in Nat /\ ring' = ring BY <1>1 DEF FetchSlot, TypeOK
  <2>2. slot' \in [Adder -> -1 .. RingSize - 1]
    BY <1>1, SlotInRing DEF FetchSlot, TypeOK
  <2>3. lapped' \in BOOLEAN BY <1>1 DEF FetchSlot, TypeOK
  <2> QED BY <2>1, <2>2, <2>3 DEF TypeOK
<1>2. CASE StoreSlot(a, entry)
  <2>1. ringIndex' \in Nat /\ lapped' \in BOOLEAN BY <1>2 DEF StoreSlot, TypeOK
  <2>2. ring' \in [0 .. RingSize - 1 -> Int] BY <1>2 DEF StoreSlot, TypeOK
  <2>3. -1 \in -1 .. RingSize - 1 OBVIOUS
  <2>4. slot' \in [Adder -> -1 .. RingSize - 1] BY <1>2, <2>3 DEF StoreSlot, TypeOK
  <2> QED BY <2>1, <2>2, <2>4
<1> QED BY <1>1, <1>2

\* One lemma for the steps on the queue ...
LEMMA QueueTyped ==
    ASSUME TInv,
           \/ \E t \in Caller : Log(t) \/ Notify(t)
           \/ WriterLoop \/ WriterLock \/ WriterTakes \/ WriterTests \/ WriterWaits
    PROVE  TInv'
<1> USE LoggerAssumption DEF TInv, TypeOK, HasEntry, Entries, fileVars, ringVars, queueVars
<1>1. ASSUME NEW t \in Caller, Log(t) PROVE TInv'
  <2>1. logged + 1 \in 1 .. MaxEntries /\ logged' \in 0 .. MaxEntries BY <1>1 DEF Log
  <2>2. queue' \in Entries BY <1>1, <2>1 DEF Log
  <2> QED BY <1>1, <2>1, <2>2 DEF Log
<1>2. ASSUME NEW t \in Caller, Notify(t) PROVE TInv' BY <1>2 DEF Notify, Wake
<1>3. CASE WriterLoop BY <1>3 DEF WriterLoop
<1>4. CASE WriterLock BY <1>4 DEF WriterLock
<1>5. CASE WriterTakes
  <2>1. queue' \in Entries /\ batch' \in Entries BY <1>5 DEF WriterTakes
  <2>2. writer' \in {"flush", "write"} /\ HasEntry' BY <1>5 DEF WriterTakes
  <2> QED BY <1>5, <2>1, <2>2 DEF WriterTakes
<1>6. CASE WriterTests BY <1>6 DEF WriterTests
<1>7. CASE WriterWaits BY <1>7 DEF WriterWaits
<1> QED BY <1>1, <1>2, <1>3, <1>4, <1>5, <1>6, <1>7

Logs == [0 .. MaxFiles - 1 -> Entries]

\* The log with one more entry, and what is left of the files after a rotation.
LEMMA FilesTyped ==
    ASSUME TypeOK
    PROVE  /\ LogFiles \in Logs /\ LogFiles[0] = file
           /\ \A i \in 1 .. MaxFiles - 1 : LogFiles[i] = backups[i]
           /\ \A s \in Entries : [LogFiles EXCEPT ![0] = s] \in Logs
           /\ \A old \in Logs, moved \in SUBSET (0 .. MaxFiles - 1) : Moved(old, moved) \in Logs
<1> USE LoggerAssumption
<1>1. file \in Entries /\ backups \in [1 .. MaxFiles - 1 -> Entries] BY DEF TypeOK, Entries
<1>2. 0 \in 0 .. MaxFiles - 1 /\ \A i \in 0 .. MaxFiles - 1 : i # 0 => i \in 1 .. MaxFiles - 1
  OBVIOUS
<1>3. \A i \in 1 .. MaxFiles - 1 : i \in 0 .. MaxFiles - 1 /\ i # 0 OBVIOUS
<1>4. LogFiles \in Logs BY <1>1, <1>2 DEF LogFiles, Logs
<1>5. LogFiles[0] = file /\ \A i \in 1 .. MaxFiles - 1 : LogFiles[i] = backups[i]
  BY <1>2, <1>3 DEF LogFiles
<1>6. ASSUME NEW old \in Logs, NEW moved \in SUBSET (0 .. MaxFiles - 1)
      PROVE  Moved(old, moved) \in Logs
  <2>1. <<>> \in Entries BY DEF Entries
  <2>2. \A i \in moved : old[i] \in Entries BY DEF Logs
  <2>3. \A i \in 0 .. MaxFiles - 1 : old[i] \in Entries BY DEF Logs
  <2>4. \A i \in 0 .. MaxFiles - 1 :
          (IF i - 1 \in moved /\ old[i - 1] # <<>> THEN old[i - 1]
           ELSE IF i \in moved THEN <<>> ELSE old[i]) \in Entries
    BY <2>1, <2>2, <2>3
  <2> QED BY <2>4 DEF Moved, Logs
<1>7. \A s \in Entries : [LogFiles EXCEPT ![0] = s] \in Logs BY <1>4 DEF Logs
<1> QED BY <1>4, <1>5, <1>6, <1>7

\* Writing an entry: the log grows by it and the files may be rotated.
LEMMA WrittenFiles ==
    ASSUME TypeOK, HasEntry, WriterWrites
    PROVE  LET log == [LogFiles EXCEPT ![0] = Append(file, Head(batch))] IN
           /\ log \in Logs /\ Head(batch) \in 1 .. MaxEntries
           /\ log[0] = Append(file, Head(batch))
           /\ \A i \in 1 .. MaxFiles - 1 : log[i] = LogFiles[i]
           /\ file' \in Entries /\ backups' \in [1 .. MaxFiles - 1 -> Entries]
           /\ \/ LogFiles' = log
              \/ \E moved \in SUBSET (0 .. MaxFiles - 1) : LogFiles' = Moved(log, moved)
<1> USE LoggerAssumption
<1> DEFINE log == [LogFiles EXCEPT ![0] = Append(file, Head(batch))]
<1>1. batch \in Entries /\ file \in Entries /\ backups \in [1 .. MaxFiles - 1 -> Entries]
  BY DEF TypeOK, Entries
<1>2. batch # <<>> BY DEF WriterWrites, HasEntry
<1>3. Head(batch) \in 1 .. MaxEntries BY <1>1, <1>2 DEF Entries
<1>4. Append(file, Head(batch)) \in Entries BY <1>1, <1>3 DEF Entries
<1>5. log \in Logs /\ LogFiles \in Logs BY <1>4, FilesTyped
<1>6. /\ 0 \in 0 .. MaxFiles - 1
      /\ \A i \in 1 .. MaxFiles - 1 : i \in 0 .. MaxFiles - 1 /\ i # 0
      /\ \A i \in 0 .. MaxFiles - 1 : i # 0 => i \in 1 .. MaxFiles - 1
  OBVIOUS
<1>7. log[0] = Append(file, Head(batch)) /\ \A i \in 1 .. MaxFiles - 1 : log[i] = LogFiles[i]
  BY <1>5, <1>6 DEF Logs
<1>8. \/ file' = log[0] /\ backups' = backups
      \/ \E moved \in SUBSET (0 .. MaxFiles - 1) :
            /\ file' = Moved(log, moved)[0]
            /\ backups' = [i \in 1 .. MaxFiles - 1 |-> Moved(log, moved)[i]]
  BY DEF WriterWrites
<1>9. LogFiles' = [i \in 0 .. MaxFiles - 1 |-> IF i = 0 THEN file' ELSE backups'[i]]
  BY DEF LogFiles
<1> HIDE DEF log
<1>10. CASE file' = log[0] /\ backups' = backups
  <2>1. \A i \in 0 .. MaxFiles - 1 : (IF i = 0 THEN file' ELSE backups'[i]) = log[i]
    BY <1>6, <1>7, <1>10, FilesTyped
  <2>2. LogFiles' = log BY <1>5, <1>9, <2>1 DEF Logs
  <2>3. file' \in Entries /\ backups' \in [1 .. MaxFiles - 1 -> Entries]
    BY <1>1, <1>4, <1>7, <1>10
  <2> QED BY <1>3, <1>5, <1>7, <2>2, <2>3 DEF log
<1>11. ASSUME NEW moved \in SUBSET (0 .. MaxFiles - 1),
              file' = Moved(log, moved)[0],
              backups' = [i \in 1 .. MaxFiles - 1 |-> Moved(log, moved)[i]]
       PROVE  /\ file' \in Entries /\ backups' \in [1 .. MaxFiles - 1 -> Entries]
              /\ LogFiles' = Moved(log, moved)
  <2> DEFINE new == Moved(log, moved)
  <2>1. new \in Logs BY <1>5, FilesTyped
  <2> HIDE DEF new
  <2>2. file' = new[0] /\ backups' = [i \in 1 .. MaxFiles - 1 |-> new[i]] BY <1>11 DEF new
  <2>3. \A i \in 0 .. MaxFiles - 1 : (IF i = 0 THEN file' ELSE backups'[i]) = new[i]
    BY <1>6, <2>2
  <2>4. LogFiles' = new BY <1>9, <2>1, <2>3 DEF Logs
  <2>5. file' \in Entries /\ backups' \in [1 .. MaxFiles - 1 -> Entries]
    BY <1>6, <2>1, <2>2 DEF Logs
  <2> QED BY <2>4, <2>5 DEF new
<1> QED BY <1>3, <1>5, <1>7, <1>8, <1>10, <1>11 DEF log

\* ... one for the entry in the writer's hand ...
LEMMA WriterTyped ==
    ASSUME TInv, WriterFile \/ WriterWrites \/ WriterFetches \/ WriterStores \/ WriterEnds
    PROVE  TInv'
<1> USE LoggerAssumption DEF TInv, TypeOK, HasEntry, Entries
<1>1. writer \in {"write", "writing", "ring", "store"} => Head(batch) \in 1 .. MaxEntries
  OBVIOUS
<1>2. CASE WriterFile BY <1>2 DEF WriterFile, ringVars, queueVars
<1>3. CASE WriterWrites
  <2>1. file' \in Entries /\ backups' \in [1 .. MaxFiles - 1 -> Entries]
    BY <1>3, WrittenFiles
  <2>2. writer' = "ring" /\ handle' \in BOOLEAN /\ flock' \in BOOLEAN
    BY <1>3 DEF WriterWrites
  <2> QED BY <1>3, <2>1, <2>2 DEF WriterWrites, ringVars, queueVars
<1>4. CASE WriterFetches
  <2>1. Head(batch) \in Int /\ "writer" \in Adder BY <1>1, <1>4 DEF WriterFetches, Adder
  <2> QED BY <1>4, <2>1, RingTyped DEF WriterFetches, queueVars, fileVars
<1>5. CASE WriterStores
  <2>1. Head(batch) \in Int /\ "writer" \in Adder BY <1>1, <1>5 DEF WriterStores, Adder
  <2>2. batch' \in Entries /\ writer' \in {"loop", "write"} BY <1>5 DEF WriterStores
  <2>3. writer' = "write" => batch' # <<>>
    <3>1. batch \in Seq(1 .. MaxEntries) OBVIOUS
    <3>2. batch # <<>> /\ Len(batch) # 1 => Tail(batch) # <<>> BY <3>1, TailNotEmpty
    <3> QED BY <1>5, <3>2 DEF WriterStores
  <2>4. /\ ringIndex' \in Nat /\ lapped' \in BOOLEAN
        /\ ring' \in [0 .. RingSize - 1 -> Int]
        /\ slot' \in [Adder -> -1 .. RingSize - 1]
    BY <1>5, <2>1, RingTyped DEF WriterStores
  <2>5. HasEntry' BY <2>2, <2>3
  <2> QED BY <1>5, <2>2, <2>4, <2>5 DEF WriterStores, queueVars, fileVars
<1>6. CASE WriterEnds BY <1>6 DEF WriterEnds, queueVars, fileVars, ringVars
<1> QED BY <1>2, <1>3, <1>4, <1>5, <1>6

\* ... and one for Shutdown and the rotator.
LEMMA OthersTyped ==
    ASSUME TInv, ShutdownFlag \/ Shutdown \/ RotateClose \/ Rotator
    PROVE  TInv'
<1> USE LoggerAssumption DEF TInv, TypeOK, HasEntry, Entries
<1>1. CASE ShutdownFlag BY <1>1 DEF ShutdownFlag, fileVars, ringVars
<1>2. CASE ShutdownNotify BY <1>2 DEF ShutdownNotify, Wake, fileVars, ringVars, queueVars
<1>3. CASE ShutdownJoin BY <1>3 DEF ShutdownJoin, fileVars, ringVars, queueVars
<1>4. CASE ShutdownClose BY <1>4 DEF ShutdownClose, ringVars, queueVars
<1>5. CASE RotateClose
  <2>1. rotations' \in 0 .. MaxRotations
    <3>1. rotations \in 0 .. MaxRotations /\ rotations < MaxRotations /\ rotations' = rotations + 1
      BY <1>5 DEF RotateClose
    <3> HIDE DEF TInv
    <3> QED BY <3>1
  <2>2. rotator' = "archive" /\ handle' \in BOOLEAN BY <1>5 DEF RotateClose
  <2> QED BY <1>5, <2>1, <2>2 DEF RotateClose, ringVars, queueVars
<1>6. CASE RotateArchive
  <2>1. <<>> \in Entries OBVIOUS
  <2>2. file' \in Entries BY <1>6, <2>1 DEF RotateArchive
  <2>3. backups' \in [1 .. MaxFiles - 1 -> Entries]
    <3>1. backups \in [1 .. MaxFiles - 1 -> Entries] OBVIOUS
    <3> HIDE DEF Entries, TypeOK, TInv
    <3> QED BY <1>6, <2>1, <3>1 DEF RotateArchive
  <2> QED BY <1>6, <2>2, <2>3 DEF RotateArchive, ringVars, queueVars
<1>7. CASE RotateOpen BY <1>7 DEF RotateOpen, ringVars, queueVars
<1>8. -rotations \in Int /\ "rotator" \in Adder BY DEF Adder
<1>9. CASE RotateFetches \/ RotateStores
  <2>1. /\ ringIndex' \in Nat /\ lapped' \in BOOLEAN
        /\ ring' \in [0 .. RingSize - 1 -> Int]
        /\ slot' \in [Adder -> -1 .. RingSize - 1]
    <3> HIDE DEF TypeOK
    <3> QED BY <1>8, <1>9, RingTyped DEF RotateFetches, RotateStores
  <2>2. rotator' \in {"store", "sleep"} BY <1>9 DEF RotateFetches, RotateStores
  <2>3. UNCHANGED <<queueVars, writer, batch, shutdown, fileVars, rotations>>
    BY <1>9 DEF RotateFetches, RotateStores
  <2>4. HasEntry' BY <2>3
  <2>6. TypeOK'
    <3> HIDE DEF HasEntry
    <3> QED BY <2>1, <2>2, <2>3 DEF queueVars, fileVars
  <2> QED BY <2>4, <2>6
<1> QED BY <1>1, <1>2, <1>3, <1>4, <1>5, <1>6, <1>7, <1>9 DEF Shutdown, Rotator

\* Types; between the file and the ring the writer has an entry in hand.
THEOREM LoggerTyped == Spec => []TInv
<1> USE LoggerAssumption
<1>1. ASSUME Init PROVE TInv
  <2>1. TypeOK
    <3>1. /\ ring \in [0 .. RingSize - 1 -> Int] /\ slot \in [Adder -> -1 .. RingSize - 1]
          /\ caller \in [Caller -> {"idle", "notify"}]
      BY <1>1 DEF Init
    <3>2. /\ queue \in Entries /\ batch \in Entries /\ file \in Entries
          /\ backups \in [1 .. MaxFiles - 1 -> Entries]
      BY <1>1 DEF Init, Entries
    <3>3. logged \in 0 .. MaxEntries /\ rotations \in 0 .. MaxRotations /\ ringIndex \in Nat
      BY <1>1 DEF Init
    <3> QED BY <1>1, <3>1, <3>2, <3>3 DEF Init, TypeOK, Entries
  <2>2. HasEntry BY <1>1 DEF Init, HasEntry
  <2> QED BY <2>1, <2>2 DEF TInv
<1>2. ASSUME TInv, [Next]_vars PROVE TInv'
  <2>1. CASE UNCHANGED vars
    <3>1. TypeOK' BY <1>2, <2>1 DEF TInv, TypeOK, vars, queueVars, fileVars, ringVars
    <3> QED BY <1>2, <2>1, <3>1 DEF TInv, HasEntry, vars, fileVars
  <2> QED BY <1>2, <2>1, QueueTyped, WriterTyped, OthersTyped DEF Next, Writer
<1> QED BY <1>1, <1>2, PTL DEF Spec

\* Types; in particular every slot is one of the ring.
THEOREM LoggerTypeCorrect == Spec => []TypeOK
<1>1. TInv => TypeOK BY DEF TInv
<1> QED BY <1>1, LoggerTyped, PTL

-----------------------------------------------------------------------------
(* No entry is lost, written twice or written out of order.                 *)

\* The sequence s of entries and the set D between them have each of the first
\* n entries once, s in order.
Accounted(s, D, n) ==
    /\ \A i, j \in 1 .. Len(s) : i < j => s[i] < s[j]
    /\ D \cup {s[i] : i \in 1 .. Len(s)} = 1 .. n
    /\ \A i \in 1 .. Len(s) : s[i] \notin D

\* A new entry goes to the end.
LEMMA AccountedAppend ==
    ASSUME NEW s \in Seq(Nat), NEW D, NEW n \in Nat, Accounted(s, D, n)
    PROVE  Accounted(Append(s, n + 1), D, n + 1)
<1> DEFINE t == Append(s, n + 1)
<1>1. /\ Len(s) \in Nat /\ Len(t) = Len(s) + 1 /\ t[Len(s) + 1] = n + 1
      /\ \A i \in 1 .. Len(s) : t[i] = s[i]
  BY AppendProperties, LenProperties
<1>2. \A i \in 1 .. Len(s) : s[i] \in 1 .. n /\ s[i] \notin D BY DEF Accounted
<1>3. D \subseteq 1 .. n BY DEF Accounted
<1> HIDE DEF t
<1>4. \A i, j \in 1 .. Len(t) : i < j => t[i] < t[j]
  <2> SUFFICES ASSUME NEW i \in 1 .. Len(t), NEW j \in 1 .. Len(t), i < j
               PROVE  t[i] < t[j]
    OBVIOUS
  <2>1. i \in 1 .. Len(s) BY <1>1
  <2>2. CASE j = Len(s) + 1 BY <1>1, <1>2, <2>1, <2>2
  <2>3. CASE j \in 1 .. Len(s) BY <1>1, <2>1, <2>3 DEF Accounted
  <2> QED BY <1>1, <2>2, <2>3
<1>5. {t[i] : i \in 1 .. Len(t)} = {s[i] : i \in 1 .. Len(s)} \cup {n + 1}
  <2>1. 1 .. Len(t) = (1 .. Len(s)) \cup {Len(s) + 1} BY <1>1
  <2> QED BY <1>1, <2>1
<1>6. D \cup {t[i] : i \in 1 .. Len(t)} = 1 .. n + 1
  <2>1. 1 .. n + 1 = (1 .. n) \cup {n + 1} OBVIOUS
  <2> QED BY <1>5, <2>1 DEF Accounted
<1>7. \A i \in 1 .. Len(t) : t[i] \notin D
  <2>1. n + 1 \notin D BY <1>3
  <2> QED BY <1>1, <1>2, <2>1
<1> QED BY <1>4, <1>6, <1>7 DEF Accounted, t

\* An entry taken out of the sequence goes to the set.
LEMMA AccountedRemove ==
    ASSUME NEW s \in Seq(Nat), NEW t \in Seq(Nat), NEW D, NEW n \in Nat,
           Accounted(s, D, n), NEW k \in 1 .. Len(s), Len(t) = Len(s) - 1,
           \A i \in 1 .. Len(t) : t[i] = IF i < k THEN s[i] ELSE s[i + 1]
    PROVE  Accounted(t, D \cup {s[k]}, n)
<1> DEFINE from(i) == IF i < k THEN i ELSE i + 1
<1>1. Len(s) \in Nat /\ Len(t) \in Nat BY LenProperties
<1>2. \A i \in 1 .. Len(t) : /\ from(i) \in 1 .. Len(s) /\ from(i) # k
                             /\ t[i] = s[from(i)]
  <2> SUFFICES ASSUME NEW i \in 1 .. Len(t)
               PROVE  from(i) \in 1 .. Len(s) /\ from(i) # k /\ t[i] = s[from(i)]
    OBVIOUS
  <2>1. CASE i < k BY <1>1, <2>1
  <2>2. CASE ~(i < k) BY <1>1, <2>2
  <2> QED BY <2>1, <2>2
<1>3. \A i, j \in 1 .. Len(t) : i < j => from(i) < from(j) BY <1>1
<1>4. \A m \in 1 .. Len(s) : m # k => \E i \in 1 .. Len(t) : m = from(i)
  <2> SUFFICES ASSUME NEW m \in 1 .. Len(s), m # k
               PROVE  \E i \in 1 .. Len(t) : m = from(i)
    OBVIOUS
  <2>1. CASE m < k
    <3>1. m \in 1 .. Len(t) /\ from(m) = m BY <1>1, <2>1
    <3> QED BY <3>1
  <2>2. CASE m > k
    <3>1. m - 1 \in 1 .. Len(t) /\ from(m - 1) = m BY <1>1, <2>2
    <3> QED BY <3>1
  <2> QED BY <1>1, <2>1, <2>2
<1>5. \A i \in 1 .. Len(s) : i # k => s[i] # s[k]
  <2> SUFFICES ASSUME NEW i \in 1 .. Len(s), i # k PROVE s[i] # s[k] OBVIOUS
  <2>1. s[i] \in Nat /\ s[k] \in Nat BY ElementOfSeq
  <2>2. i < k \/ k < i BY <1>1
  <2>3. s[i] < s[k] \/ s[k] < s[i] BY <2>2 DEF Accounted
  <2> QED BY <2>1, <2>3
<1> HIDE DEF from
<1>6. \A i, j \in 1 .. Len(t) : i < j => t[i] < t[j] BY <1>2, <1>3 DEF Accounted
<1>7. {s[i] : i \in 1 .. Len(s)} = {t[i] : i \in 1 .. Len(t)} \cup {s[k]}
  <2>1. ASSUME NEW i \in 1 .. Len(s)
        PROVE  s[i] \in {t[m] : m \in 1 .. Len(t)} \cup {s[k]}
    <3>1. CASE i = k BY <3>1
    <3>2. CASE i # k
      <4>1. PICK m \in 1 .. Len(t) : i = from(m) BY <1>4, <3>2
      <4> QED BY <1>2, <4>1
    <3> QED BY <3>1, <3>2
  <2>2. ASSUME NEW i \in 1 .. Len(t) PROVE t[i] \in {s[m] : m \in 1 .. Len(s)}
    BY <1>2
  <2> QED BY <2>1, <2>2
<1>8. (D \cup {s[k]}) \cup {t[i] : i \in 1 .. Len(t)} = 1 .. n
  BY <1>7, Zenon DEF Accounted
<1>9. \A i \in 1 .. Len(t) : t[i] \notin D \cup {s[k]} BY <1>2, <1>5 DEF Accounted
<1> QED BY <1>6, <1>8, <1>9 DEF Accounted

\* Entries go from the queue to the batch and from the batch to the file in
\* order.
All == (written \o Left) \o queue

\* A new entry in the queue is the last of all.
LEMMA AllAppend ==
    ASSUME NEW w \in Seq(Nat), NEW b \in Seq(Nat), NEW q \in Seq(Nat), NEW e \in Nat
    PROVE  (w \o b) \o Append(q, e) = Append((w \o b) \o q, e)
<1>1. w \o b \in Seq(Nat) /\ (w \o b) \o q \in Seq(Nat) /\ <<e>> \in Seq(Nat)
  BY ConcatProperties
<1>2. Append(q, e) = q \o <<e>> /\ Append((w \o b) \o q, e) = ((w \o b) \o q) \o <<e>>
  BY <1>1, AppendIsConcat
<1> DEFINE v == w \o b  last == <<e>>
<1>3. v \in Seq(Nat) /\ last \in Seq(Nat) BY <1>1
<1> HIDE DEF v, last
<1>4. (v \o q) \o last = v \o (q \o last) BY <1>3, ConcatAssociative
<1> QED BY <1>2, <1>4, Zenon DEF v, last

\* An entry written moves from batch to file and keeps its place among all.
LEMMA HeadMoves ==
    ASSUME NEW w \in Seq(Nat), NEW b \in Seq(Nat), b # <<>>
    PROVE  Append(w, Head(b)) \o Tail(b) = w \o b
<1>1. /\ Head(b) \in Nat /\ Tail(b) \in Seq(Nat) /\ Len(Tail(b)) = Len(b) - 1
      /\ \A i \in 1 .. Len(Tail(b)) : Tail(b)[i] = b[i + 1]
      /\ Head(b) = b[1] /\ Len(b) \in Nat \ {0}
  BY HeadTailProperties, EmptySeq
<1> DEFINE v == Append(w, Head(b))
<1>2. /\ v \in Seq(Nat) /\ Len(v) = Len(w) + 1 /\ v[Len(w) + 1] = b[1]
      /\ \A i \in 1 .. Len(w) : v[i] = w[i]
  BY <1>1, AppendProperties
<1> HIDE DEF v
<1> DEFINE x == v \o Tail(b)  y == w \o b
<1>3. /\ x \in Seq(Nat) /\ Len(x) = Len(v) + Len(Tail(b))
      /\ \A i \in 1 .. Len(v) + Len(Tail(b)) :
            x[i] = IF i <= Len(v) THEN v[i] ELSE Tail(b)[i - Len(v)]
  BY <1>1, <1>2, ConcatProperties
<1>4. /\ y \in Seq(Nat) /\ Len(y) = Len(w) + Len(b)
      /\ \A i \in 1 .. Len(w) + Len(b) :
            y[i] = IF i <= Len(w) THEN w[i] ELSE b[i - Len(w)]
  BY ConcatProperties
<1>5. Len(w) \in Nat BY LenProperties
<1> HIDE DEF x, y
<1>6. Len(x) = Len(y) BY <1>1, <1>2, <1>3, <1>4, <1>5
<1>7. ASSUME NEW i \in 1 .. Len(x) PROVE x[i] = y[i]
  <2>1. CASE i <= Len(w)
    <3>1. i \in 1 .. Len(v) + Len(Tail(b)) /\ i \in 1 .. Len(w) + Len(b) /\ i <= Len(v)
      BY <1>1, <1>2, <1>3, <1>5, <2>1
    <3>2. x[i] = v[i] /\ y[i] = w[i] /\ i \in 1 .. Len(w) BY <1>3, <1>4, <1>5, <2>1, <3>1
    <3> QED BY <1>2, <3>2
  <2>2. CASE i = Len(w) + 1 BY <1>1, <1>2, <1>3, <1>4, <1>5, <1>6, <2>2
  <2>3. CASE i > Len(w) + 1
    <3>1. x[i] = Tail(b)[i - (Len(w) + 1)] /\ i - (Len(w) + 1) \in 1 .. Len(Tail(b))
      BY <1>1, <1>2, <1>3, <1>5, <2>3
    <3>2. Tail(b)[i - (Len(w) + 1)] = b[(i - (Len(w) + 1)) + 1] BY <1>1, <3>1
    <3>3. (i - (Len(w) + 1)) + 1 = i - Len(w) BY <1>5
    <3>4. i \in 1 .. Len(w) + Len(b) /\ ~(i <= Len(w)) BY <1>4, <1>5, <1>6, <2>3
    <3>5. y[i] = b[i - Len(w)] BY <1>4, <3>4
    <3> QED BY <3>1, <3>2, <3>3, <3>5
  <2> QED BY <1>5, <2>1, <2>2, <2>3
<1>8. x = y BY <1>3, <1>4, <1>6, <1>7, SeqEqual
<1> QED BY <1>8 DEF x, y, v

\* An entry dropped leaves the others in their order.
LEMMA HeadDrops ==
    ASSUME NEW w \in Seq(Nat), NEW b \in Seq(Nat), NEW q \in Seq(Nat), b # <<>>
    PROVE  LET s == (w \o b) \o q
               t == (w \o Tail(b)) \o q
               k == Len(w) + 1
           IN  /\ s \in Seq(Nat) /\ t \in Seq(Nat)
               /\ k \in 1 .. Len(s) /\ s[k] = Head(b) /\ Len(t) = Len(s) - 1
               /\ \A i \in 1 .. Len(t) : t[i] = IF i < k THEN s[i] ELSE s[i + 1]
<1>1. /\ Head(b) \in Nat /\ Tail(b) \in Seq(Nat) /\ Len(Tail(b)) = Len(b) - 1
      /\ \A i \in 1 .. Len(Tail(b)) : Tail(b)[i] = b[i + 1]
      /\ Head(b) = b[1] /\ Len(b) \in Nat \ {0}
  BY HeadTailProperties, EmptySeq
<1>2. Len(w) \in Nat /\ Len(q) \in Nat BY LenProperties
<1> DEFINE c == Tail(b)  r == c \o q  p == b \o q
<1>3. /\ (w \o b) \o q = w \o p /\ (w \o c) \o q = w \o r
      /\ p \in Seq(Nat) /\ r \in Seq(Nat)
  <2>1. c \in Seq(Nat) BY <1>1
  <2> HIDE DEF c
  <2>2. ASSUME NEW u \in Seq(Nat) PROVE (w \o u) \o q = w \o (u \o q)
    BY ConcatAssociative
  <2>3. (w \o c) \o q = w \o (c \o q) BY <2>1, <2>2
  <2>4. b \o q \in Seq(Nat) /\ c \o q \in Seq(Nat) BY <2>1, ConcatProperties
  <2> QED BY <2>2, <2>3, <2>4
<1>4. /\ Len(p) = Len(b) + Len(q)
      /\ \A i \in 1 .. Len(b) + Len(q) : p[i] = IF i <= Len(b) THEN b[i] ELSE q[i - Len(b)]
  BY ConcatProperties
<1>5. /\ Len(r) = Len(c) + Len(q)
      /\ \A i \in 1 .. Len(c) + Len(q) : r[i] = IF i <= Len(c) THEN c[i] ELSE q[i - Len(c)]
  BY <1>1, ConcatProperties
<1> HIDE DEF r, p
<1>6. Len(r) = Len(p) - 1 /\ Len(p) \in Nat \ {0} /\ p[1] = Head(b)
  BY <1>1, <1>2, <1>4, <1>5
<1>7. ASSUME NEW i \in 1 .. Len(r) PROVE r[i] = p[i + 1]
  <2>1. CASE i <= Len(c) BY <1>1, <1>2, <1>4, <1>5, <2>1
  <2>2. CASE i > Len(c)
    <3>1. r[i] = q[i - Len(c)] /\ p[i + 1] = q[(i + 1) - Len(b)]
      BY <1>1, <1>2, <1>4, <1>5, <2>2
    <3>2. i - Len(c) = (i + 1) - Len(b) BY <1>1
    <3> QED BY <3>1, <3>2
  <2> QED BY <1>1, <2>1, <2>2
<1> DEFINE s == w \o p  t == w \o r
<1>8. /\ s \in Seq(Nat) /\ Len(s) = Len(w) + Len(p)
      /\ \A i \in 1 .. Len(w) + Len(p) : s[i] = IF i <= Len(w) THEN w[i] ELSE p[i - Len(w)]
  BY <1>3, ConcatProperties
<1>9. /\ t \in Seq(Nat) /\ Len(t) = Len(w) + Len(r)
      /\ \A i \in 1 .. Len(w) + Len(r) : t[i] = IF i <= Len(w) THEN w[i] ELSE r[i - Len(w)]
  BY <1>3, ConcatProperties
<1> HIDE DEF s, t
<1>10. /\ Len(t) = Len(s) - 1 /\ Len(w) + 1 \in 1 .. Len(s)
       /\ s[Len(w) + 1] = Head(b)
  <2>1. Len(t) = Len(s) - 1 BY <1>2, <1>6, <1>8, <1>9
  <2>2. /\ Len(w) + 1 \in 1 .. Len(w) + Len(p) /\ ~(Len(w) + 1 <= Len(w))
        /\ (Len(w) + 1) - Len(w) = 1
    BY <1>2, <1>6
  <2>3. s[Len(w) + 1] = p[1] BY <1>8, <2>2
  <2> QED BY <1>6, <1>8, <2>1, <2>2, <2>3
<1>11. ASSUME NEW i \in 1 .. Len(t)
       PROVE  t[i] = IF i < Len(w) + 1 THEN s[i] ELSE s[i + 1]
  <2>1. CASE i <= Len(w)
    <3>1. i \in 1 .. Len(w) + Len(p) BY <1>2, <1>6, <2>1
    <3>2. i \in 1 .. Len(w) + Len(r) BY <1>9
    <3>3. i < Len(w) + 1 BY <1>2, <2>1
    <3> QED BY <1>8, <1>9, <2>1, <3>1, <3>2, <3>3
  <2>2. CASE i > Len(w)
    <3>1. i - Len(w) \in 1 .. Len(r) BY <1>2, <1>6, <1>9, <2>2
    <3>2. t[i] = r[i - Len(w)] BY <1>2, <1>6, <1>9, <2>2
    <3>3. s[i + 1] = p[(i + 1) - Len(w)]
      <4>1. i + 1 \in 1 .. Len(w) + Len(p) /\ ~(i + 1 <= Len(w))
        BY <1>2, <1>6, <1>9, <2>2
      <4> QED BY <1>8, <4>1
    <3>4. (i - Len(w)) + 1 = (i + 1) - Len(w) BY <1>2
    <3> QED BY <1>2, <1>7, <2>2, <3>1, <3>2, <3>3, <3>4
  <2> QED BY <1>2, <2>1, <2>2
<1> QED BY <1>3, <1>8, <1>9, <1>10, <1>11 DEF s, t, c

\* Outside its passage from the queue to the ring the writer has no entry.
Idle == writer \notin {"write", "writing", "ring", "store"} => batch = <<>>

AInv == written \in Seq(Nat) /\ Idle /\ Accounted(All, dropped, logged)

\* Entries are numbers.
LEMMA EntriesNumbers == \A s \in Entries : s \in Seq(Nat)
<1>1. 1 .. MaxEntries \subseteq Nat BY LoggerAssumption
<1> QED BY <1>1, SeqMonotonic DEF Entries

\* Steps that touch neither the history nor the entries on their way.
LEMMA AccountKept ==
    ASSUME AInv, UNCHANGED <<written, dropped, logged, All>>, Idle'
    PROVE  AInv'
BY DEF AInv

\* Log and the writer's taking of the queue.
LEMMA QueueAccounted ==
    ASSUME TInv, AInv,
           \/ \E t \in Caller : Log(t) \/ Notify(t)
           \/ WriterLoop \/ WriterLock \/ WriterTakes \/ WriterTests \/ WriterWaits
    PROVE  AInv'
<1>1. queue \in Seq(Nat) /\ batch \in Seq(Nat) /\ written \in Seq(Nat) /\ logged \in Nat
  BY EntriesNumbers DEF TInv, TypeOK, Entries, AInv
<1>2. ASSUME NEW t \in Caller, Log(t) PROVE AInv'
  <2>1. UNCHANGED <<written, dropped, writer, batch>> /\ logged' = logged + 1
        /\ queue' = Append(queue, logged + 1)
    BY <1>2 DEF Log, fileVars
  <2>2. Left \in Seq(Nat) /\ Left' = Left
    <3>1. writer \in {"ring", "store"} => Tail(batch) \in Seq(Nat)
      BY <1>1, HeadTailProperties DEF TInv, HasEntry
    <3> QED BY <1>1, <2>1, <3>1 DEF Left
  <2>3. All' = Append(All, logged + 1) BY <1>1, <2>1, <2>2, AllAppend DEF All
  <2>4. All \in Seq(Nat) BY <1>1, <2>2, ConcatProperties DEF All
  <2>5. Accounted(Append(All, logged + 1), dropped, logged + 1)
    BY <1>1, <2>4, AccountedAppend DEF AInv
  <2>6. Accounted(All', dropped', logged') BY <2>1, <2>3, <2>5
  <2>7. Idle' BY <2>1 DEF AInv, Idle
  <2>8. written' \in Seq(Nat) BY <1>1, <2>1
  <2> QED BY <2>6, <2>7, <2>8 DEF AInv
<1>3. ASSUME NEW t \in Caller, Notify(t) PROVE AInv'
  <2>1. UNCHANGED <<written, dropped, logged, queue, batch>>
        /\ (writer' = writer \/ (writer = "wait" /\ writer' = "lock"))
    BY <1>3 DEF Notify, Wake, fileVars
  <2> QED BY <2>1, AccountKept DEF AInv, Idle, All, Left
<1>4. CASE WriterLoop \/ WriterLock \/ WriterTests \/ WriterWaits
  <2>1. UNCHANGED <<written, dropped, logged, queue, batch>>
        /\ writer \in {"loop", "lock", "test", "block"}
        /\ writer' \in {"lock", "flush", "test", "block", "wait"}
    BY <1>4 DEF WriterLoop, WriterLock, WriterTests, WriterWaits, fileVars, queueVars
  <2> QED BY <2>1, AccountKept DEF AInv, Idle, All, Left
<1>5. CASE WriterTakes
  <2>1. UNCHANGED <<written, dropped, logged>> /\ batch' = queue /\ queue' = <<>>
        /\ writer = "test" /\ writer' = IF queue = <<>> THEN "flush" ELSE "write"
    BY <1>5 DEF WriterTakes, fileVars
  <2>2. batch = <<>> BY <2>1 DEF AInv, Idle
  <2>3. Left = <<>> /\ Left' = queue BY <2>1, <2>2 DEF Left
  <2>4. All = written \o queue BY <1>1, <2>3, ConcatEmptySeq DEF All
  <2>5. written \o queue \in Seq(Nat) BY <1>1, ConcatProperties
  <2>6. (written \o queue) \o <<>> = written \o queue BY <2>5, ConcatEmptySeq
  <2>7. All' = All BY <2>1, <2>3, <2>4, <2>6 DEF All
  <2>8. Idle' BY <2>1 DEF Idle
  <2> QED BY <2>1, <2>7, <2>8, AccountKept
<1> QED BY <1>2, <1>3, <1>4, <1>5

\* An entry in the writer's hand is written, or dropped when there is no file.
LEMMA WriterAccounted ==
    ASSUME TInv, AInv,
           WriterFile \/ WriterWrites \/ WriterFetches \/ WriterStores \/ WriterEnds
    PROVE  AInv'
<1>1. queue \in Seq(Nat) /\ batch \in Seq(Nat) /\ written \in Seq(Nat) /\ logged \in Nat
  BY EntriesNumbers DEF TInv, TypeOK, Entries, AInv
<1>2. writer \in {"write", "writing", "ring", "store"} => batch # <<>>
  BY DEF TInv, HasEntry
<1>3. CASE WriterFile /\ handle
  <2>1. UNCHANGED <<written, dropped, logged, queue, batch>>
        /\ writer = "write" /\ writer' = "writing"
    BY <1>3 DEF WriterFile, queueVars
  <2> QED BY <2>1, AccountKept DEF Idle, All, Left
<1>4. CASE WriterFile /\ ~handle
  <2>1. UNCHANGED <<written, logged, queue, batch>> /\ dropped' = dropped \cup {Head(batch)}
        /\ writer = "write" /\ writer' = "ring"
    BY <1>4 DEF WriterFile, queueVars
  <2>2. Left = batch /\ Left' = Tail(batch) BY <2>1 DEF Left
  <2>3. All = (written \o batch) \o queue /\ All' = (written \o Tail(batch)) \o queue
    BY <2>1, <2>2 DEF All
  <2>4. /\ All \in Seq(Nat) /\ All' \in Seq(Nat)
        /\ Len(written) + 1 \in 1 .. Len(All) /\ All[Len(written) + 1] = Head(batch)
        /\ Len(All') = Len(All) - 1
        /\ \A i \in 1 .. Len(All') :
              All'[i] = IF i < Len(written) + 1 THEN All[i] ELSE All[i + 1]
    BY <1>1, <1>2, <2>1, <2>3, HeadDrops
  <2>5. Accounted(All, dropped, logged) BY DEF AInv
  <2>6. Accounted(All', dropped \cup {All[Len(written) + 1]}, logged)
    <3> DEFINE s == All  t == All'  k == Len(written) + 1
    <3>1. /\ s \in Seq(Nat) /\ t \in Seq(Nat) /\ k \in 1 .. Len(s) /\ Len(t) = Len(s) - 1
          /\ \A i \in 1 .. Len(t) : t[i] = IF i < k THEN s[i] ELSE s[i + 1]
          /\ Accounted(s, dropped, logged)
      BY <2>4, <2>5
    <3> HIDE DEF s, t, k
    <3>2. Accounted(t, dropped \cup {s[k]}, logged) BY <1>1, <3>1, AccountedRemove
    <3> QED BY <3>2 DEF s, t, k
  <2>7. Accounted(All', dropped', logged') BY <2>1, <2>4, <2>6
  <2>8. Idle' BY <2>1 DEF Idle
  <2>9. written' \in Seq(Nat) BY <1>1, <2>1
  <2> QED BY <2>7, <2>8, <2>9 DEF AInv
<1>5. CASE WriterWrites
  <2>1. UNCHANGED <<dropped, logged, queue, batch>> /\ written' = Append(written, Head(batch))
        /\ writer = "writing" /\ writer' = "ring"
    BY <1>5 DEF WriterWrites, queueVars
  <2>2. Left = batch /\ Left' = Tail(batch) BY <2>1 DEF Left
  <2>3. Append(written, Head(batch)) \o Tail(batch) = written \o batch
    BY <1>1, <1>2, <2>1, HeadMoves
  <2>4. All' = All BY <2>1, <2>2, <2>3 DEF All
  <2>5. Head(batch) \in Nat BY <1>1, <1>2, <2>1, HeadTailProperties
  <2>6. written' \in Seq(Nat) BY <1>1, <2>1, <2>5, AppendProperties
  <2>7. Idle' BY <2>1 DEF Idle
  <2>8. Accounted(All', dropped', logged') BY <2>1, <2>4 DEF AInv
  <2> QED BY <2>6, <2>7, <2>8 DEF AInv
<1>6. CASE WriterFetches
  <2>1. UNCHANGED <<written, dropped, logged, queue, batch>>
        /\ writer = "ring" /\ writer' = "store"
    BY <1>6 DEF WriterFetches, queueVars, fileVars
  <2> QED BY <2>1, AccountKept DEF Idle, All, Left
<1>7. CASE WriterStores
  <2>1. UNCHANGED <<written, dropped, logged, queue>> /\ batch' = Tail(batch)
        /\ writer = "store" /\ writer' = IF Len(batch) = 1 THEN "loop" ELSE "write"
    BY <1>7 DEF WriterStores, queueVars, fileVars
  <2>2. All' = All BY <2>1 DEF All, Left
  <2>3. Len(batch) = 1 => Tail(batch) = <<>>
    <3>1. Tail(batch) \in Seq(Nat) /\ Len(Tail(batch)) = Len(batch) - 1
      BY <1>1, <1>2, <2>1, HeadTailProperties
    <3>2. Len(batch) = 1 => Len(Tail(batch)) = 0 BY <3>1
    <3> QED BY <3>1, <3>2, EmptySeq
  <2>4. Idle' BY <2>1, <2>3 DEF Idle
  <2> QED BY <2>1, <2>2, <2>4, AccountKept
<1>8. CASE WriterEnds
  <2>1. UNCHANGED <<written, dropped, logged, queue, batch>>
        /\ writer = "flush" /\ writer' = "ended"
    BY <1>8 DEF WriterEnds, queueVars, fileVars
  <2> QED BY <2>1, AccountKept DEF AInv, Idle, All, Left
<1> QED BY <1>3, <1>4, <1>5, <1>6, <1>7, <1>8

\* What is written, in hand or queued is in order, and all that was not dropped.
THEOREM AccountsInductive == Spec => []AInv
<1>1. ASSUME Init PROVE AInv
  <2>1. /\ written = <<>> /\ queue = <<>> /\ batch = <<>> /\ dropped = {} /\ logged = 0
        /\ writer = "loop"
    BY <1>1 DEF Init
  <2>2. Left = <<>> BY <2>1 DEF Left
  <2>3. <<>> \in Seq(Nat) /\ Len(<<>>) = 0 BY EmptySeq
  <2>4. <<>> \o <<>> = <<>> BY <2>3, ConcatEmptySeq
  <2>5. All = <<>> BY <2>1, <2>2, <2>4 DEF All
  <2>6. 1 .. 0 = {} OBVIOUS
  <2>7. Accounted(<<>>, {}, 0) BY <2>3, <2>6 DEF Accounted
  <2> QED BY <2>1, <2>3, <2>5, <2>7 DEF AInv, Idle
<1>2. ASSUME TInv, AInv, [Next]_vars PROVE AInv'
  <2>1. CASE ShutdownFlag \/ Shutdown \/ RotateClose \/ Rotator
    <3>1. UNCHANGED <<written, dropped, logged, queue, batch>>
          /\ (writer' = writer \/ (writer = "wait" /\ writer' = "lock"))
      BY <2>1 DEF ShutdownFlag, Shutdown, ShutdownNotify, ShutdownJoin, ShutdownClose,
         Wake, RotateClose, Rotator, RotateArchive, RotateOpen, RotateFetches,
         RotateStores, queueVars, fileVars
    <3> QED BY <1>2, <3>1, AccountKept DEF AInv, Idle, All, Left
  <2>2. CASE UNCHANGED vars
    BY <1>2, <2>2, AccountKept DEF AInv, Idle, All, Left, vars, queueVars, fileVars
  <2> QED BY <1>2, <2>1, <2>2, QueueAccounted, WriterAccounted DEF Next, Writer
<1> QED BY <1>1, <1>2, LoggerTyped, PTL DEF Spec

\* Entries reach the files in the order of pushing and none twice, and one is
\* missing only if it was taken while there was no file, for any number of
\* callers and any interleaving with rotations and Shutdown.
THEOREM LoggerAccounts == Spec => []EntriesAccounted
<1>1. AInv => EntriesAccounted BY DEF AInv, Accounted, All, EntriesAccounted
<1> QED BY <1>1, AccountsInductive, PTL

-----------------------------------------------------------------------------
(* The numbered files                                                       *)

Ordered(f) ==
    \A i, j \in 0 .. MaxFiles - 1 : i < j =>
        \A k \in 1 .. Len(f[i]), m \in 1 .. Len(f[j]) : f[i][k] > f[j][m]

\* The entries of all files are at most the last one written.
UpTo(f, last) == \A i \in 0 .. MaxFiles - 1 : \A k \in 1 .. Len(f[i]) : f[i][k] <= last
NothingYet == \A i \in 0 .. MaxFiles - 1 : LogFiles[i] = <<>>
OInv ==
    /\ FilesInOrder
    /\ written = <<>> => NothingYet
    /\ written # <<>> => UpTo(LogFiles, written[Len(written)])

\* Renames that happen in part keep the order: a file moves onto the next only, and
\* where it stays the one after it is not its copy.
LEMMA MovedOrdered ==
    ASSUME NEW old \in Logs, NEW moved \in SUBSET (0 .. MaxFiles - 1), NEW last \in Int,
           Ordered(old), UpTo(old, last)
    PROVE  Ordered(Moved(old, moved)) /\ UpTo(Moved(old, moved), last)
<1> DEFINE new == Moved(old, moved)
<1>0. MaxFiles \in Nat BY LoggerAssumption
<1>1. ASSUME NEW i \in 0 .. MaxFiles - 1, new[i] # <<>>
      PROVE  \/ i - 1 \in moved /\ new[i] = old[i - 1]
             \/ i \notin moved /\ new[i] = old[i]
  BY <1>1 DEF Moved
<1>2. Len(<<>>) = 0 OBVIOUS
<1> HIDE DEF new
<1>3. ASSUME NEW i \in 0 .. MaxFiles - 1, NEW j \in 0 .. MaxFiles - 1, i < j,
             NEW k \in 1 .. Len(new[i]), NEW m \in 1 .. Len(new[j])
      PROVE  new[i][k] > new[j][m]
  <2>1. new[i] # <<>> /\ new[j] # <<>> BY <1>2
  <2>2. \/ i - 1 \in moved /\ new[i] = old[i - 1]
        \/ i \notin moved /\ new[i] = old[i]
    BY <1>1, <2>1
  <2>3. \/ j - 1 \in moved /\ new[j] = old[j - 1]
        \/ j \notin moved /\ new[j] = old[j]
    BY <1>1, <2>1
  <2>4. PICK a \in 0 .. MaxFiles - 1, b \in 0 .. MaxFiles - 1 :
          a < b /\ new[i] = old[a] /\ new[j] = old[b]
    <3>1. CASE i - 1 \in moved /\ new[i] = old[i - 1]
      <4>1. i - 1 \in 0 .. MaxFiles - 1 /\ i - 1 < j /\ i - 1 < j - 1 BY <1>0, <1>3, <3>1
      <4> QED BY <2>3, <3>1, <4>1
    <3>2. CASE i \notin moved /\ new[i] = old[i]
      <4>1. CASE j - 1 \in moved /\ new[j] = old[j - 1]
        <5>1. j - 1 # i BY <3>2, <4>1
        <5>2. j - 1 \in 0 .. MaxFiles - 1 /\ i < j - 1 BY <1>0, <1>3, <4>1, <5>1
        <5> QED BY <3>2, <4>1, <5>2
      <4>2. CASE new[j] = old[j] BY <1>3, <3>2, <4>2
      <4> QED BY <2>3, <4>1, <4>2
    <3> QED BY <2>2, <3>1, <3>2
  <2> QED BY <2>4 DEF Ordered
<1>4. ASSUME NEW i \in 0 .. MaxFiles - 1, NEW k \in 1 .. Len(new[i]) PROVE new[i][k] <= last
  <2>1. new[i] # <<>> BY <1>2
  <2>2. PICK a \in 0 .. MaxFiles - 1 : new[i] = old[a] BY <1>1, <2>1
  <2> QED BY <2>2 DEF UpTo
<1>5. Ordered(new) BY <1>3 DEF Ordered
<1>6. UpTo(new, last) BY <1>4 DEF UpTo
<1> QED BY <1>5, <1>6 DEF new

\* The entry being written comes after the last one written.
LEMMA NextIsLater ==
    ASSUME TInv, AInv, writer = "writing"
    PROVE  /\ Head(batch) \in Nat
           /\ written # <<>> => /\ written[Len(written)] < Head(batch)
                                /\ written[Len(written)] \in Nat
<1>1. queue \in Seq(Nat) /\ batch \in Seq(Nat) /\ written \in Seq(Nat)
  BY EntriesNumbers DEF TInv, TypeOK, Entries, AInv
<1>2. batch # <<>> BY DEF TInv, HasEntry
<1>3. Head(batch) \in Nat BY <1>1, <1>2, HeadTailProperties
<1>4. All = (written \o batch) \o queue BY DEF All, Left
<1> DEFINE n == Len(written)
<1>5. /\ n + 1 \in 1 .. Len(All) /\ All[n + 1] = Head(batch)
  BY <1>1, <1>2, <1>4, HeadDrops
<1>6. ASSUME written # <<>>
      PROVE  n \in 1 .. Len(All) /\ n < n + 1 /\ All[n] = written[n] /\ written[n] \in Nat
  <2>1. n \in Nat /\ n # 0 BY <1>1, <1>6, EmptySeq
  <2>2. n \in 1 .. n BY <2>1
  <2>3. written[n] \in Nat BY <1>1, <2>2, ElementOfSeq
  <2>4. /\ written \o batch \in Seq(Nat) /\ Len(written \o batch) = n + Len(batch)
        /\ (written \o batch)[n] = written[n]
    BY <1>1, <2>1, <2>2, ConcatProperties
  <2>5. Len(batch) \in Nat /\ Len(queue) \in Nat BY <1>1, LenProperties
  <2>6. n \in 1 .. Len(written \o batch) BY <2>1, <2>4, <2>5
  <2>7. /\ Len(All) = Len(written \o batch) + Len(queue)
        /\ All[n] = (written \o batch)[n]
    BY <1>1, <1>4, <2>4, <2>6, ConcatProperties
  <2> HIDE DEF n
  <2> QED BY <2>1, <2>3, <2>4, <2>5, <2>7
<1>7. \A i, j \in 1 .. Len(All) : i < j => All[i] < All[j] BY DEF AInv, Accounted
<1> HIDE DEF n
<1>8. written # <<>> => written[n] < Head(batch) /\ written[n] \in Nat BY <1>5, <1>6, <1>7
<1> QED BY <1>3, <1>8 DEF n

\* A step that writes an entry keeps the order, whichever renames it then does.
LEMMA WriteOrdered ==
    ASSUME TInv, AInv, OInv, WriterWrites PROVE OInv'
<1> USE LoggerAssumption
<1> DEFINE x == Head(batch)
           log == [LogFiles EXCEPT ![0] = Append(file, x)]
<1>1. writer = "writing" /\ written' = Append(written, x) BY DEF WriterWrites
<1>2. /\ log \in Logs /\ log[0] = Append(file, x)
      /\ \A i \in 1 .. MaxFiles - 1 : log[i] = LogFiles[i]
      /\ \/ LogFiles' = log
         \/ \E moved \in SUBSET (0 .. MaxFiles - 1) : LogFiles' = Moved(log, moved)
  BY WrittenFiles DEF TInv
<1>3. x \in Nat /\ (written # <<>> => written[Len(written)] < x
                                     /\ written[Len(written)] \in Nat)
  BY <1>1, NextIsLater
<1>4. written \in Seq(Nat) /\ file \in Seq(Nat)
  BY EntriesNumbers DEF AInv, TInv, TypeOK, Entries
<1>5. written' # <<>> /\ written'[Len(written')] = x
  BY <1>1, <1>3, <1>4, AppendProperties
<1>6. LogFiles \in Logs /\ LogFiles[0] = file BY FilesTyped DEF TInv
<1>7. ASSUME NEW i \in 0 .. MaxFiles - 1, NEW k \in 1 .. Len(LogFiles[i])
      PROVE  LogFiles[i][k] < x /\ LogFiles[i][k] \in Nat
  <2>1. LogFiles[i] \in Seq(Nat) BY <1>6, EntriesNumbers DEF Logs
  <2>2. LogFiles[i][k] \in Nat BY <2>1, ElementOfSeq
  <2>3. LogFiles[i] # <<>> OBVIOUS
  <2>4. written # <<>> BY <2>3 DEF OInv, NothingYet
  <2>5. LogFiles[i][k] <= written[Len(written)] BY <2>4 DEF OInv, UpTo
  <2> HIDE DEF x
  <2> QED BY <1>3, <2>2, <2>4, <2>5
<1>8. /\ Len(file) \in Nat /\ Len(log[0]) = Len(file) + 1 /\ log[0][Len(file) + 1] = x
      /\ \A k \in 1 .. Len(file) : log[0][k] = LogFiles[0][k]
  BY <1>2, <1>3, <1>4, <1>6, AppendProperties, LenProperties
<1>9. 0 \in 0 .. MaxFiles - 1 /\ \A i \in 0 .. MaxFiles - 1 : i # 0 => i \in 1 .. MaxFiles - 1
  OBVIOUS
<1> HIDE DEF log, x
<1>10. \A k \in 1 .. Len(log[0]) : k = Len(file) + 1 \/ k \in 1 .. Len(file) BY <1>8
<1>11. UpTo(log, x)
  <2> SUFFICES ASSUME NEW i \in 0 .. MaxFiles - 1, NEW k \in 1 .. Len(log[i])
               PROVE  log[i][k] <= x
    BY DEF UpTo
  <2>1. CASE i # 0
    <3>1. log[i] = LogFiles[i] BY <1>2, <1>9, <2>1
    <3>2. LogFiles[i][k] < x /\ LogFiles[i][k] \in Nat BY <1>7, <3>1
    <3> QED BY <1>3, <3>1, <3>2
  <2>2. CASE i = 0 /\ k = Len(file) + 1 BY <1>3, <1>8, <2>2
  <2>3. CASE i = 0 /\ k \in 1 .. Len(file)
    <3>1. LogFiles[0][k] < x /\ LogFiles[0][k] \in Nat BY <1>6, <1>7, <1>9, <2>3
    <3> QED BY <1>3, <1>8, <2>3, <3>1
  <2> QED BY <1>10, <2>1, <2>2, <2>3
<1>12. Ordered(log)
  <2> SUFFICES ASSUME NEW i \in 0 .. MaxFiles - 1, NEW j \in 0 .. MaxFiles - 1, i < j,
                      NEW k \in 1 .. Len(log[i]), NEW m \in 1 .. Len(log[j])
               PROVE  log[i][k] > log[j][m]
    BY DEF Ordered
  <2>0. j # 0 OBVIOUS
  <2>1. log[j] = LogFiles[j] BY <1>2, <1>9, <2>0
  <2>2. CASE i # 0
    <3>1. log[i] = LogFiles[i] BY <1>2, <1>9, <2>2
    <3> QED BY <2>1, <3>1 DEF OInv, FilesInOrder
  <2>3. CASE i = 0 /\ k = Len(file) + 1
    <3>1. LogFiles[j][m] < x /\ LogFiles[j][m] \in Nat BY <1>7, <2>1
    <3> QED BY <1>3, <1>8, <2>1, <2>3, <3>1
  <2>4. CASE i = 0 /\ k \in 1 .. Len(file)
    <3>1. k \in 1 .. Len(LogFiles[0]) BY <1>6, <2>4
    <3>2. LogFiles[0][k] > LogFiles[j][m] BY <1>9, <2>1, <2>4, <3>1 DEF OInv, FilesInOrder
    <3> QED BY <1>8, <2>1, <2>4, <3>2
  <2> QED BY <1>10, <2>2, <2>3, <2>4
<1>13. Ordered(LogFiles') /\ UpTo(LogFiles', x)
  <2>1. CASE LogFiles' = log BY <1>11, <1>12, <2>1
  <2>2. ASSUME NEW moved \in SUBSET (0 .. MaxFiles - 1), LogFiles' = Moved(log, moved)
        PROVE  Ordered(LogFiles') /\ UpTo(LogFiles', x)
    <3>1. Ordered(Moved(log, moved)) /\ UpTo(Moved(log, moved), x)
      BY <1>2, <1>3, <1>11, <1>12, MovedOrdered
    <3> QED BY <2>2, <3>1
  <2> QED BY <1>2, <2>1, <2>2
<1>14. FilesInOrder' BY <1>13 DEF Ordered, FilesInOrder
<1>15. UpTo(LogFiles, written[Len(written)])' BY <1>5, <1>13 DEF UpTo
<1> QED BY <1>5, <1>14, <1>15 DEF OInv

\* Files that are moved away or deleted leave the others in order.
LEMMA DeleteOrdered ==
    ASSUME OInv, UNCHANGED written,
           \A i \in 0 .. MaxFiles - 1 : LogFiles'[i] = LogFiles[i] \/ LogFiles'[i] = <<>>
    PROVE  OInv'
<1>1. Len(<<>>) = 0 /\ 1 .. 0 = {} OBVIOUS
<1>2. \A i \in 0 .. MaxFiles - 1 : \A k \in 1 .. Len(LogFiles'[i]) :
        LogFiles'[i] = LogFiles[i] /\ k \in 1 .. Len(LogFiles[i])
  BY <1>1
<1>3. FilesInOrder' BY <1>2 DEF OInv, FilesInOrder
<1>4. (written = <<>> => NothingYet)' BY DEF OInv, NothingYet
<1>5. (written # <<>> => UpTo(LogFiles, written[Len(written)]))' BY <1>2 DEF OInv, UpTo
<1> QED BY <1>3, <1>4, <1>5 DEF OInv

\* Whichever renames fail and whatever the rotator deletes, the files are in order, the
\* newest entries in the log, for any number of files.
THEOREM LoggerKeepsOrder == Spec => []FilesInOrder
<1> USE LoggerAssumption
<1>1. ASSUME Init PROVE OInv
  <2>1. written = <<>> /\ file = <<>> /\ backups = [i \in 1 .. MaxFiles - 1 |-> <<>>]
    BY <1>1 DEF Init
  <2>2. \A i \in 0 .. MaxFiles - 1 : i # 0 => i \in 1 .. MaxFiles - 1 OBVIOUS
  <2>3. NothingYet BY <2>1, <2>2 DEF NothingYet, LogFiles
  <2>4. Len(<<>>) = 0 /\ 1 .. 0 = {} OBVIOUS
  <2>5. FilesInOrder BY <2>3, <2>4 DEF FilesInOrder, NothingYet
  <2> QED BY <2>1, <2>3, <2>5 DEF OInv
<1>2. ASSUME TInv, AInv, OInv, [Next]_vars PROVE OInv'
  <2>1. CASE WriterWrites BY <1>2, <2>1, WriteOrdered
  <2>2. CASE UNCHANGED <<file, backups, written>>
    BY <1>2, <2>2, DeleteOrdered DEF LogFiles
  <2>3. CASE RotateArchive
    <3>1. /\ file' \in {file, <<>>} /\ written' = written
          /\ \E old \in SUBSET (1 .. MaxFiles - 1) :
                backups' = [i \in 1 .. MaxFiles - 1 |-> IF i \in old THEN <<>> ELSE backups[i]]
      BY <2>3 DEF RotateArchive
    <3>2. \A i \in 1 .. MaxFiles - 1 : backups'[i] = backups[i] \/ backups'[i] = <<>>
      BY <3>1
    <3>3. \A i \in 0 .. MaxFiles - 1 : i # 0 => i \in 1 .. MaxFiles - 1 OBVIOUS
    <3>4. \A i \in 0 .. MaxFiles - 1 : LogFiles'[i] = LogFiles[i] \/ LogFiles'[i] = <<>>
      BY <3>1, <3>2, <3>3 DEF LogFiles
    <3> QED BY <1>2, <3>1, <3>4, DeleteOrdered
  <2>4. WriterWrites \/ RotateArchive \/ UNCHANGED <<file, backups, written>>
    BY <1>2 DEF Next, Writer, Shutdown, Rotator, vars, fileVars, Log, Notify, WriterLoop,
       WriterLock, WriterTakes, WriterTests, WriterWaits, WriterFile, WriterFetches,
       WriterStores, WriterEnds, ShutdownFlag, ShutdownNotify, ShutdownJoin,
       ShutdownClose, RotateClose, RotateOpen, RotateFetches, RotateStores
  <2> QED BY <2>1, <2>2, <2>3, <2>4
<1>3. OInv => FilesInOrder BY DEF OInv
<1> QED BY <1>1, <1>2, <1>3, LoggerTyped, AccountsInductive, PTL DEF Spec

-----------------------------------------------------------------------------
(* What get_logs returns.                                                   *)

\* Remainders of numbers less than R apart differ; those of numbers a multiple
\* of R apart are equal.
LEMMA Multiple ==
    ASSUME NEW m \in Int, NEW R \in Int, m >= 1, R >= 1 PROVE m * R >= R
OBVIOUS

\* Quotient and remainder.
LEMMA Division ==
    ASSUME NEW a \in Int, NEW R \in Nat \ {0}
    PROVE  /\ a % R \in 0 .. R - 1 /\ a \div R \in Int
           /\ a = R * (a \div R) + (a % R)
OBVIOUS

\* Multiples of R are at least R apart.
LEMMA Apart ==
    ASSUME NEW x \in Int, NEW y \in Int, NEW R \in Nat \ {0}, x > y
    PROVE  R * x - R * y >= R
<1>1. (x - y) * R >= R BY Multiple
<1>2. R * x - R * y = (x - y) * R OBVIOUS
<1> QED BY <1>1, <1>2

\* Two of any R entries in a row have different slots.
LEMMA RemaindersDiffer ==
    ASSUME NEW a \in Int, NEW b \in Int, NEW R \in Nat \ {0}, a < b, b - a < R
    PROVE  a % R # b % R
<1> DEFINE p == a \div R  q == b \div R  r == a % R  s == b % R
<1>1. p \in Int /\ q \in Int /\ r \in 0 .. R - 1 /\ s \in 0 .. R - 1
      /\ a = R * p + r /\ b = R * q + s
  BY Division
<1> HIDE DEF p, q, r, s
<1>2. q > p => R * q - R * p >= R BY <1>1, Apart
<1>3. p > q => R * p - R * q >= R BY <1>1, Apart
<1>4. R * p \in Int /\ R * q \in Int BY <1>1
<1>5. ASSUME r = s PROVE FALSE
  <2>1. R * q - R * p = b - a BY <1>1, <1>4, <1>5
  <2>2. CASE q > p BY <1>2, <1>4, <2>1, <2>2
  <2>3. CASE p > q BY <1>3, <1>4, <2>1, <2>3
  <2>4. CASE p = q BY <1>4, <2>1, <2>4
  <2> QED BY <1>1, <2>2, <2>3, <2>4
<1> QED BY <1>5 DEF r, s

\* Entries a multiple of R apart share a slot.
LEMMA RemaindersEqual ==
    ASSUME NEW a \in Int, NEW b \in Int, NEW R \in Nat \ {0}, NEW m \in Int,
           a = b + R * m
    PROVE  a % R = b % R
<1> DEFINE p == a \div R  q == b \div R  r == a % R  s == b % R
<1>1. p \in Int /\ q \in Int /\ r \in 0 .. R - 1 /\ s \in 0 .. R - 1
      /\ a = R * p + r /\ b = R * q + s
  BY Division
<1> HIDE DEF p, q, r, s
<1>2. R * (q + m) = R * q + R * m /\ R * p \in Int /\ R * (q + m) \in Int BY <1>1
<1>3. R * p + r = R * (q + m) + s BY <1>1, <1>2
<1>4. p > q + m => R * p - R * (q + m) >= R BY <1>1, Apart
<1>5. q + m > p => R * (q + m) - R * p >= R BY <1>1, Apart
<1>6. p = q + m BY <1>1, <1>2, <1>3, <1>4, <1>5
<1>7. r = s BY <1>1, <1>2, <1>3, <1>6
<1> QED BY <1>7 DEF r, s

\* What an adder between fetching and storing has to store.
Storing(a) == IF a = "writer" THEN writer = "store" ELSE rotator = "store"
Pending(a) == IF a = "writer" THEN Head(batch) ELSE -rotations

\* Of the last RingSize entries each is in its slot or about to be stored there.
InSlots ==
    /\ slot["writer"] = slot["rotator"] => slot["writer"] = -1
    /\ \A j \in 0 .. ringIndex - 1 : j >= ringIndex - RingSize =>
          /\ \A a \in Adder : slot[a] = j % RingSize => Pending(a) = added[j + 1]
          /\ (\A a \in Adder : slot[a] # j % RingSize) =>
                ring[j % RingSize] = added[j + 1]

GInv ==
    /\ added \in Seq(Int) /\ Len(added) = ringIndex
    /\ \A a \in Adder : slot[a] # -1 <=> Storing(a)
    /\ ~lapped => InSlots

\* Steps that leave the ring alone.
LEMMA RingKept ==
    ASSUME TInv, GInv, UNCHANGED ringVars,
           \A a \in Adder : Storing(a)' = Storing(a) /\ (Storing(a) => Pending(a)' = Pending(a))
    PROVE  GInv'
<1>1. UNCHANGED <<ring, ringIndex, slot, added, lapped>> BY DEF ringVars
<1>2. ASSUME InSlots PROVE InSlots'
  <2>1. ASSUME NEW j \in 0 .. ringIndex - 1, j >= ringIndex - RingSize, NEW a \in Adder,
               slot[a] = j % RingSize
        PROVE  Pending(a)' = added[j + 1]
    <3>1. j % RingSize \in 0 .. RingSize - 1 BY Division, LoggerAssumption
    <3>2. slot[a] # -1 BY <2>1, <3>1, LoggerAssumption
    <3>3. Pending(a) = added[j + 1] BY <1>2, <2>1 DEF InSlots
    <3> QED BY <3>2, <3>3 DEF GInv
  <2> QED BY <1>1, <1>2, <2>1 DEF InSlots
<1> QED BY <1>1, <1>2 DEF GInv

\* fetch_add: the new entry's slot was that of the entry RingSize before, which
\* is no longer among the last.
LEMMA FetchKeeps ==
    ASSUME TInv, GInv, NEW a \in Adder, ~Storing(a), FetchSlot(a, Pending(a)),
           Pending(a) \in Int, Storing(a)',
           \A b \in Adder : Pending(b)' = Pending(b) /\ (b # a => Storing(b)' = Storing(b))
    PROVE  GInv'
<1> DEFINE i == ringIndex % RingSize
<1>1. /\ slot \in [Adder -> -1 .. RingSize - 1] /\ ringIndex \in Nat
      /\ RingSize \in Nat \ {0} /\ lapped \in BOOLEAN
  BY LoggerAssumption DEF TInv, TypeOK
<1>2. i \in 0 .. RingSize - 1 BY <1>1, Division
<1> HIDE DEF i
<1>3. /\ slot' = [slot EXCEPT ![a] = i] /\ ringIndex' = ringIndex + 1
      /\ added' = Append(added, Pending(a)) /\ ring' = ring
      /\ lapped' = (lapped \/ \E b \in Adder : slot[b] = i)
  BY DEF FetchSlot, i
<1>4. slot'[a] = i /\ \A b \in Adder : b # a => slot'[b] = slot[b] BY <1>1, <1>3
<1>5. /\ added' \in Seq(Int) /\ Len(added') = ringIndex + 1
      /\ added'[ringIndex + 1] = Pending(a)
      /\ \A k \in 1 .. ringIndex : added'[k] = added[k]
  BY <1>3, AppendProperties DEF GInv
<1>6. \A b \in Adder : slot'[b] # -1 <=> Storing(b)' BY <1>2, <1>4 DEF GInv
<1>7. ASSUME ~lapped' PROVE InSlots'
  <2>1. InSlots /\ \A b \in Adder : slot[b] # i BY <1>3, <1>7 DEF GInv
  <2>2. slot'["writer"] # slot'["rotator"] BY <1>4, <2>1 DEF Adder
  <2>3. ASSUME NEW j \in 0 .. ringIndex, j >= ringIndex + 1 - RingSize
        PROVE  /\ \A b \in Adder : slot'[b] = j % RingSize => Pending(b)' = added'[j + 1]
               /\ (\A b \in Adder : slot'[b] # j % RingSize) =>
                     ring'[j % RingSize] = added'[j + 1]
    <3>1. CASE j = ringIndex
      <4>1. j % RingSize = i BY <3>1 DEF i
      <4> QED BY <1>4, <1>5, <2>1, <3>1, <4>1
    <3>2. CASE j # ringIndex
      <4>1. j \in 0 .. ringIndex - 1 /\ j >= ringIndex - RingSize
            /\ j < ringIndex /\ ringIndex - j < RingSize
        BY <1>1, <2>3, <3>2
      <4>2. j % RingSize # i
        <5>1. j \in Int /\ ringIndex \in Int BY <1>1
        <5>2. j % RingSize # ringIndex % RingSize BY <1>1, <4>1, <5>1, RemaindersDiffer
        <5> QED BY <5>2 DEF i
      <4>3. added'[j + 1] = added[j + 1] BY <1>1, <1>5, <4>1
      <4>4. ASSUME NEW b \in Adder, slot'[b] = j % RingSize
            PROVE  Pending(b)' = added'[j + 1]
        <5>1. b # a /\ slot[b] = j % RingSize BY <1>4, <4>2, <4>4
        <5> QED BY <2>1, <4>1, <4>3, <5>1 DEF InSlots
      <4>5. ASSUME \A b \in Adder : slot'[b] # j % RingSize
            PROVE  ring'[j % RingSize] = added'[j + 1]
        <5>1. slot[a] # j % RingSize
          <6>1. slot[a] = -1 BY DEF GInv
          <6>2. j % RingSize \in 0 .. RingSize - 1 BY <1>1, <4>1, Division
          <6> QED BY <1>1, <6>1, <6>2
        <5>2. \A b \in Adder : slot[b] # j % RingSize BY <1>4, <4>5, <5>1
        <5> QED BY <1>3, <2>1, <4>1, <4>3, <5>2 DEF InSlots
      <4> QED BY <4>4, <4>5
    <3> QED BY <3>1, <3>2
  <2>4. ringIndex' - 1 = ringIndex /\ ringIndex' - RingSize = ringIndex + 1 - RingSize
    BY <1>1, <1>3
  <2> QED BY <2>2, <2>3, <2>4 DEF InSlots
<1> QED BY <1>3, <1>5, <1>6, <1>7 DEF GInv

\* The store: the slot was fetched for the last entry that belongs in it.
LEMMA StoreKeeps ==
    ASSUME TInv, GInv, NEW a \in Adder, Storing(a), StoreSlot(a, Pending(a)),
           ~Storing(a)',
           \A b \in Adder : b # a => Pending(b)' = Pending(b) /\ Storing(b)' = Storing(b)
    PROVE  GInv'
<1>1. /\ slot \in [Adder -> -1 .. RingSize - 1] /\ ringIndex \in Nat
      /\ RingSize \in Nat \ {0} /\ ring \in [0 .. RingSize - 1 -> Int]
  BY LoggerAssumption DEF TInv, TypeOK
<1>2. /\ ring' = [ring EXCEPT ![slot[a]] = Pending(a)] /\ slot' = [slot EXCEPT ![a] = -1]
      /\ UNCHANGED <<ringIndex, added, lapped>>
  BY DEF StoreSlot
<1>3. slot'[a] = -1 /\ \A b \in Adder : b # a => slot'[b] = slot[b] BY <1>1, <1>2
<1>4. slot[a] # -1 BY DEF GInv
<1>5. \A b \in Adder : slot'[b] # -1 <=> Storing(b)' BY <1>3 DEF GInv
<1>6. ASSUME ~lapped PROVE InSlots'
  <2>1. InSlots BY <1>6 DEF GInv
  <2>2. \A b \in Adder : b # a => slot[b] # slot[a]
    <3>1. \A b \in Adder : b = "writer" \/ b = "rotator" BY DEF Adder
    <3> QED BY <1>4, <2>1, <3>1 DEF InSlots
  <2>3. slot'["writer"] = slot'["rotator"] => slot'["writer"] = -1
    <3>1. a = "writer" \/ a = "rotator" BY DEF Adder
    <3>2. "writer" \in Adder /\ "rotator" \in Adder BY DEF Adder
    <3> QED BY <1>3, <3>1, <3>2
  <2>4. ASSUME NEW j \in 0 .. ringIndex - 1, j >= ringIndex - RingSize
        PROVE  /\ \A b \in Adder : slot'[b] = j % RingSize => Pending(b)' = added[j + 1]
               /\ (\A b \in Adder : slot'[b] # j % RingSize) =>
                     ring'[j % RingSize] = added[j + 1]
    <3>1. j % RingSize \in 0 .. RingSize - 1 BY <1>1, Division
    <3>2. ASSUME NEW b \in Adder, slot'[b] = j % RingSize
          PROVE  Pending(b)' = added[j + 1]
      <4>1. b # a BY <1>1, <1>3, <3>1, <3>2
      <4> QED BY <1>3, <2>1, <2>4, <3>2, <4>1 DEF InSlots
    <3>3. ASSUME \A b \in Adder : slot'[b] # j % RingSize
          PROVE  ring'[j % RingSize] = added[j + 1]
      <4>1. CASE slot[a] = j % RingSize
        <5>1. Pending(a) = added[j + 1] BY <2>1, <2>4, <4>1 DEF InSlots
        <5> QED BY <1>1, <1>2, <3>1, <4>1, <5>1
      <4>2. CASE slot[a] # j % RingSize
        <5>1. \A b \in Adder : slot[b] # j % RingSize BY <1>3, <3>3, <4>2
        <5>2. ring[j % RingSize] = added[j + 1] BY <2>1, <2>4, <5>1 DEF InSlots
        <5> QED BY <1>1, <1>2, <3>1, <4>2, <5>2
      <4> QED BY <4>1, <4>2
    <3> QED BY <3>2, <3>3
  <2> QED BY <1>2, <2>3, <2>4 DEF InSlots
<1> QED BY <1>2, <1>5, <1>6 DEF GInv

\* Every step keeps the ring and its history in agreement.
LEMMA StepRing ==
    ASSUME TInv, GInv, [Next]_vars PROVE GInv'
<1>1. /\ "writer" \in Adder /\ "rotator" \in Adder
      /\ \A a \in Adder : a = "writer" \/ a = "rotator"
  BY DEF Adder
<1>2. ASSUME UNCHANGED ringVars,
             (writer = "store") = (writer' = "store"),
             (rotator = "store") = (rotator' = "store"),
             writer = "store" => batch' = batch,
             rotator = "store" => rotations' = rotations
      PROVE  GInv'
  BY <1>1, <1>2, RingKept DEF Storing, Pending
<1>3. ASSUME NEW t \in Caller, Log(t) \/ Notify(t) PROVE GInv'
  BY <1>2, <1>3 DEF Log, Notify, Wake, ringVars
<1>4. CASE WriterLoop \/ WriterLock \/ WriterTakes \/ WriterTests \/ WriterWaits
  <2>1. /\ UNCHANGED <<ringVars, rotator, rotations>>
        /\ writer # "store" /\ writer' # "store"
    BY <1>4 DEF WriterLoop, WriterLock, WriterTakes, WriterTests, WriterWaits
  <2> QED BY <1>2, <2>1
<1>5. CASE WriterFile \/ WriterWrites \/ WriterEnds
  <2>1. /\ UNCHANGED <<ringVars, rotator, rotations>>
        /\ writer # "store" /\ writer' # "store"
    BY <1>5 DEF WriterFile, WriterWrites, WriterEnds
  <2> QED BY <1>2, <2>1
<1>6. CASE ShutdownFlag \/ Shutdown
  <2>1. /\ UNCHANGED <<ringVars, rotator, rotations, batch>>
        /\ writer' = writer \/ (writer = "wait" /\ writer' = "lock")
    BY <1>6 DEF ShutdownFlag, Shutdown, ShutdownNotify, ShutdownJoin, ShutdownClose, Wake
  <2> QED BY <1>2, <2>1
<1>7. CASE RotateClose \/ RotateArchive \/ RotateOpen
  <2>1. /\ UNCHANGED <<ringVars, writer, batch>>
        /\ rotator # "store" /\ rotator' # "store"
    BY <1>7 DEF RotateClose, RotateArchive, RotateOpen
  <2> QED BY <1>2, <2>1
<1>8. CASE WriterFetches
  <2>1. /\ FetchSlot("writer", Head(batch)) /\ writer = "ring" /\ writer' = "store"
        /\ UNCHANGED <<batch, rotator, rotations>>
    BY <1>8 DEF WriterFetches
  <2>2. Head(batch) \in Int
    <3>1. batch \in Seq(Nat) /\ batch # <<>>
      BY <2>1, EntriesNumbers DEF TInv, TypeOK, HasEntry, Entries
    <3> QED BY <3>1, HeadTailProperties
  <2> QED BY <1>1, <2>1, <2>2, FetchKeeps DEF Storing, Pending
<1>9. CASE WriterStores
  <2>1. /\ StoreSlot("writer", Head(batch)) /\ writer = "store" /\ writer' # "store"
        /\ UNCHANGED <<rotator, rotations>>
    BY <1>9 DEF WriterStores
  <2> QED BY <1>1, <2>1, StoreKeeps DEF Storing, Pending
<1>10. CASE RotateFetches
  <2>1. /\ FetchSlot("rotator", -rotations) /\ rotator = "ring" /\ rotator' = "store"
        /\ UNCHANGED <<batch, writer, rotations>>
    BY <1>10 DEF RotateFetches
  <2>2. -rotations \in Int BY DEF TInv, TypeOK
  <2> QED BY <1>1, <2>1, <2>2, FetchKeeps DEF Storing, Pending
<1>11. CASE RotateStores
  <2>1. /\ StoreSlot("rotator", -rotations) /\ rotator = "store" /\ rotator' = "sleep"
        /\ UNCHANGED <<batch, writer, rotations>>
    BY <1>11 DEF RotateStores
  <2> QED BY <1>1, <2>1, StoreKeeps DEF Storing, Pending
<1>12. CASE UNCHANGED vars BY <1>2, <1>12 DEF vars
<1> QED BY <1>3, <1>4, <1>5, <1>6, <1>7, <1>8, <1>9, <1>10, <1>11, <1>12
           DEF Next, Writer, Rotator

\* Of the last RingSize entries each is in its slot of the ring or about to be
\* stored there, unless the ring was lapped between a fetch and its store.
THEOREM RingInductive == Spec => []GInv
<1>1. ASSUME Init PROVE GInv
  <2>1. /\ added = <<>> /\ ringIndex = 0 /\ slot = [a \in Adder |-> -1]
        /\ writer = "loop" /\ rotator = "sleep"
    BY <1>1 DEF Init
  <2>2. <<>> \in Seq(Int) /\ Len(<<>>) = 0 BY EmptySeq
  <2>3. \A a \in Adder : slot[a] # -1 <=> Storing(a) BY <2>1 DEF Storing
  <2>4. InSlots BY <2>1 DEF InSlots, Adder
  <2> QED BY <2>1, <2>2, <2>3, <2>4 DEF GInv
<1> QED BY <1>1, StepRing, LoggerTyped, PTL DEF Spec

\* The k-th entry returned is read from the slot of the k-th of the last n,
\* whether or not the ring has wrapped.
LEMMA RecentSlot ==
    ASSUME NEW L \in Nat, NEW R \in Nat \ {0}, NEW n \in Nat, NEW k \in 1 .. n,
           n <= L, n <= R
    PROVE  LET total == IF L < R THEN L ELSE R
               wrap  == IF L < R THEN 0 ELSE L % R
           IN  (wrap + total - n + k - 1) % R = (L - n + k - 1) % R
<1>1. CASE L < R
  <2>1. 0 + L - n + k - 1 = L - n + k - 1 OBVIOUS
  <2> QED BY <1>1, <2>1
<1>2. CASE ~(L < R)
  <2> DEFINE q == L \div R  r == L % R
  <2>1. q \in Int /\ r \in Int /\ L = R * q + r BY Division
  <2> HIDE DEF q, r
  <2>2. R * (q - 1) = R * q - R /\ R * q \in Int BY <2>1
  <2>3. L - n + k - 1 = (r + R - n + k - 1) + R * (q - 1) BY <2>1, <2>2
  <2>4. r + R - n + k - 1 \in Int /\ L - n + k - 1 \in Int /\ q - 1 \in Int BY <2>1
  <2>5. (L - n + k - 1) % R = (r + R - n + k - 1) % R
    BY <2>3, <2>4, RemaindersEqual
  <2> QED BY <1>2, <2>5 DEF r
<1> QED BY <1>1, <1>2

\* get_logs returns exactly the last entries in their order, for every size and
\* fill of the ring and every count asked for, while no entry is being added.
THEOREM RecentExact == Spec => []RecentIsLast
<1>1. ASSUME TInv, GInv PROVE RecentIsLast
  <2> SUFFICES ASSUME ~lapped, \A a \in Adder : slot[a] = -1,
                      NEW max \in 0 .. RingSize + 1
               PROVE  LET n == Len(GetRecentEntries(max)) IN
                      /\ n = IF Len(added) <= max /\ Len(added) <= RingSize THEN Len(added)
                             ELSE IF max <= RingSize THEN max ELSE RingSize
                      /\ GetRecentEntries(max)
                           = SubSeq(added, Len(added) - n + 1, Len(added))
    BY DEF RecentIsLast
  <2> DEFINE L == ringIndex
             total == IF L < RingSize THEN L ELSE RingSize
             wrap == IF L < RingSize THEN 0 ELSE L % RingSize
             m == IF total > max THEN max ELSE total
             G == [k \in 1 .. m |-> ring[(wrap + total - m + k - 1) % RingSize]]
  <2>1. /\ L \in Nat /\ RingSize \in Nat \ {0} /\ added \in Seq(Int) /\ Len(added) = L
    BY <1>1, LoggerAssumption DEF TInv, TypeOK, GInv
  <2>2. /\ m \in Nat /\ m <= L /\ m <= RingSize
        /\ m = IF L <= max /\ L <= RingSize THEN L
               ELSE IF max <= RingSize THEN max ELSE RingSize
    BY <2>1
  <2>3. GetRecentEntries(max) = G BY DEF GetRecentEntries
  <2>4. ASSUME NEW k \in 1 .. m
        PROVE  /\ ring[(wrap + total - m + k - 1) % RingSize] = added[L - m + k]
               /\ added[L - m + k] \in Int
    <3> DEFINE j == L - m + k - 1
    <3>1. (wrap + total - m + k - 1) % RingSize = j % RingSize
      BY <2>1, <2>2, RecentSlot
    <3>2. j \in 0 .. L - 1 /\ j >= L - RingSize /\ j + 1 = L - m + k
          /\ L - m + k \in 1 .. L
      BY <2>1, <2>2
    <3>3. j % RingSize \in 0 .. RingSize - 1
      <4>1. j \in Int BY <2>1, <2>2
      <4> HIDE DEF j
      <4> QED BY <2>1, <4>1, Division
    <3> HIDE DEF j
    <3>4. \A a \in Adder : slot[a] # j % RingSize BY <2>1, <3>3
    <3>5. ring[j % RingSize] = added[j + 1] BY <1>1, <3>2, <3>4 DEF GInv, InSlots
    <3>6. added[L - m + k] \in Int BY <2>1, <3>2, ElementOfSeq
    <3> QED BY <3>1, <3>2, <3>5, <3>6
  <2> HIDE DEF m, total, wrap
  <2>5. G \in [1 .. m -> Int] BY <2>4
  <2>6. G \in Seq(Int) BY <2>2, <2>5, SeqDef
  <2>7. Len(G) = m BY <2>2, <2>5
  <2> DEFINE S == SubSeq(added, L - m + 1, L)
  <2>8. /\ S \in Seq(Int) /\ Len(S) = m
        /\ \A k \in 1 .. m : S[k] = added[(L - m + 1) + k - 1]
    <3>1. \A k \in L - m + 1 .. L : added[k] \in Int BY <2>1, <2>2, ElementOfSeq
    <3>2. L - m + 1 \in Int /\ L \in Int /\ L - (L - m + 1) + 1 = m BY <2>1, <2>2
    <3>3. (IF L - m + 1 <= L THEN L - (L - m + 1) + 1 ELSE 0) = m BY <2>1, <2>2
    <3> HIDE DEF L
    <3> QED BY <3>1, <3>2, <3>3, SubSeqProperties
  <2>9. \A k \in 1 .. m : G[k] = S[k]
    <3> SUFFICES ASSUME NEW k \in 1 .. m PROVE G[k] = S[k] OBVIOUS
    <3>1. G[k] = added[L - m + k] BY <2>4
    <3>2. S[k] = added[(L - m + 1) + k - 1] BY <2>8
    <3>3. (L - m + 1) + k - 1 = L - m + k BY <2>1, <2>2
    <3> HIDE DEF G, S
    <3> QED BY <3>1, <3>2, <3>3
  <2> HIDE DEF G, S
  <2>10. G = S BY <2>6, <2>7, <2>8, <2>9, SeqEqual
  <2> QED BY <2>1, <2>2, <2>3, <2>7, <2>10 DEF S
<1> QED BY <1>1, RingInductive, LoggerTyped, PTL
=============================================================================
