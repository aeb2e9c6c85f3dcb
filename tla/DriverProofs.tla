---------------------------- MODULE DriverProofs ----------------------------
(***************************************************************************)
(* Proofs about Driver, for any number of connections, programs, rules and *)
(* loads, and any capacity of the queue and of a batch.                    *)
(***************************************************************************)
EXTENDS Driver, SequenceTheorems, FiniteSetTheorems, WellFoundedInduction, TLAPS

\* Requests and callouts run only in a loaded driver (it is unloaded when none
\* does), and a request that adds rules has some left to add.
Running ==
    /\ \A u \in User : user[u] # "idle" => loaded = TRUE
    /\ \A c \in Conn : pc[c] \notin {"new", "done"} => loaded = TRUE
    /\ \A u \in User : user[u] = "add" => todo[u] # <<>>

\* What GET_STATS has read agrees with what it has still to read.
StatsSoFar ==
    \A u \in User :
        /\ user[u] = "stats2" => stats[u]["pending"] <= total + 1
        /\ user[u] \in {"stats3", "answer"} => stats[u]["pending"] <= stats[u]["total"] + 1

CInv == TypeOK /\ CountersExact /\ Running /\ StatsSoFar

-----------------------------------------------------------------------------
(* Sequences                                                                *)

\* The two halves of a sequence that is cut after k elements.
LEMMA Cut ==
    ASSUME NEW S, NEW s \in Seq(S), NEW k \in 0 .. Len(s)
    PROVE  /\ SubSeq(s, 1, k) \in Seq(S) /\ Len(SubSeq(s, 1, k)) = k
           /\ \A i \in 1 .. k : SubSeq(s, 1, k)[i] = s[i]
           /\ SubSeq(s, k + 1, Len(s)) \in Seq(S)
           /\ Len(SubSeq(s, k + 1, Len(s))) = Len(s) - k
           /\ \A i \in 1 .. Len(s) - k : SubSeq(s, k + 1, Len(s))[i] = s[k + i]
<1>0. Len(s) \in Nat /\ k \in Nat /\ k <= Len(s) BY LenProperties
<1>1. \A i \in 1 .. Len(s) : s[i] \in S BY ElementOfSeq
<1>2. /\ SubSeq(s, 1, k) \in Seq(S)
      /\ Len(SubSeq(s, 1, k)) = IF 1 <= k THEN k - 1 + 1 ELSE 0
      /\ \A i \in 1 .. k - 1 + 1 : SubSeq(s, 1, k)[i] = s[1 + i - 1]
  <2>1. 1 \in Int /\ k \in Int /\ \A i \in 1 .. k : s[i] \in S BY <1>0, <1>1
  <2> QED BY <2>1, SubSeqProperties
<1>3. /\ SubSeq(s, k + 1, Len(s)) \in Seq(S)
      /\ Len(SubSeq(s, k + 1, Len(s))) = IF k + 1 <= Len(s) THEN Len(s) - (k + 1) + 1 ELSE 0
      /\ \A i \in 1 .. Len(s) - (k + 1) + 1 :
            SubSeq(s, k + 1, Len(s))[i] = s[k + 1 + i - 1]
  <2>1. k + 1 \in Int /\ Len(s) \in Int /\ \A i \in k + 1 .. Len(s) : s[i] \in S
    BY <1>0, <1>1
  <2> QED BY <2>1, SubSeqProperties
<1>4. \A i \in 1 .. k : SubSeq(s, 1, k)[i] = s[i]
  <2> TAKE i \in 1 .. k
  <2>1. i \in 1 .. k - 1 + 1 /\ 1 + i - 1 = i BY <1>0
  <2> QED BY <1>2, <2>1
<1>5. \A i \in 1 .. Len(s) - k : SubSeq(s, k + 1, Len(s))[i] = s[k + i]
  <2> TAKE i \in 1 .. Len(s) - k
  <2>1. i \in 1 .. Len(s) - (k + 1) + 1 /\ k + 1 + i - 1 = k + i BY <1>0
  <2> QED BY <1>3, <2>1
<1>6. Len(SubSeq(s, 1, k)) = k /\ Len(SubSeq(s, k + 1, Len(s))) = Len(s) - k
  BY <1>0, <1>2, <1>3
<1> QED BY <1>2, <1>3, <1>4, <1>5, <1>6

-----------------------------------------------------------------------------
(* Types and counters                                                       *)

\* A callout outside the last step of Enqueue neither takes nor releases QueueLock.
LEMMA LockKept ==
    ASSUME CInv, NEW c \in Conn, NEW w, pc' = [pc EXCEPT ![c] = w], w # "count",
           pc[c] # "count"
    PROVE  QueueLockFree' = QueueLockFree
<1>1. \A d \in Conn : pc'[d] = "count" <=> pc[d] = "count" BY DEF CInv, TypeOK
<1> QED BY <1>1 DEF QueueLockFree

\* The steps of the callout.
LEMMA CalloutTyped ==
    ASSUME CInv, NEW c \in Conn, Callout(c)
    PROVE  CInv'
<1> USE DriverAssumption
<1>1. CASE Classify(c) \/ IdentifyFails(c) \/ ClassifyMatch(c) \/ AcquireFails(c)
  <2>1. PICK w \in {"match", "acquire", "done"} : pc' = [pc EXCEPT ![c] = w]
    BY <1>1 DEF Classify, IdentifyFails, ClassifyMatch, AcquireFails, Permit
  <2>2. /\ UNCHANGED <<driverVars, queueVars, ruleVars, proc, redirectId, redirected,
                       userVars, memory, handed, refused>>
        /\ loaded = TRUE /\ pc[c] # "count"
    BY <1>1 DEF Classify, IdentifyFails, ClassifyMatch, AcquireFails, CInv, Running, TypeOK
  <2>3. known' \in [Conn -> SUBSET Identity]
    <3>1. UNCHANGED known \/ \E k \in SUBSET Identity : known' = [known EXCEPT ![c] = k]
      BY <1>1 DEF Classify, IdentifyFails, ClassifyMatch, AcquireFails, Permit
    <3> QED BY <3>1 DEF CInv, TypeOK
  <2>4. pc' \in [Conn -> {"new", "match", "acquire", "enqueue", "count", "apply", "done"}]
    BY <2>1 DEF CInv, TypeOK
  <2>5. TypeOK'
    BY <2>2, <2>3, <2>4 DEF CInv, TypeOK, driverVars, queueVars, ruleVars, userVars
  <2>6. QueueLockFree' = QueueLockFree BY <2>1, <2>2, LockKept
  <2>7. CountersExact' /\ StatsSoFar'
    BY <2>2, <2>6 DEF CInv, CountersExact, StatsSoFar, queueVars, ruleVars, userVars
  <2>8. Running' BY <2>2 DEF CInv, Running, driverVars, userVars
  <2> QED BY <2>5, <2>7, <2>8 DEF CInv
<1>2. CASE Prepare(c) \/ ApplyModifiedLayerData(c)
  <2>1. PICK w \in {"enqueue", "done"} : pc' = [pc EXCEPT ![c] = w]
    BY <1>2 DEF Prepare, ApplyModifiedLayerData
  <2>2. /\ UNCHANGED <<driverVars, queueVars, ruleVars, proc, known, redirectId, userVars,
                       handed, refused>>
        /\ loaded = TRUE /\ pc[c] # "count"
    BY <1>2 DEF Prepare, ApplyModifiedLayerData, CInv, Running
  <2>3. memory' \in [Conn -> {"none", "held", "freed"}]
    BY <1>2 DEF Prepare, ApplyModifiedLayerData, CInv, TypeOK
  <2>4. redirected' \in [Conn -> BOOLEAN]
    BY <1>2 DEF Prepare, ApplyModifiedLayerData, CInv, TypeOK
  <2>5. pc' \in [Conn -> {"new", "match", "acquire", "enqueue", "count", "apply", "done"}]
    BY <2>1 DEF CInv, TypeOK
  <2>6. TypeOK'
    BY <2>2, <2>3, <2>4, <2>5 DEF CInv, TypeOK, driverVars, queueVars, ruleVars, userVars
  <2>7. QueueLockFree' = QueueLockFree BY <2>1, <2>2, LockKept
  <2>8. CountersExact' /\ StatsSoFar'
    BY <2>2, <2>7 DEF CInv, CountersExact, StatsSoFar, queueVars, ruleVars, userVars
  <2>9. Running' BY <2>2 DEF CInv, Running, driverVars, userVars
  <2> QED BY <2>6, <2>8, <2>9 DEF CInv
<1>3. CASE Enqueue(c)
  <2>1. /\ queue' \in Seq(Conn) /\ Len(queue') = Len(queue) + 1
        /\ queueCount' \in 0 .. QueueMaxCount /\ queueCount' = queueCount + 1
        /\ nextId' \in Nat /\ redirectId' \in [Conn -> Nat]
        /\ pc' \in [Conn -> {"new", "match", "acquire", "enqueue", "count", "apply", "done"}]
    BY <1>3 DEF Enqueue, CInv, TypeOK, CountersExact
  <2>2. TypeOK'
    BY <1>3, <2>1 DEF Enqueue, CInv, TypeOK, driverVars, ruleVars, userVars
  <2>3. QueueLockFree /\ ~QueueLockFree'
    BY <1>3 DEF Enqueue, CInv, TypeOK, QueueLockFree
  <2>4. CountersExact'
    BY <1>3, <2>1, <2>3 DEF Enqueue, CInv, TypeOK, CountersExact, QueueLockFree, calloutVars, ruleVars
  <2>5. StatsSoFar' BY <1>3 DEF Enqueue, CInv, StatsSoFar, userVars
  <2>6. Running' BY <1>3 DEF Enqueue, CInv, Running, driverVars, userVars
  <2> QED BY <2>2, <2>4, <2>5, <2>6 DEF CInv
<1>5. CASE CountRedirect(c)
  <2>1. /\ total' = total + 1 /\ total \in Nat /\ event' \in BOOLEAN
        /\ pc' \in [Conn -> {"new", "match", "acquire", "enqueue", "count", "apply", "done"}]
    BY <1>5 DEF CountRedirect, CInv, TypeOK
  <2>2. TypeOK'
    BY <1>5, <2>1 DEF CountRedirect, CInv, TypeOK, driverVars, ruleVars, userVars
  <2>3. CountersExact'
    BY <1>5, <2>1 DEF CountRedirect, CInv, TypeOK, CountersExact, QueueLockFree, calloutVars, ruleVars
  <2>4. StatsSoFar'
    BY <1>5, <2>1 DEF CountRedirect, CInv, TypeOK, StatsSoFar, Counters, userVars
  <2>5. Running' BY <1>5 DEF CountRedirect, CInv, Running, driverVars, userVars
  <2> QED BY <2>2, <2>3, <2>4, <2>5 DEF CInv
<1>4. CASE EnqueueFull(c)
  <2>1. TypeOK'
    BY <1>4 DEF EnqueueFull, CInv, TypeOK, driverVars, ruleVars, userVars
  <2>4. QueueLockFree' = QueueLockFree BY <1>4, LockKept DEF EnqueueFull
  <2>2. CountersExact' /\ StatsSoFar'
    BY <1>4, <2>4 DEF EnqueueFull, CInv, CountersExact, StatsSoFar, ruleVars, userVars
  <2>3. Running' BY <1>4 DEF EnqueueFull, CInv, Running, driverVars, userVars
  <2> QED BY <2>1, <2>2, <2>3 DEF CInv
<1> QED BY <1>1, <1>2, <1>3, <1>4, <1>5 DEF Callout

\* Loading, also when it fails, and unloading reset both lists and their counters.
LEMMA EntryTyped ==
    ASSUME CInv, DriverEntry \/ DriverEntryFails \/ DriverUnload
    PROVE  CInv'
<1> USE DriverAssumption
<1>1. held' \subseteq Elements(Steps)
  <2>1. CASE DriverEntry BY <2>1 DEF DriverEntry
  <2>2. CASE DriverUnload BY <2>2 DEF DriverUnload
  <2>3. CASE DriverEntryFails
    <3>1. PICK i \in 1 .. Len(Steps) :
            held' = (held \cup {Steps[j] : j \in 1 .. i - 1}) \ Undo(Steps[i])
      BY <2>3 DEF DriverEntryFails
    <3>2. Len(Steps) = 5 BY DEF Steps
    <3>3. {Steps[j] : j \in 1 .. i - 1} \subseteq Elements(Steps) BY <3>2 DEF Elements
    <3> QED BY <3>1, <3>3 DEF CInv, TypeOK
  <2> QED BY <2>1, <2>2, <2>3
<1>2. loads' \in 0 .. MaxLoads
  BY DEF DriverEntry, DriverEntryFails, DriverUnload, CInv, TypeOK
<1>0. loaded' \in BOOLEAN /\ filtering' \in BOOLEAN
  BY Zenon DEF DriverEntry, DriverEntryFails, DriverUnload, CInv, TypeOK
<1>3. /\ queue' = <<>> /\ queueCount' = 0 /\ rules' = <<>> /\ rulesCount' = 0
      /\ nextId' \in Nat /\ total' \in Nat /\ failed' \in Nat
  BY DEF DriverEntry, DriverEntryFails, DriverUnload, CInv, TypeOK,
         InitializeService, CleanupService
<1>4. event' \in BOOLEAN
  BY DEF DriverEntry, DriverEntryFails, DriverUnload, CInv, TypeOK, InitializeService
<1>5. memory' \in [Conn -> {"none", "held", "freed"}]
  BY DEF DriverEntry, DriverEntryFails, DriverUnload, CInv, TypeOK, CleanupService
<1>6. UNCHANGED <<overlapped, calloutVars, userVars, handed, refused>>
  BY DEF DriverEntry, DriverEntryFails, DriverUnload
<1>7. TypeOK'
  <2>1. <<>> \in Seq(Conn) /\ <<>> \in Seq(Rule) OBVIOUS
  <2> QED BY <1>0, <1>1, <1>2, <1>3, <1>4, <1>5, <1>6, <2>1
    DEF CInv, TypeOK, calloutVars, userVars
<1>8. CountersExact'
  <2>1. Len(queue') = 0 /\ Len(rules') = 0 BY <1>3
  <2>4. total' \in Nat /\ QueueMaxCount \in Nat BY <1>3
  <2>5. \A n \in Nat : 0 <= n /\ 0 <= n + 1 OBVIOUS
  <2>2. 0 <= total' /\ 0 <= total' + 1 /\ 0 <= QueueMaxCount BY <2>4, <2>5, Zenon
  <2>3. queueCount' <= IF QueueLockFree' THEN total' ELSE total' + 1
    <3>1. CASE QueueLockFree' BY <1>3, <2>2, <3>1
    <3>2. CASE ~QueueLockFree' BY <1>3, <2>2, <3>2
    <3> QED BY <3>1, <3>2
  <2> QED BY <1>3, <2>1, <2>2, <2>3 DEF CountersExact
<1>9. /\ \A u \in User : user'[u] = "idle"
      /\ \A c \in Conn : pc'[c] \in {"new", "done"}
  BY <1>6 DEF DriverEntry, DriverEntryFails, DriverUnload, CInv, Running, userVars, calloutVars
<1>10. Running' /\ StatsSoFar' BY <1>9 DEF Running, StatsSoFar
<1> QED BY <1>7, <1>8, <1>10 DEF CInv

\* The device requests change a list and its counter together.
LEMMA RequestTyped ==
    ASSUME CInv, NEW u \in User, Request(u)
    PROVE  CInv'
<1> USE DriverAssumption
<1> DEFINE Where == {"idle", "copy", "add", "stats2", "stats3", "answer"}
<1>1. ASSUME NEW n \in 1 .. BatchMax, PeekBatch(u, n) PROVE CInv'
  <2> DEFINE k == IF n <= Len(queue) THEN n ELSE Len(queue)
  <2>1. queue \in Seq(Conn) /\ Len(queue) \in Nat /\ k \in 0 .. Len(queue)
    BY DEF CInv, TypeOK
  <2>2. /\ batch' = [batch EXCEPT ![u] = SubSeq(queue, 1, k)]
        /\ handed' = handed \o batch'[u]
        /\ queue' = SubSeq(queue, k + 1, Len(queue))
        /\ queueCount' = queueCount - k
        /\ user' = [user EXCEPT ![u] = "copy"] /\ loaded
    BY <1>1 DEF PeekBatch
  <2>3. UNCHANGED <<driverVars, nextId, total, failed, event, ruleVars,
                   calloutVars, todo, stats, memory, refused>>
    BY <1>1 DEF PeekBatch
  <2> HIDE DEF k
  <2>4. /\ SubSeq(queue, 1, k) \in Seq(Conn) /\ queue' \in Seq(Conn)
        /\ Len(queue') = Len(queue) - k
    BY <2>1, <2>2, Cut
  <2>5. batch' \in [User -> Seq(Conn)] /\ batch'[u] \in Seq(Conn)
    BY <2>2, <2>4 DEF CInv, TypeOK
  <2>6. handed' \in Seq(Conn) BY <2>2, <2>5 DEF CInv, TypeOK
  <2>7. queueCount' \in 0 .. QueueMaxCount /\ queueCount' = Len(queue')
    BY <2>1, <2>2, <2>4 DEF CInv, TypeOK, CountersExact
  <2>8. user' \in [User -> Where] BY <2>2 DEF CInv, TypeOK
  <2>9. TypeOK'
    BY <2>3, <2>4, <2>5, <2>6, <2>7, <2>8
    DEF CInv, TypeOK, driverVars, ruleVars, calloutVars
  <2>10. CountersExact'
    BY <2>1, <2>2, <2>3, <2>7 DEF CInv, TypeOK, CountersExact, QueueLockFree, calloutVars, ruleVars
  <2>11. Running' /\ StatsSoFar'
    BY <2>2, <2>3 DEF CInv, TypeOK, Running, StatsSoFar, driverVars, calloutVars
  <2> QED BY <2>9, <2>10, <2>11 DEF CInv
<1>2. CASE CopyBatch(u)
  <2>1. /\ memory' \in [Conn -> {"none", "held", "freed"}]
        /\ batch' \in [User -> Seq(Conn)] /\ user' \in [User -> Where]
    BY <1>2 DEF CopyBatch, CInv, TypeOK
  <2>2. UNCHANGED <<driverVars, queueVars, ruleVars, calloutVars, todo, stats,
                   handed, refused>>
    BY <1>2 DEF CopyBatch
  <2>3. TypeOK'
    BY <2>1, <2>2 DEF CInv, TypeOK, driverVars, queueVars, ruleVars, calloutVars
  <2>4. CountersExact' BY <2>2 DEF CInv, CountersExact, QueueLockFree, calloutVars, queueVars, ruleVars
  <2>5. Running' /\ StatsSoFar'
    BY <1>2, <2>2
    DEF CopyBatch, CInv, TypeOK, Running, StatsSoFar, driverVars, calloutVars, queueVars
  <2> QED BY <2>3, <2>4, <2>5 DEF CInv
<1>3. ASSUME NEW i \in 1 .. 3, ReadCounter(u, i) PROVE CInv'
  <2>1. \/ /\ i = 1 /\ user[u] = "idle" /\ user' = [user EXCEPT ![u] = "stats2"]
           /\ stats' = [stats EXCEPT ![u]["pending"] = queueCount]
        \/ /\ i = 2 /\ user[u] = "stats2" /\ user' = [user EXCEPT ![u] = "stats3"]
           /\ stats' = [stats EXCEPT ![u]["total"] = total]
        \/ /\ i = 3 /\ user[u] = "stats3" /\ user' = [user EXCEPT ![u] = "answer"]
           /\ stats' = [stats EXCEPT ![u]["failed"] = failed]
    <3>1. CASE i = 1 BY <1>3, <3>1 DEF ReadCounter, Reading, StatsOrder, Counter
    <3>2. CASE i = 2 BY <1>3, <3>2 DEF ReadCounter, Reading, StatsOrder, Counter
    <3>3. CASE i = 3 BY <1>3, <3>3 DEF ReadCounter, Reading, StatsOrder, Counter
    <3> QED BY <3>1, <3>2, <3>3
  <2>2. UNCHANGED <<driverVars, queueVars, ruleVars, calloutVars, batch, todo, memory,
                   handed, refused>> /\ loaded
    BY <1>3 DEF ReadCounter
  <2>3. user' \in [User -> Where] BY <2>1 DEF CInv, TypeOK
  <2>4. /\ queueCount \in Int /\ total \in Int /\ failed \in Int
        /\ stats[u] \in [Counters -> Int]
        /\ queueCount <= total + 1
    BY DEF CInv, TypeOK, CountersExact
  <2> DEFINE new == CASE i = 1 -> [stats[u] EXCEPT !["pending"] = queueCount]
                      [] i = 2 -> [stats[u] EXCEPT !["total"] = total]
                      [] i = 3 -> [stats[u] EXCEPT !["failed"] = failed]
  <2>10. stats' = [stats EXCEPT ![u] = new] BY <2>1
  <2>11. /\ new \in [Counters -> Int]
         /\ new["pending"] = IF i = 1 THEN queueCount ELSE stats[u]["pending"]
         /\ new["total"] = IF i = 2 THEN total ELSE stats[u]["total"]
    BY <2>4 DEF Counters
  <2> HIDE DEF new
  <2>5. stats' \in [User -> [Counters -> Int]]
    BY <2>10, <2>11 DEF CInv, TypeOK
  <2>6. StatsSoFar'
    <3> SUFFICES ASSUME NEW v \in User
                 PROVE  /\ user'[v] = "stats2" => stats'[v]["pending"] <= total + 1
                        /\ user'[v] \in {"stats3", "answer"} =>
                              stats'[v]["pending"] <= stats'[v]["total"] + 1
      BY <2>2 DEF StatsSoFar, queueVars
    <3>1. CASE v # u BY <2>1, <3>1 DEF CInv, TypeOK, StatsSoFar
    <3>2. CASE v = u
      <4>1. stats'[v] = new BY <2>10, <3>2 DEF CInv, TypeOK
      <4> QED BY <2>1, <2>4, <2>11, <3>2, <4>1 DEF CInv, TypeOK, StatsSoFar
    <3> QED BY <3>1, <3>2
  <2>7. TypeOK'
    BY <2>2, <2>3, <2>5 DEF CInv, TypeOK, driverVars, queueVars, ruleVars, calloutVars
  <2>8. CountersExact' BY <2>2 DEF CInv, CountersExact, QueueLockFree, calloutVars, queueVars, ruleVars
  <2>9. Running'
    BY <2>1, <2>2 DEF CInv, TypeOK, Running, driverVars, calloutVars
  <2> QED BY <2>6, <2>7, <2>8, <2>9 DEF CInv
<1>4. CASE CompleteStats(u)
  <2>1. user' \in [User -> Where] /\ NoStats \in [Counters -> Int]
    BY <1>4 DEF CompleteStats, CInv, TypeOK, NoStats
  <2>2. stats' \in [User -> [Counters -> Int]]
    BY <1>4, <2>1 DEF CompleteStats, CInv, TypeOK
  <2>3. TypeOK'
    BY <1>4, <2>1, <2>2
    DEF CompleteStats, CInv, TypeOK, driverVars, queueVars, ruleVars, calloutVars
  <2>4. CountersExact' BY <1>4 DEF CompleteStats, CInv, CountersExact, QueueLockFree, calloutVars, queueVars, ruleVars
  <2>5. Running' /\ StatsSoFar'
    BY <1>4 DEF CompleteStats, CInv, TypeOK, Running, StatsSoFar, driverVars, calloutVars,
                queueVars
  <2> QED BY <2>3, <2>4, <2>5 DEF CInv
<1>5. CASE ClearRules(u) \/ \E list \in RuleLists : SetRules(u, list)
  <2>1. /\ rules' = <<>> /\ rulesCount' = 0 /\ loaded /\ overlapped' \in BOOLEAN
        /\ UNCHANGED <<driverVars, queueVars, calloutVars, batch, stats, memory, handed, refused>>
    BY <1>5 DEF ClearRules, SetRules, userVars
  <2>2. \/ UNCHANGED <<user, todo>>
        \/ \E list \in RuleLists :
              /\ list # <<>> /\ todo' = [todo EXCEPT ![u] = list]
              /\ user' = [user EXCEPT ![u] = "add"]
    BY <1>5 DEF ClearRules, SetRules, userVars
  <2>3. user' \in [User -> Where] /\ todo' \in [User -> Seq(Rule)]
    BY <2>2 DEF CInv, TypeOK
  <2>4. <<>> \in Seq(Rule) OBVIOUS
  <2>5. TypeOK'
    BY <2>1, <2>3, <2>4 DEF CInv, TypeOK, driverVars, queueVars, calloutVars
  <2>6. CountersExact' BY <2>1 DEF CInv, CountersExact, QueueLockFree, calloutVars, queueVars
  <2>7. Running' /\ StatsSoFar'
    BY <2>1, <2>2 DEF CInv, TypeOK, Running, StatsSoFar, driverVars, calloutVars, queueVars
  <2> QED BY <2>5, <2>6, <2>7 DEF CInv
<1>6. CASE AddRule(u)
  <2>1. todo[u] \in Seq(Rule) /\ todo[u] # <<>> /\ loaded = TRUE
    BY <1>6 DEF AddRule, CInv, TypeOK, Running
  <2>2. /\ Head(todo[u]) \in Rule /\ Tail(todo[u]) \in Seq(Rule)
        /\ (Len(todo[u]) # 1 => Tail(todo[u]) # <<>>)
    <3>1. Len(todo[u]) \in Nat /\ Len(Tail(todo[u])) = Len(todo[u]) - 1 /\ Len(todo[u]) # 0
      BY <2>1, EmptySeq, HeadTailProperties
    <3>2. Len(<<>>) = 0 OBVIOUS
    <3>3. Len(todo[u]) # 1 => Len(Tail(todo[u])) # 0 BY <3>1
    <3>4. Len(todo[u]) # 1 => Tail(todo[u]) # <<>> BY <3>2, <3>3
    <3> QED BY <2>1, <3>4
  <2> HIDE DEF Where
  <2>3. rules' \in Seq(Rule) /\ Len(rules') = Len(rules) + 1 /\ rulesCount' = rulesCount + 1
    BY <1>6, <2>2 DEF AddRule, CInv, TypeOK
  <2>4. todo' \in [User -> Seq(Rule)] BY <1>6, <2>2 DEF AddRule, CInv, TypeOK
  <2>5. user' \in [User -> Where] BY <1>6 DEF AddRule, CInv, TypeOK, Where
  <2>6. TypeOK'
    BY <1>6, <2>3, <2>4, <2>5
    DEF AddRule, CInv, TypeOK, Where, driverVars, queueVars, calloutVars
  <2>7. CountersExact'
    BY <1>6, <2>3 DEF AddRule, CInv, CountersExact, QueueLockFree, calloutVars, queueVars
  <2>8. Running' /\ StatsSoFar'
    BY <1>6, <2>1, <2>2 DEF AddRule, CInv, TypeOK, Running, StatsSoFar, driverVars,
                            calloutVars, queueVars
  <2> QED BY <2>6, <2>7, <2>8 DEF CInv
<1>7. CASE AddRuleFails(u)
  <2>1. todo' \in [User -> Seq(Rule)] /\ user' \in [User -> Where]
    BY <1>7 DEF AddRuleFails, CInv, TypeOK
  <2>2. TypeOK'
    BY <1>7, <2>1
    DEF AddRuleFails, CInv, TypeOK, driverVars, queueVars, ruleVars, calloutVars
  <2>3. CountersExact' BY <1>7 DEF AddRuleFails, CInv, CountersExact, QueueLockFree, calloutVars, queueVars, ruleVars
  <2>4. Running' /\ StatsSoFar'
    BY <1>7 DEF AddRuleFails, CInv, TypeOK, Running, StatsSoFar, driverVars, calloutVars,
                queueVars
  <2> QED BY <2>2, <2>3, <2>4 DEF CInv
<1> QED BY <1>1, <1>2, <1>3, <1>4, <1>5, <1>6, <1>7 DEF Request

\* A driver that was never loaded has empty lists.
LEMMA CountersInit == Init => CInv
<1> SUFFICES ASSUME Init PROVE CInv OBVIOUS
<1> USE DriverAssumption
<1>1. /\ <<>> \in Seq(Conn) /\ <<>> \in Seq(Rule)
      /\ NoStats \in [Counters -> Int]
  BY DEF NoStats
<1>2. TypeOK
  <2>1. /\ pc \in [Conn -> {"new", "match", "acquire", "enqueue", "count", "apply", "done"}]
        /\ proc \in [Conn -> Proc] /\ redirectId \in [Conn -> Nat]
        /\ memory \in [Conn -> {"none", "held", "freed"}]
    BY DEF Init
  <2>2. redirected \in [Conn -> BOOLEAN] BY Zenon DEF Init
  <2>3. user \in [User -> {"idle", "copy", "add", "stats2", "stats3", "answer"}]
    BY DEF Init
  <2>4. batch \in [User -> Seq(Conn)] /\ todo \in [User -> Seq(Rule)]
    BY <1>1 DEF Init
  <2>5. stats \in [User -> [Counters -> Int]] BY <1>1 DEF Init
  <2>6. /\ loads \in 0 .. MaxLoads /\ queueCount \in 0 .. QueueMaxCount
        /\ nextId \in Nat /\ total \in Nat /\ failed \in Nat /\ rulesCount \in Nat
    BY DEF Init
  <2>7. /\ loaded \in BOOLEAN /\ filtering \in BOOLEAN /\ event \in BOOLEAN
        /\ overlapped \in BOOLEAN
        /\ held \subseteq Elements(Steps) /\ refused \subseteq Conn
    BY Zenon DEF Init
  <2>8. queue \in Seq(Conn) /\ handed \in Seq(Conn) /\ rules \in Seq(Rule)
    BY <1>1 DEF Init
  <2>9. known \in [Conn -> SUBSET Identity] BY DEF Init
  <2> QED BY <2>1, <2>2, <2>3, <2>4, <2>5, <2>6, <2>7, <2>8, <2>9, Zenon DEF TypeOK
<1>3. CountersExact /\ Running /\ StatsSoFar
  BY DEF Init, CountersExact, QueueLockFree, Running, StatsSoFar
<1> QED BY <1>2, <1>3 DEF CInv

\* Every step keeps types, counters and what GET_STATS has read.
LEMMA CountersStep == ASSUME CInv, [Next]_vars PROVE CInv'
<1>1. CASE UNCHANGED vars
  BY <1>1 DEF vars, driverVars, queueVars, ruleVars, calloutVars, userVars, CInv, TypeOK,
              CountersExact, QueueLockFree, Running, StatsSoFar
<1> QED BY <1>1, CalloutTyped, EntryTyped, RequestTyped DEF Next

\* Types and counters, with what GET_STATS has read.
THEOREM DriverCounts == Spec => []CInv
BY CountersInit, CountersStep, PTL DEF Spec

\* Types of the driver's state; the queue never exceeds its limit.
THEOREM DriverTypeCorrect == Spec => [](TypeOK /\ CountersExact)
BY DriverCounts, PTL DEF CInv

\* The statistics, read without the lock, show at most one record more waiting than
\* were ever accepted.
THEOREM DriverStats == Spec => []StatsConsistent
<1>1. CInv => StatsConsistent BY DEF CInv, StatsSoFar, StatsConsistent
<1> QED BY <1>1, DriverCounts, PTL

-----------------------------------------------------------------------------
(* The queue implements RedirectFifo                                        *)

\* Every step of the driver is a step of RedirectFifo or leaves its queue alone.
LEMMA FifoStep == ASSUME CInv, [Next]_vars PROVE [Fifo!Next]_(Fifo!vars)
<1> USE DEF Fifo!Next, Fifo!vars
<1>1. CASE UNCHANGED vars BY <1>1 DEF vars, queueVars
<1>2. CASE DriverEntry \/ DriverEntryFails \/ DriverUnload
  <2>1. queue' = <<>> /\ UNCHANGED <<handed, refused>>
    BY <1>2 DEF DriverEntry, DriverEntryFails, DriverUnload, InitializeService, CleanupService
  <2> QED BY <2>1 DEF Fifo!Discard
<1>3. ASSUME NEW c \in Conn, Enqueue(c) PROVE Fifo!Accept(c)
  BY <1>3 DEF Enqueue, Fifo!Accept, CInv, CountersExact
<1>4. ASSUME NEW c \in Conn, EnqueueFull(c) PROVE Fifo!Refuse(c)
  BY <1>4 DEF EnqueueFull, Fifo!Refuse, CInv, CountersExact
<1>5. ASSUME NEW c \in Conn, Callout(c), ~Enqueue(c), ~EnqueueFull(c)
      PROVE  UNCHANGED <<queue, handed, refused>>
  BY <1>5 DEF Callout, Classify, IdentifyFails, ClassifyMatch, AcquireFails, Prepare,
              CountRedirect, ApplyModifiedLayerData, queueVars
<1>6. ASSUME NEW u \in User, NEW n \in 1 .. BatchMax, PeekBatch(u, n)
      PROVE  \E k \in 1 .. BatchMax : k <= Len(queue) /\ Fifo!HandOut(k)
  <2> DEFINE k == IF n <= Len(queue) THEN n ELSE Len(queue)
  <2>1. Len(queue) \in Nat \ {0}
    BY <1>6, EmptySeq DEF PeekBatch, CInv, TypeOK
  <2>2. k \in 1 .. BatchMax /\ k <= Len(queue)
    BY <2>1, DriverAssumption
  <2>3. /\ batch' = [batch EXCEPT ![u] = SubSeq(queue, 1, k)]
        /\ handed' = handed \o batch'[u]
        /\ queue' = SubSeq(queue, k + 1, Len(queue))
        /\ UNCHANGED refused
    BY <1>6 DEF PeekBatch
  <2>4. batch'[u] = SubSeq(queue, 1, k) BY <2>3 DEF CInv, TypeOK
  <2> HIDE DEF k
  <2>5. Fifo!HandOut(k) BY <2>3, <2>4 DEF Fifo!HandOut
  <2> QED BY <2>2, <2>5
<1>7. ASSUME NEW u \in User, Request(u), ~(\E n \in 1 .. BatchMax : PeekBatch(u, n))
      PROVE  UNCHANGED <<queue, handed, refused>>
  BY <1>7 DEF Request, CopyBatch, ReadCounter, CompleteStats, ClearRules, SetRules,
              AddRule, AddRuleFails, queueVars
<1>8. ASSUME NEW c \in Conn, Callout(c) PROVE [Fifo!Next]_(Fifo!vars)
  BY <1>3, <1>4, <1>5, <1>8
<1>9. ASSUME NEW u \in User, Request(u) PROVE [Fifo!Next]_(Fifo!vars)
  BY <1>6, <1>7, <1>9
<1> QED BY <1>1, <1>2, <1>8, <1>9 DEF Next

\* The driver's queue implements RedirectFifo: every accepted record is handed out
\* once and in order, to however many readers, and one is refused only when the
\* queue is full.
THEOREM QueueImplementsFifo == Spec => QueueIsFifo
<1>1. Init => Fifo!Init BY DEF Init, Fifo!Init
<1> QED BY <1>1, DriverCounts, FifoStep, PTL DEF Spec, QueueIsFifo, Fifo!Spec

-----------------------------------------------------------------------------
(* Every record has one owner                                               *)

\* No element occurs twice.
Distinct(s) == \A i, j \in 1 .. Len(s) : s[i] = s[j] => i = j

\* The elements of a sequence are in its type; only the empty one has none.
LEMMA ElementsTyped ==
    ASSUME NEW S, NEW s \in Seq(S)
    PROVE  Elements(s) \subseteq S /\ (Elements(s) = {} <=> s = <<>>)
<1>1. Len(s) \in Nat /\ \A i \in 1 .. Len(s) : s[i] \in S BY LenProperties, ElementOfSeq
<1>2. s # <<>> => 1 \in 1 .. Len(s) BY <1>1, EmptySeq
<1>3. s # <<>> => s[1] \in Elements(s) BY <1>2 DEF Elements
<1>4. Elements(<<>>) = {}
  <2>1. Len(<<>>) = 0 OBVIOUS
  <2>2. 1 .. 0 = {} OBVIOUS
  <2> QED BY <2>1, <2>2 DEF Elements
<1> QED BY <1>1, <1>3, <1>4 DEF Elements

\* Enqueue adds one record at the end ...
LEMMA ElementsAppend ==
    ASSUME NEW S, NEW s \in Seq(S), NEW e \in S
    PROVE  /\ Elements(Append(s, e)) = Elements(s) \cup {e}
           /\ Distinct(s) /\ e \notin Elements(s) => Distinct(Append(s, e))
<1> DEFINE t == Append(s, e)
<1>1. /\ Len(s) \in Nat /\ Len(t) = Len(s) + 1 /\ t[Len(s) + 1] = e
      /\ \A i \in 1 .. Len(s) : t[i] = s[i]
  BY AppendProperties, LenProperties
<1>2. 1 .. Len(t) = (1 .. Len(s)) \cup {Len(s) + 1} BY <1>1
<1> HIDE DEF t
<1>3. Elements(t) = Elements(s) \cup {e}
  BY <1>1, <1>2 DEF Elements
<1>4. ASSUME Distinct(s), e \notin Elements(s) PROVE Distinct(t)
  <2> SUFFICES ASSUME NEW i \in 1 .. Len(t), NEW j \in 1 .. Len(t), t[i] = t[j] PROVE i = j
    BY DEF Distinct
  <2>1. CASE i \in 1 .. Len(s) /\ j \in 1 .. Len(s)
    BY <1>1, <1>4, <2>1 DEF Distinct
  <2>2. CASE i = Len(s) + 1 /\ j \in 1 .. Len(s)
    <3>1. s[j] = e BY <1>1, <2>2
    <3> QED BY <1>4, <2>2, <3>1 DEF Elements
  <2>3. CASE i \in 1 .. Len(s) /\ j = Len(s) + 1
    <3>1. s[i] = e BY <1>1, <2>3
    <3> QED BY <1>4, <2>3, <3>1 DEF Elements
  <2>4. CASE i = Len(s) + 1 /\ j = Len(s) + 1 BY <2>4
  <2> QED BY <1>2, <2>1, <2>2, <2>3, <2>4
<1> QED BY <1>3, <1>4 DEF t

\* ... and PeekBatch cuts a sequence without repetitions into two.
LEMMA ElementsCut ==
    ASSUME NEW S, NEW s \in Seq(S), NEW k \in 0 .. Len(s), Distinct(s)
    PROVE  /\ Elements(s) = Elements(SubSeq(s, 1, k)) \cup Elements(SubSeq(s, k + 1, Len(s)))
           /\ Elements(SubSeq(s, 1, k)) \cap Elements(SubSeq(s, k + 1, Len(s))) = {}
           /\ Distinct(SubSeq(s, 1, k)) /\ Distinct(SubSeq(s, k + 1, Len(s)))
<1> DEFINE a == SubSeq(s, 1, k)
           b == SubSeq(s, k + 1, Len(s))
<1>1. /\ Len(a) = k /\ \A i \in 1 .. k : a[i] = s[i]
      /\ Len(b) = Len(s) - k /\ \A i \in 1 .. Len(s) - k : b[i] = s[k + i]
  BY Cut
<1>2. Len(s) \in Nat /\ k \in Nat /\ k <= Len(s) BY LenProperties
<1> HIDE DEF a, b
<1>3. ASSUME NEW e \in Elements(a) PROVE \E i \in 1 .. k : e = s[i]
  BY <1>1 DEF Elements
<1>4. ASSUME NEW e \in Elements(b) PROVE \E i \in k + 1 .. Len(s) : e = s[i]
  <2>1. PICK i \in 1 .. Len(s) - k : e = b[i] BY <1>1 DEF Elements
  <2>2. k + i \in k + 1 .. Len(s) /\ e = s[k + i] BY <1>1, <1>2, <2>1
  <2> QED BY <2>2
<1>5. ASSUME NEW i \in 1 .. Len(s) PROVE s[i] \in Elements(a) \cup Elements(b)
  <2>1. CASE i <= k
    <3>1. i \in 1 .. Len(a) /\ a[i] = s[i] BY <1>1, <1>2, <2>1
    <3> QED BY <3>1 DEF Elements
  <2>2. CASE i > k
    <3>1. i - k \in 1 .. Len(b) /\ i - k \in 1 .. Len(s) - k /\ k + (i - k) = i
      BY <1>1, <1>2, <2>2
    <3>2. b[i - k] = s[i] BY <1>1, <3>1
    <3> QED BY <3>1, <3>2 DEF Elements
  <2> QED BY <1>2, <2>1, <2>2
<1>6. Elements(s) = Elements(a) \cup Elements(b)
  <2>1. \A i \in 1 .. k : i \in 1 .. Len(s) BY <1>2
  <2>2. \A i \in k + 1 .. Len(s) : i \in 1 .. Len(s) BY <1>2
  <2>3. Elements(a) \cup Elements(b) \subseteq Elements(s)
    BY <1>3, <1>4, <2>1, <2>2 DEF Elements
  <2>4. Elements(s) \subseteq Elements(a) \cup Elements(b)
    BY <1>5 DEF Elements
  <2> QED BY <2>3, <2>4
<1>7. Elements(a) \cap Elements(b) = {}
  <2> SUFFICES ASSUME NEW e \in Elements(a), e \in Elements(b) PROVE FALSE OBVIOUS
  <2>1. PICK i \in 1 .. k : e = s[i] BY <1>3
  <2>2. PICK j \in k + 1 .. Len(s) : e = s[j] BY <1>4
  <2>3. i \in 1 .. Len(s) /\ j \in 1 .. Len(s) /\ i # j BY <1>2
  <2> QED BY <2>1, <2>2, <2>3 DEF Distinct
<1>8. Distinct(a)
  <2> SUFFICES ASSUME NEW i \in 1 .. Len(a), NEW j \in 1 .. Len(a), a[i] = a[j] PROVE i = j
    BY DEF Distinct
  <2>1. i \in 1 .. Len(s) /\ j \in 1 .. Len(s) /\ s[i] = s[j] BY <1>1, <1>2
  <2> QED BY <2>1 DEF Distinct
<1>9. Distinct(b)
  <2> SUFFICES ASSUME NEW i \in 1 .. Len(b), NEW j \in 1 .. Len(b), b[i] = b[j] PROVE i = j
    BY DEF Distinct
  <2>1. k + i \in 1 .. Len(s) /\ k + j \in 1 .. Len(s) /\ s[k + i] = s[k + j] BY <1>1, <1>2
  <2>2. k + i = k + j BY <2>1 DEF Distinct
  <2> QED BY <1>2, <2>2
<1> QED BY <1>6, <1>7, <1>8, <1>9 DEF a, b

\* A record that has left the callout: its connection will not touch it again.
Filed(c) == pc[c] \in {"count", "apply", "done"} /\ memory[c] = "held"

\* Queue and batches hold records in memory, each once and in one place, and only
\* a request that is copying has a batch.
Shelved ==
    /\ Distinct(queue) /\ \A c \in Elements(queue) : Filed(c)
    /\ \A u \in User :
          /\ Distinct(batch[u]) /\ \A c \in Elements(batch[u]) : Filed(c)
          /\ user[u] # "copy" => batch[u] = <<>>
          /\ Elements(batch[u]) \cap Elements(queue) = {}
          /\ \A v \in User : u # v => Elements(batch[u]) \cap Elements(batch[v]) = {}

\* A record in memory is with the callout, in the queue or in a batch.
Held ==
    \A c \in Conn :
        /\ pc[c] = "enqueue" => memory[c] = "held"
        /\ memory[c] = "held" =>
              \/ pc[c] = "enqueue" \/ c \in Elements(queue)
              \/ \E u \in User : c \in Elements(batch[u])

\* Loading undoes what it acquired when it fails, and unloading empties both lists.
Unloaded == loaded = FALSE => held = {} /\ queue = <<>> /\ rules = <<>>

\* While no two requests changed the rules at once, the list is the beginning of
\* one that was sent; the request that is adding rules has the rest of it.
RulesFrom ==
    overlapped = FALSE =>
        /\ rules = <<>> \/ \E rest \in Seq(Rule) : rules \o rest \in RuleLists
        /\ \A u \in Adding : rules \o todo[u] \in RuleLists
        /\ \A u, v \in Adding : u = v

\* ... and the callout has not chosen to redirect a connection whose identity, as
\* far as it was found, is exempt; none is redirected before a record was made for it.
Chosen ==
    overlapped = FALSE =>
        \A c \in Conn :
            /\ pc[c] \in {"new", "match", "acquire"} => redirected[c] = FALSE
            /\ Exempt(proc[c], known[c]) =>
                  pc[c] \in {"new", "match", "done"} /\ redirected[c] = FALSE

\* Steps that touch no record, and no place where one may be.
LEMMA OwnersKept ==
    ASSUME CInv, Shelved, Held, UNCHANGED <<queue, batch, memory>>,
           \A u \in User : user'[u] = user[u] \/ (user[u] # "copy" /\ user'[u] # "copy"),
           \A c \in Conn : \/ pc'[c] = pc[c]
                          \/ /\ pc[c] # "enqueue" /\ pc'[c] # "enqueue"
                             /\ pc[c] \in {"count", "apply", "done"} =>
                                   pc'[c] \in {"count", "apply", "done"}
    PROVE  Shelved' /\ Held'
<1>1. \A c \in Conn : Filed(c) => Filed(c)' BY DEF Filed
<1>2. Elements(queue) \subseteq Conn /\ \A u \in User : Elements(batch[u]) \subseteq Conn
  BY ElementsTyped DEF CInv, TypeOK
<1>3. Shelved' BY <1>1, <1>2 DEF Shelved
<1>4. Held' BY DEF Held
<1> QED BY <1>3, <1>4

\* The callout makes a record, hands it to the queue or frees it.
LEMMA CalloutOwns ==
    ASSUME CInv, Shelved, Held, NEW c \in Conn, Callout(c)
    PROVE  Shelved' /\ Held'
<1>0. /\ Elements(queue) \subseteq Conn /\ \A u \in User : Elements(batch[u]) \subseteq Conn
      /\ queue \in Seq(Conn) /\ pc \in [Conn -> {"new", "match", "acquire", "enqueue", "count", "apply", "done"}]
      /\ memory \in [Conn -> {"none", "held", "freed"}]
  BY ElementsTyped DEF CInv, TypeOK
<1>1. CASE Classify(c) \/ IdentifyFails(c) \/ ClassifyMatch(c) \/ AcquireFails(c)
           \/ CountRedirect(c) \/ ApplyModifiedLayerData(c)
  <2>1. /\ UNCHANGED <<queue, batch, memory, user>>
        /\ \E w \in {"match", "acquire", "apply", "done"} :
              /\ pc' = [pc EXCEPT ![c] = w] /\ pc[c] # "enqueue"
              /\ pc[c] \in {"count", "apply", "done"} => w \in {"apply", "done"}
    BY <1>1 DEF Classify, IdentifyFails, ClassifyMatch, AcquireFails, Permit, CountRedirect,
                ApplyModifiedLayerData, queueVars, userVars
  <2> QED BY <1>0, <2>1, OwnersKept
<1>2. CASE Prepare(c) \/ EnqueueFull(c)
  <2>1. /\ UNCHANGED <<queue, batch, user>>
        /\ pc[c] \in {"acquire", "enqueue"}
        /\ \/ memory' = [memory EXCEPT ![c] = "held"] /\ pc' = [pc EXCEPT ![c] = "enqueue"]
           \/ memory' = [memory EXCEPT ![c] = "freed"] /\ pc' = [pc EXCEPT ![c] = "apply"]
    BY <1>2 DEF Prepare, EnqueueFull, queueVars, userVars
  <2>2. ASSUME NEW d \in Conn, Filed(d) PROVE Filed(d)'
    <3>1. d # c BY <2>1, <2>2 DEF Filed
    <3> QED BY <1>0, <2>1, <2>2, <3>1 DEF Filed
  <2>3. Shelved' BY <1>0, <2>1, <2>2 DEF Shelved
  <2>4. Held'
    <3> SUFFICES ASSUME NEW d \in Conn
                 PROVE  /\ pc'[d] = "enqueue" => memory'[d] = "held"
                        /\ memory'[d] = "held" =>
                              \/ pc'[d] = "enqueue" \/ d \in Elements(queue)'
                              \/ \E u \in User : d \in Elements(batch[u])'
      BY DEF Held
    <3>1. CASE d = c BY <1>0, <2>1, <3>1
    <3>2. CASE d # c BY <1>0, <2>1, <3>2 DEF Held
    <3> QED BY <3>1, <3>2
  <2> QED BY <2>3, <2>4
<1>3. CASE Enqueue(c)
  <2>1. /\ pc[c] = "enqueue" /\ queue' = Append(queue, c) /\ pc' = [pc EXCEPT ![c] = "count"]
        /\ UNCHANGED <<batch, user, memory>>
    BY <1>3 DEF Enqueue, userVars
  <2>2. c \notin Elements(queue) /\ \A u \in User : c \notin Elements(batch[u])
    BY <2>1 DEF Shelved, Filed
  <2>3. Elements(queue)' = Elements(queue) \cup {c} /\ Distinct(queue)'
    BY <1>0, <2>1, <2>2, ElementsAppend DEF Shelved
  <2>4. ASSUME NEW d \in Conn, Filed(d) \/ d = c PROVE Filed(d)'
    BY <1>0, <2>1, <2>4 DEF Filed, Held
  <2>5. Shelved'
    <3>1. \A d \in Elements(queue)' : Filed(d)' BY <1>0, <2>3, <2>4 DEF Shelved
    <3>2. ASSUME NEW u \in User
          PROVE  /\ Distinct(batch[u])' /\ \A d \in Elements(batch[u])' : Filed(d)'
                 /\ user'[u] # "copy" => batch'[u] = <<>>
                 /\ Elements(batch[u])' \cap Elements(queue)' = {}
                 /\ \A v \in User : u # v => Elements(batch[u])' \cap Elements(batch[v])' = {}
      <4>1. Elements(batch[u])' = Elements(batch[u]) /\ Distinct(batch[u])'
        BY <2>1 DEF Shelved
      <4>2. \A d \in Elements(batch[u]) : Filed(d)' BY <1>0, <2>4 DEF Shelved
      <4>3. Elements(batch[u]) \cap Elements(queue)' = {} BY <2>2, <2>3 DEF Shelved
      <4> QED BY <2>1, <4>1, <4>2, <4>3 DEF Shelved
    <3> QED BY <2>3, <3>1, <3>2 DEF Shelved
  <2>6. Held' BY <1>0, <2>1, <2>3 DEF Held
  <2> QED BY <2>5, <2>6
<1> QED BY <1>1, <1>2, <1>3 DEF Callout

\* GET_PENDING moves records from the queue to its batch and then frees them.
LEMMA RequestOwns ==
    ASSUME CInv, Shelved, Held, NEW u \in User, Request(u)
    PROVE  Shelved' /\ Held'
<1>0. /\ Elements(queue) \subseteq Conn /\ \A v \in User : Elements(batch[v]) \subseteq Conn
      /\ queue \in Seq(Conn) /\ batch \in [User -> Seq(Conn)]
      /\ user \in [User -> {"idle", "copy", "add", "stats2", "stats3", "answer"}]
      /\ memory \in [Conn -> {"none", "held", "freed"}]
  BY ElementsTyped DEF CInv, TypeOK
<1>1. ASSUME NEW n \in 1 .. BatchMax, PeekBatch(u, n) PROVE Shelved' /\ Held'
  <2> DEFINE k == IF n <= Len(queue) THEN n ELSE Len(queue)
             a == SubSeq(queue, 1, k)
  <2>1. k \in 0 .. Len(queue)
    BY <1>0, LenProperties, DriverAssumption
  <2>2. /\ batch' = [batch EXCEPT ![u] = a] /\ user[u] = "idle"
        /\ queue' = SubSeq(queue, k + 1, Len(queue))
        /\ user' = [user EXCEPT ![u] = "copy"]
        /\ UNCHANGED <<pc, memory>>
    BY <1>1 DEF PeekBatch, calloutVars
  <2>3. /\ Elements(queue) = Elements(a) \cup Elements(queue)'
        /\ Elements(a) \cap Elements(queue)' = {}
        /\ Distinct(a) /\ Distinct(queue)'
    <3> HIDE DEF k
    <3> QED BY <1>0, <2>1, <2>2, ElementsCut DEF Shelved
  <2> HIDE DEF k, a
  <2>4. \A v \in User : batch'[v] = IF v = u THEN a ELSE batch[v] BY <1>0, <2>2
  <2>5. \A c \in Conn : Filed(c)' = Filed(c) BY <2>2 DEF Filed
  <2>6. ASSUME NEW v \in User
        PROVE  /\ Distinct(batch'[v]) /\ \A c \in Elements(batch'[v]) : Filed(c)'
               /\ user'[v] # "copy" => batch'[v] = <<>>
               /\ Elements(batch'[v]) \cap Elements(queue)' = {}
    BY <1>0, <2>2, <2>3, <2>4, <2>5 DEF Shelved
  <2>7. ASSUME NEW v \in User, NEW w \in User, v # w
        PROVE  Elements(batch'[v]) \cap Elements(batch'[w]) = {}
    BY <2>3, <2>4, <2>7 DEF Shelved
  <2>8. \A c \in Elements(queue)' : Filed(c)' BY <1>0, <2>3, <2>5 DEF Shelved
  <2>9. Shelved' BY <2>3, <2>6, <2>7, <2>8 DEF Shelved, Distinct, Elements
  <2>10. Held'
    <3> SUFFICES ASSUME NEW c \in Conn, memory[c] = "held"
                 PROVE  \/ pc[c] = "enqueue" \/ c \in Elements(queue)'
                        \/ \E v \in User : c \in Elements(batch'[v])
      BY <2>2 DEF Held, Elements
    <3>1. Elements(batch[u]) = {}
      BY <1>0, <2>2, ElementsTyped DEF Shelved
    <3>2. CASE c \in Elements(queue) BY <2>3, <2>4, <3>2
    <3>3. ASSUME NEW v \in User, c \in Elements(batch[v])
          PROVE  c \in Elements(batch'[v])
      BY <2>4, <3>1, <3>3
    <3> QED BY <3>2, <3>3 DEF Held
  <2> QED BY <2>9, <2>10
<1>2. CASE CopyBatch(u)
  <2>1. /\ memory' = [c \in Conn |-> IF c \in Elements(batch[u]) THEN "freed" ELSE memory[c]]
        /\ batch' = [batch EXCEPT ![u] = <<>>]
        /\ user' = [user EXCEPT ![u] = "idle"]
        /\ UNCHANGED <<queue, pc>>
    BY <1>2 DEF CopyBatch, queueVars, calloutVars
  <2>2. \A v \in User : batch'[v] = IF v = u THEN <<>> ELSE batch[v] BY <1>0, <2>1
  <2>3. Elements(<<>>) = {} /\ Distinct(<<>>)
    BY DEF Elements, Distinct
  <2>4. \A c \in Conn : Filed(c) /\ c \notin Elements(batch[u]) => Filed(c)'
    BY <2>1 DEF Filed
  <2>5. \A c \in Elements(queue) : Filed(c)' BY <1>0, <2>4 DEF Shelved
  <2>6. ASSUME NEW v \in User
        PROVE  /\ Distinct(batch'[v]) /\ \A c \in Elements(batch'[v]) : Filed(c)'
               /\ user'[v] # "copy" => batch'[v] = <<>>
               /\ Elements(batch'[v]) \cap Elements(queue) = {}
    <3>1. CASE v = u BY <2>2, <2>3, <3>1
    <3>2. CASE v # u BY <1>0, <2>1, <2>2, <2>4, <3>2 DEF Shelved
    <3> QED BY <3>1, <3>2
  <2>7. ASSUME NEW v \in User, NEW w \in User, v # w
        PROVE  Elements(batch'[v]) \cap Elements(batch'[w]) = {}
    BY <2>2, <2>3, <2>7 DEF Shelved
  <2>8. Shelved' BY <2>1, <2>5, <2>6, <2>7 DEF Shelved
  <2>9. Held'
    <3> SUFFICES ASSUME NEW c \in Conn
                 PROVE  /\ pc[c] = "enqueue" => memory'[c] = "held"
                        /\ memory'[c] = "held" =>
                              \/ pc[c] = "enqueue" \/ c \in Elements(queue)
                              \/ \E v \in User : c \in Elements(batch'[v])
      BY <2>1 DEF Held, Elements
    <3>1. c \in Elements(batch[u]) => pc[c] # "enqueue" BY DEF Shelved, Filed
    <3>2. memory'[c] = IF c \in Elements(batch[u]) THEN "freed" ELSE memory[c] BY <2>1
    <3> QED BY <2>2, <3>1, <3>2 DEF Held
  <2> QED BY <2>8, <2>9
<1>3. CASE \/ \E i \in 1 .. 3 : ReadCounter(u, i)
           \/ CompleteStats(u) \/ ClearRules(u) \/ \E list \in RuleLists : SetRules(u, list)
           \/ AddRule(u) \/ AddRuleFails(u)
  <2>1. UNCHANGED <<queue, batch, memory, pc>>
    BY <1>3 DEF ReadCounter, CompleteStats, ClearRules, SetRules, AddRule, AddRuleFails,
                queueVars, userVars, calloutVars
  <2>2. \/ UNCHANGED user
        \/ /\ user[u] # "copy"
           /\ \E w \in {"idle", "add", "stats2", "stats3", "answer"} :
                 user' = [user EXCEPT ![u] = w]
    <3>1. CASE \E i \in 1 .. 3 : ReadCounter(u, i)
      <4>1. PICK i \in 1 .. 3 : ReadCounter(u, i) BY <3>1
      <4>2. /\ Reading[i] # "copy" /\ Reading[i + 1] \in {"stats2", "stats3", "answer"}
        <5>1. CASE i = 1 BY <5>1 DEF Reading
        <5>2. CASE i = 2 BY <5>2 DEF Reading
        <5>3. CASE i = 3 BY <5>3 DEF Reading
        <5> QED BY <5>1, <5>2, <5>3
      <4> QED BY <4>1, <4>2 DEF ReadCounter
    <3>2. CASE CompleteStats(u) \/ AddRule(u) \/ AddRuleFails(u)
      BY <3>2 DEF CompleteStats, AddRule, AddRuleFails
    <3>3. CASE ClearRules(u) \/ \E list \in RuleLists : SetRules(u, list)
      BY <3>3 DEF ClearRules, SetRules, userVars
    <3> QED BY <1>3, <3>1, <3>2, <3>3
  <2>3. \A v \in User : user'[v] = user[v] \/ (user[v] # "copy" /\ user'[v] # "copy")
    BY <1>0, <2>2
  <2> QED BY <2>1, <2>3, OwnersKept
<1> QED BY <1>1, <1>2, <1>3 DEF Request

\* Unloading frees what is queued: no request has a batch, no callout a record.
LEMMA EntryOwns ==
    ASSUME CInv, Shelved, Held, Unloaded, DriverEntry \/ DriverEntryFails \/ DriverUnload
    PROVE  Shelved' /\ Held' /\ Unloaded'
<1>1. CASE DriverEntry \/ DriverEntryFails
  <2>1. /\ queue' = <<>> /\ rules' = <<>> /\ loaded = FALSE
        /\ UNCHANGED <<pc, batch, user, memory>>
    BY <1>1 DEF DriverEntry, DriverEntryFails, InitializeService, calloutVars, userVars,
                CInv, TypeOK
  <2>2. queue' = queue /\ held = {} BY <2>1 DEF Unloaded
  <2>3. Shelved' /\ Held' BY <2>1, <2>2, OwnersKept
  <2>4. loaded' = FALSE => held' = {}
    <3>1. CASE DriverEntry BY <3>1 DEF DriverEntry
    <3>2. CASE DriverEntryFails
      <4>1. Len(Steps) = 5 BY DEF Steps
      <4>2. PICK i \in 1 .. 5 :
              held' = (held \cup {Steps[j] : j \in 1 .. i - 1}) \ Undo(Steps[i])
        BY <3>2, <4>1 DEF DriverEntryFails
      <4>3. \A j \in 1 .. i - 1 : Steps[j] \in Undo(Steps[i])
        <5>1. CASE i = 1 BY <5>1
        <5>2. CASE i = 2 BY <5>2 DEF Steps, Undo
        <5>3. CASE i = 3 BY <5>3 DEF Steps, Undo
        <5>4. CASE i = 4 BY <5>4 DEF Steps, Undo
        <5>5. CASE i = 5 BY <5>5 DEF Steps, Undo
        <5> QED BY <5>1, <5>2, <5>3, <5>4, <5>5
      <4> QED BY <2>2, <4>2, <4>3
    <3> QED BY <1>1, <3>1, <3>2
  <2>5. Unloaded' BY <2>1, <2>4 DEF Unloaded
  <2> QED BY <2>3, <2>5
<1>2. CASE DriverUnload
  <2>1. /\ \A u \in User : user[u] = "idle"
        /\ \A c \in Conn : pc[c] \in {"new", "done"}
        /\ memory' = [c \in Conn |-> IF c \in Elements(queue) THEN "freed" ELSE memory[c]]
        /\ queue' = <<>> /\ rules' = <<>> /\ held' = {}
        /\ UNCHANGED <<pc, user, batch>>
    BY <1>2 DEF DriverUnload, CleanupService, calloutVars, userVars
  <2>2. Elements(<<>>) = {} /\ Distinct(<<>>) BY DEF Elements, Distinct
  <2>3. \A u \in User : batch[u] = <<>> BY <2>1 DEF Shelved
  <2>4. Shelved' BY <2>1, <2>2, <2>3 DEF Shelved
  <2>5. \A c \in Conn : memory'[c] # "held" BY <2>1, <2>2, <2>3 DEF Held
  <2>6. Held' BY <2>1, <2>5 DEF Held
  <2>7. Unloaded' BY <2>1 DEF Unloaded
  <2> QED BY <2>4, <2>6, <2>7
<1> QED BY <1>1, <1>2

\* Callouts and requests run in a loaded driver and do not unload it.
LEMMA UnloadedKept ==
    ASSUME CInv, Unloaded, (\E c \in Conn : Callout(c)) \/ (\E u \in User : Request(u))
    PROVE  Unloaded'
<1>1. ASSUME NEW c \in Conn, Callout(c) PROVE loaded = TRUE /\ loaded' = loaded
  <2>1. UNCHANGED driverVars
    BY <1>1 DEF Callout, Classify, IdentifyFails, ClassifyMatch, AcquireFails, Prepare,
                Enqueue, EnqueueFull, CountRedirect, ApplyModifiedLayerData
  <2>2. pc[c] \notin {"new", "done"} \/ loaded
    BY <1>1 DEF Callout, Classify, IdentifyFails, ClassifyMatch, AcquireFails, Prepare,
                Enqueue, EnqueueFull, CountRedirect, ApplyModifiedLayerData
  <2> QED BY <2>1, <2>2 DEF CInv, Running, TypeOK, driverVars
<1>2. ASSUME NEW u \in User, Request(u) PROVE loaded = TRUE /\ loaded' = loaded
  <2>1. UNCHANGED driverVars
    BY <1>2 DEF Request, PeekBatch, CopyBatch, ReadCounter, CompleteStats, ClearRules,
                SetRules, AddRule, AddRuleFails
  <2>2. user[u] # "idle" \/ loaded
    BY <1>2 DEF Request, PeekBatch, CopyBatch, ReadCounter, CompleteStats, ClearRules,
                SetRules, AddRule, AddRuleFails
  <2> QED BY <2>1, <2>2 DEF CInv, Running, TypeOK, driverVars
<1>3. loaded' = TRUE BY <1>1, <1>2
<1> QED BY <1>3 DEF Unloaded

\* Where the records are, and what is left of an unloaded driver.
Owners == Shelved /\ Held /\ Unloaded

\* At first there are no records.
LEMMA OwnersInit == Init => Owners
<1> SUFFICES ASSUME Init PROVE Owners OBVIOUS
<1>1. Elements(<<>>) = {} /\ Distinct(<<>>) BY DEF Elements, Distinct
<1>2. Shelved BY <1>1 DEF Init, Shelved
<1>3. Held /\ Unloaded BY DEF Init, Held, Unloaded
<1> QED BY <1>2, <1>3 DEF Owners

\* Every step moves a record from one owner to the next, or frees it.
LEMMA OwnersStep == ASSUME CInv, Owners, [Next]_vars PROVE Owners'
<1> USE DEF Owners
<1>1. CASE UNCHANGED vars
  <2>1. UNCHANGED <<queue, batch, memory, user, pc, loaded, held, rules>>
    BY <1>1 DEF vars, driverVars, queueVars, ruleVars, calloutVars, userVars
  <2>2. Shelved' /\ Held' BY <2>1, OwnersKept
  <2> QED BY <2>1, <2>2 DEF Unloaded
<1> QED BY <1>1, CalloutOwns, RequestOwns, EntryOwns, UnloadedKept DEF Next

\* Owners holds in every reachable state.
THEOREM DriverOwners == Spec => []Owners
BY OwnersInit, OwnersStep, DriverCounts, PTL DEF Spec

\* The places a record is in are none, or the one that Owners allows.
LEMMA OnePlace ==
    ASSUME CInv, Owners, NEW c \in Conn
    PROVE  Cardinality(Places(c)) = (IF memory[c] = "held" THEN 1 ELSE 0)
<1> DEFINE Q == {i \in 1 .. Len(queue) : queue[i] = c}
           B(u) == {i \in 1 .. Len(batch[u]) : batch[u][i] = c}
<1>1. Q # {} <=> c \in Elements(queue) BY DEF Elements
<1>2. \A u \in User : B(u) # {} <=> c \in Elements(batch[u]) BY DEF Elements
<1>3. \A i, j \in Q : i = j BY DEF Owners, Shelved, Distinct
<1>4. \A u \in User : \A i, j \in B(u) : i = j BY DEF Owners, Shelved, Distinct
<1>5. \A u, v \in User : B(u) # {} /\ B(v) # {} => u = v
  BY <1>2 DEF Owners, Shelved
<1>6. \A u \in User : ~(Q # {} /\ B(u) # {})
  BY <1>1, <1>2 DEF Owners, Shelved
<1>7. pc[c] = "enqueue" => Q = {} /\ \A u \in User : B(u) = {}
  BY <1>1, <1>2 DEF Owners, Shelved, Filed
<1>8. /\ pc[c] = "enqueue" \/ Q # {} \/ (\E u \in User : B(u) # {}) => memory[c] = "held"
      /\ memory[c] = "held" => pc[c] = "enqueue" \/ Q # {} \/ \E u \in User : B(u) # {}
  BY <1>1, <1>2 DEF Owners, Shelved, Filed, Held
<1>9. Places(c) = (IF pc[c] = "enqueue" THEN {<<"callout">>} ELSE {})
                    \cup {<<"queue", i>> : i \in Q} \cup UNION {{<<u, i>> : i \in B(u)} : u \in User}
  BY DEF Places
<1> HIDE DEF Q, B
<1>10. CASE memory[c] # "held"
  <2>1. Places(c) = {} BY <1>8, <1>9, <1>10
  <2> QED BY <1>10, <2>1, FS_EmptySet
<1>11. CASE memory[c] = "held" /\ pc[c] = "enqueue"
  <2>1. Places(c) = {<<"callout">>} BY <1>7, <1>9, <1>11
  <2> QED BY <1>11, <2>1, FS_Singleton
<1>12. CASE memory[c] = "held" /\ pc[c] # "enqueue" /\ Q # {}
  <2>1. PICK i \in Q : Q = {i} BY <1>3, <1>12
  <2>2. Places(c) = {<<"queue", i>>} BY <1>6, <1>9, <1>12, <2>1
  <2> QED BY <1>12, <2>2, FS_Singleton
<1>13. CASE memory[c] = "held" /\ pc[c] # "enqueue" /\ Q = {}
  <2>1. PICK u \in User : B(u) # {} BY <1>8, <1>13
  <2>2. PICK i \in B(u) : B(u) = {i} BY <1>4, <2>1
  <2>3. Places(c) = {<<u, i>>}
    <3>1. \A v \in User : v # u => B(v) = {} BY <1>5, <2>1
    <3> QED BY <1>9, <1>13, <2>2, <3>1
  <2> QED BY <1>13, <2>3, FS_Singleton
<1> QED BY <1>10, <1>11, <1>12, <1>13

\* Every record in memory has one owner, callout, queue or request, and a freed one
\* has none, for any number of processors, readers and loads.
THEOREM RecordsHaveOneOwner == Spec => []RecordsOwned
<1>1. CInv /\ Owners => RecordsOwned BY OnePlace DEF RecordsOwned
<1> QED BY <1>1, DriverCounts, DriverOwners, PTL

\* A driver that was unloaded, or whose loading failed at any step, leaves nothing
\* behind.
THEOREM UnloadedLeavesNothing == Spec => []UnloadedHoldsNothing
<1>1. ASSUME CInv, Owners, ~loaded PROVE \A c \in Conn : memory[c] # "held"
  <2>1. loaded = FALSE BY <1>1 DEF CInv, TypeOK
  <2>2. queue = <<>> BY <1>1, <2>1 DEF Owners, Unloaded
  <2>3. \A u \in User : batch[u] = <<>> BY <1>1, <2>1 DEF CInv, Running, Owners, Shelved
  <2>4. \A c \in Conn : pc[c] # "enqueue" BY <1>1, <2>1 DEF CInv, Running
  <2>5. Elements(<<>>) = {} BY DEF Elements
  <2> QED BY <1>1, <2>2, <2>3, <2>4, <2>5 DEF Owners, Held
<1>2. CInv /\ Owners => UnloadedHoldsNothing
  BY <1>1 DEF UnloadedHoldsNothing, Owners, Unloaded, CInv, TypeOK
<1> QED BY <1>2, DriverCounts, DriverOwners, PTL

-----------------------------------------------------------------------------
(* An exempt process is not redirected                                      *)

\* Moving the first element of t to the end of s.
LEMMA MoveHead ==
    ASSUME NEW S, NEW s \in Seq(S), NEW t \in Seq(S), t # <<>>
    PROVE  Tail(t) \in Seq(S) /\ Append(s, Head(t)) \o Tail(t) = s \o t
<1>1. /\ Head(t) \in S /\ Tail(t) \in Seq(S) /\ Len(Tail(t)) = Len(t) - 1
      /\ Head(t) = t[1] /\ \A i \in 1 .. Len(Tail(t)) : Tail(t)[i] = t[i + 1]
      /\ Len(t) \in Nat /\ Len(t) > 0 /\ Len(s) \in Nat
  BY HeadTailProperties, EmptySeq, LenProperties
<1> DEFINE a == Append(s, Head(t))
           l == a \o Tail(t)
           r == s \o t
<1>2. /\ a \in Seq(S) /\ Len(a) = Len(s) + 1 /\ a[Len(s) + 1] = Head(t)
      /\ \A i \in 1 .. Len(s) : a[i] = s[i]
  BY <1>1, AppendProperties
<1> HIDE DEF a
<1>3. /\ l \in Seq(S) /\ Len(l) = Len(a) + Len(Tail(t))
      /\ \A i \in 1 .. Len(a) + Len(Tail(t)) :
            l[i] = IF i <= Len(a) THEN a[i] ELSE Tail(t)[i - Len(a)]
  <2>1. Tail(t) \in Seq(S) /\ a \in Seq(S) BY <1>1, <1>2
  <2> QED BY <2>1, ConcatProperties
<1>4. /\ r \in Seq(S) /\ Len(r) = Len(s) + Len(t)
      /\ \A i \in 1 .. Len(r) : r[i] = IF i <= Len(s) THEN s[i] ELSE t[i - Len(s)]
  BY ConcatProperties
<1> HIDE DEF l, r
<1>5. Len(l) = Len(r) BY <1>1, <1>2, <1>3, <1>4
<1>6. ASSUME NEW i \in 1 .. Len(r) PROVE l[i] = r[i]
  <2>1. i \in Nat /\ i >= 1 /\ i <= Len(s) + Len(t) BY <1>1, <1>4
  <2>2. CASE i <= Len(s)
    <3>1. i \in 1 .. Len(s) /\ i <= Len(a) /\ i \in 1 .. Len(a) + Len(Tail(t))
      BY <1>1, <1>2, <2>1, <2>2
    <3> QED BY <1>2, <1>3, <1>4, <3>1
  <2>3. CASE i = Len(s) + 1 BY <1>1, <1>2, <1>3, <1>4, <1>5, <2>1, <2>3
  <2>4. CASE i > Len(s) + 1
    <3>1. /\ i - Len(a) \in 1 .. Len(Tail(t)) /\ (i - Len(a)) + 1 = i - Len(s)
          /\ ~(i <= Len(a)) /\ ~(i <= Len(s))
      BY <1>1, <1>2, <2>1, <2>4
    <3>2. l[i] = Tail(t)[i - Len(a)] /\ r[i] = t[i - Len(s)] BY <1>1, <1>2, <1>3, <1>4, <1>5, <3>1
    <3> QED BY <1>1, <3>1, <3>2
  <2> QED BY <1>1, <2>1, <2>2, <2>3, <2>4
<1>7. l = r BY <1>3, <1>4, <1>5, <1>6, SeqEqual
<1> QED BY <1>1, <1>7 DEF l, r, a

\* A set of numbers that is not empty has a least one.
LEMMA Least ==
    ASSUME NEW S, S \subseteq Nat, S # {}
    PROVE  \E i \in S : \A j \in S : i <= j
<1> DEFINE R == OpToRel(<, Nat)
<1>1. IsWellFoundedOn(R, Nat) BY NatLessThanWellFounded
<1>2. \A x, y \in Nat : <<x, y>> \in R <=> x < y BY DEF OpToRel
<1> HIDE DEF R
<1>3. PICK i \in S : \A j \in S : ~(<<j, i>> \in R) BY <1>1, WFMin
<1>4. ASSUME NEW j \in S PROVE i <= j
  <2>1. i \in Nat /\ j \in Nat /\ ~(<<j, i>> \in R) BY <1>3
  <2>2. ~(j < i) BY <1>2, <2>1
  <2> QED BY <2>1, <2>2
<1> QED BY <1>4

\* The first rule that covers a process decides.
LEMMA FirstRuleDecides ==
    ASSUME rules \in Seq(Rule), NEW p, NEW f, MatchRule(p, f) = "redirect"
    PROVE  \E i \in 1 .. Len(rules) :
              /\ Covers(rules[i], p, f) /\ rules[i].action = "redirect"
              /\ \A j \in 1 .. Len(rules) : Covers(rules[j], p, f) => i <= j
<1> DEFINE hits == {i \in 1 .. Len(rules) : Covers(rules[i], p, f)}
           i == CHOOSE i \in hits : \A j \in hits : i <= j
<1>1. hits # {} /\ rules[i].action = "redirect" BY DEF MatchRule
<1>2. hits \subseteq Nat BY LenProperties
<1>3. \E k \in hits : \A j \in hits : k <= j
  <2> HIDE DEF hits
  <2> QED BY <1>1, <1>2, Least
<1>4. i \in hits /\ \A j \in hits : i <= j BY <1>3
<1> HIDE DEF i
<1> QED BY <1>1, <1>4

\* The beginning of a list that exempts a process exempts it as well.
LEMMA ExemptIsNotMatched ==
    ASSUME CInv, RulesFrom, overlapped = FALSE, NEW p, NEW f, Exempt(p, f)
    PROVE  MatchRule(p, f) # "redirect"
<1> SUFFICES ASSUME MatchRule(p, f) = "redirect" PROVE FALSE OBVIOUS
<1>1. rules \in Seq(Rule) /\ Len(rules) \in Nat BY LenProperties DEF CInv, TypeOK
<1>2. PICK i \in 1 .. Len(rules) :
        /\ Covers(rules[i], p, f) /\ rules[i].action = "redirect"
        /\ \A j \in 1 .. Len(rules) : Covers(rules[j], p, f) => i <= j
  BY <1>1, FirstRuleDecides
<1>3. rules # <<>> BY <1>1, EmptySeq
<1>4. PICK rest \in Seq(Rule) : rules \o rest \in RuleLists BY <1>3 DEF RulesFrom
<1> DEFINE list == rules \o rest
<1>5. /\ Len(list) = Len(rules) + Len(rest) /\ Len(rest) \in Nat
      /\ \A j \in 1 .. Len(rules) : list[j] = rules[j]
  BY <1>1, ConcatProperties, LenProperties
<1> HIDE DEF list
<1>6. i \in 1 .. Len(list) /\ Covers(list[i], p, f) /\ list[i].action = "redirect"
  BY <1>1, <1>2, <1>5
<1>7. list \in RuleLists BY <1>4 DEF list
<1>8. PICK j \in 1 .. i - 1 : Covers(list[j], p, f) BY <1>6, <1>7 DEF Exempt
<1>9. j \in 1 .. Len(rules) /\ j < i /\ Covers(rules[j], p, f) BY <1>1, <1>5, <1>8
<1> QED BY <1>1, <1>2, <1>9

\* At first there are no rules.
LEMMA RulesInit == Init => RulesFrom /\ Chosen
BY DEF Init, RulesFrom, Chosen, Adding

\* Every step leaves the rules the beginning of one list, unless requests overlap.
LEMMA RulesStep == ASSUME CInv, RulesFrom, [Next]_vars PROVE RulesFrom'
<1> SUFFICES ASSUME overlapped' = FALSE
             PROVE  /\ rules' = <<>> \/ \E rest \in Seq(Rule) : rules' \o rest \in RuleLists
                    /\ \A u \in Adding' : rules' \o todo'[u] \in RuleLists
                    /\ \A u, v \in Adding' : u = v
  BY DEF RulesFrom
<1>0. /\ user \in [User -> {"idle", "copy", "add", "stats2", "stats3", "answer"}]
      /\ todo \in [User -> Seq(Rule)] /\ rules \in Seq(Rule) /\ overlapped \in BOOLEAN
  BY DEF CInv, TypeOK
<1>1. ASSUME UNCHANGED <<rules, overlapped, todo>>,
             \A u \in User : user'[u] = "add" => user[u] = "add"
      PROVE  /\ rules' = <<>> \/ \E rest \in Seq(Rule) : rules' \o rest \in RuleLists
             /\ \A u \in Adding' : rules' \o todo'[u] \in RuleLists
             /\ \A u, v \in Adding' : u = v
  BY <1>1 DEF RulesFrom, Adding
<1>2. CASE UNCHANGED vars BY <1>1, <1>2 DEF vars, ruleVars, userVars
<1>3. ASSUME NEW c \in Conn, Callout(c) PROVE UNCHANGED <<rules, overlapped, todo, user>>
  BY <1>3 DEF Callout, Classify, IdentifyFails, ClassifyMatch, AcquireFails, Prepare, Enqueue,
              EnqueueFull, CountRedirect, ApplyModifiedLayerData, ruleVars, userVars
<1>4. CASE DriverEntry \/ DriverEntryFails \/ DriverUnload
  <2>1. rules' = <<>> /\ UNCHANGED <<overlapped, todo, user>>
    BY <1>4 DEF DriverEntry, DriverEntryFails, DriverUnload, InitializeService, CleanupService,
                userVars
  <2>2. \A u \in User : user[u] = "idle"
    BY <1>4 DEF DriverEntry, DriverEntryFails, DriverUnload, CInv, Running, TypeOK
  <2> QED BY <2>1, <2>2 DEF Adding
<1>5. ASSUME NEW u \in User, Request(u)
      PROVE  /\ rules' = <<>> \/ \E rest \in Seq(Rule) : rules' \o rest \in RuleLists
             /\ \A v \in Adding' : rules' \o todo'[v] \in RuleLists
             /\ \A v, w \in Adding' : v = w
  <2>1. CASE \/ \E n \in 1 .. BatchMax : PeekBatch(u, n)
             \/ CopyBatch(u) \/ (\E i \in 1 .. 3 : ReadCounter(u, i)) \/ CompleteStats(u)
    <3>1. UNCHANGED <<rules, overlapped, todo>>
      BY <2>1 DEF PeekBatch, CopyBatch, ReadCounter, CompleteStats, ruleVars
    <3>2. \E w \in {"idle", "copy", "stats2", "stats3", "answer"} : user' = [user EXCEPT ![u] = w]
      <4>1. CASE \E i \in 1 .. 3 : ReadCounter(u, i)
        <5>1. PICK i \in 1 .. 3 : ReadCounter(u, i) BY <4>1
        <5>2. Reading[i + 1] \in {"stats2", "stats3", "answer"}
          <6>1. CASE i = 1 BY <6>1 DEF Reading
          <6>2. CASE i = 2 BY <6>2 DEF Reading
          <6>3. CASE i = 3 BY <6>3 DEF Reading
          <6> QED BY <6>1, <6>2, <6>3
        <5> QED BY <5>1, <5>2 DEF ReadCounter
      <4>2. CASE \/ \E n \in 1 .. BatchMax : PeekBatch(u, n)
                 \/ CopyBatch(u) \/ CompleteStats(u)
        BY <4>2 DEF PeekBatch, CopyBatch, CompleteStats
      <4> QED BY <2>1, <4>1, <4>2
    <3> QED BY <1>0, <1>1, <3>1, <3>2
  <2>2. CASE AddRuleFails(u)
    <3>1. /\ todo' = [todo EXCEPT ![u] = <<>>] /\ user' = [user EXCEPT ![u] = "idle"]
          /\ UNCHANGED <<rules, overlapped>>
      BY <2>2 DEF AddRuleFails, ruleVars
    <3>2. \A v \in User : user'[v] = "add" => user[v] = "add" /\ todo'[v] = todo[v]
      BY <1>0, <3>1
    <3> QED BY <3>1, <3>2 DEF RulesFrom, Adding
  <2>3. CASE ClearRules(u) \/ \E list \in RuleLists : SetRules(u, list)
    <3>1. rules' = <<>> /\ overlapped' = (overlapped \/ Adding # {})
      BY <2>3 DEF ClearRules, SetRules
    <3>2. \A v \in User : user[v] # "add" BY <3>1 DEF Adding
    <3>3. \/ UNCHANGED <<user, todo>>
          \/ \E list \in RuleLists :
                /\ todo' = [todo EXCEPT ![u] = list]
                /\ user' = [user EXCEPT ![u] = "add"]
      BY <2>3 DEF ClearRules, SetRules, userVars
    <3>4. ASSUME NEW v \in User, user'[v] = "add" PROVE v = u /\ todo'[v] \in RuleLists
      BY <1>0, <3>2, <3>3, <3>4
    <3>5. \A list \in RuleLists : <<>> \o list = list
      BY DriverAssumption, ConcatEmptySeq
    <3> QED BY <3>1, <3>4, <3>5 DEF Adding
  <2>4. CASE AddRule(u)
    <3>1. /\ user[u] = "add" /\ rules' = Append(rules, Head(todo[u]))
          /\ todo' = [todo EXCEPT ![u] = Tail(@)]
          /\ user' = [user EXCEPT ![u] = IF Len(todo[u]) = 1 THEN "idle" ELSE "add"]
          /\ overlapped = FALSE
      BY <2>4 DEF AddRule
    <3>2. todo[u] \in Seq(Rule) /\ todo[u] # <<>> BY <1>0, <3>1 DEF CInv, Running
    <3>3. Tail(todo[u]) \in Seq(Rule) /\ rules' \o Tail(todo[u]) = rules \o todo[u]
      BY <1>0, <3>1, <3>2, MoveHead
    <3>4. rules \o todo[u] \in RuleLists /\ \A v \in User : user[v] = "add" => v = u
      BY <3>1 DEF RulesFrom, Adding
    <3>5. ASSUME NEW v \in User, user'[v] = "add" PROVE v = u /\ todo'[v] = Tail(todo[u])
      BY <1>0, <3>1, <3>4, <3>5
    <3> QED BY <3>3, <3>4, <3>5 DEF Adding
  <2> QED BY <1>5, <2>1, <2>2, <2>3, <2>4 DEF Request
<1> QED BY <1>1, <1>2, <1>3, <1>4, <1>5 DEF Next

\* The first rule that covers an exempt process does not redirect it, in any beginning of a list.
LEMMA ChosenStep == ASSUME CInv, RulesFrom, Chosen, [Next]_vars PROVE Chosen'
<1> DEFINE Good(c) == /\ pc[c] \in {"new", "match", "acquire"} => redirected[c] = FALSE
                      /\ Exempt(proc[c], known[c]) =>
                            pc[c] \in {"new", "match", "done"} /\ redirected[c] = FALSE
<1> SUFFICES ASSUME overlapped' = FALSE, NEW c \in Conn PROVE Good(c)'
  BY DEF Chosen
<1>0. /\ pc \in [Conn -> {"new", "match", "acquire", "enqueue", "count", "apply", "done"}]
      /\ redirected \in [Conn -> BOOLEAN] /\ overlapped \in BOOLEAN
      /\ known \in [Conn -> SUBSET Identity]
  BY DEF CInv, TypeOK
<1>1. proc' = proc /\ overlapped = FALSE
  BY DEF Next, DriverEntry, DriverEntryFails, DriverUnload, Callout, Classify, IdentifyFails,
         ClassifyMatch, AcquireFails, Prepare, Enqueue, EnqueueFull, CountRedirect,
         ApplyModifiedLayerData, Request, PeekBatch, CopyBatch, ReadCounter, CompleteStats,
         ClearRules, SetRules, AddRule, AddRuleFails, ruleVars, calloutVars, vars,
         CInv, TypeOK
<1>2. Good(c) BY <1>1 DEF Chosen
<1>5. ASSUME pc'[c] = pc[c], redirected'[c] = redirected[c], known'[c] = known[c]
      PROVE  Good(c)'
  <2>1. Exempt(proc'[c], known'[c]) = Exempt(proc[c], known[c]) BY <1>1, <1>5
  <2> QED BY <1>2, <1>5, <2>1
<1>3. CASE UNCHANGED vars \/ DriverEntry \/ DriverEntryFails \/ DriverUnload
           \/ \E u \in User : Request(u)
  <2>1. UNCHANGED <<pc, redirected, known>>
    BY <1>3 DEF DriverEntry, DriverEntryFails, DriverUnload, Request, PeekBatch, CopyBatch,
                ReadCounter, CompleteStats, ClearRules, SetRules, AddRule, AddRuleFails,
                calloutVars, vars
  <2> QED BY <1>5, <2>1
<1>4. ASSUME NEW d \in Conn, Callout(d) PROVE Good(c)'
  <2>1. CASE d # c
    <3>1. pc'[c] = pc[c] /\ redirected'[c] = redirected[c] /\ known'[c] = known[c]
      BY <1>0, <1>4, <2>1 DEF Callout, Classify, IdentifyFails, ClassifyMatch, AcquireFails,
         Permit, Prepare, Enqueue, EnqueueFull, CountRedirect, ApplyModifiedLayerData
    <3> QED BY <1>5, <3>1
  <2>2. CASE d = c
    <3>1. CASE Classify(c)
      <4>1. pc'[c] = "match" /\ redirected'[c] = redirected[c] /\ pc[c] = "new"
        BY <1>0, <3>1 DEF Classify
      <4> QED BY <1>2, <4>1
    <3>2. CASE IdentifyFails(c) \/ AcquireFails(c)
      <4>1. pc'[c] = "done" /\ redirected'[c] = redirected[c] /\ pc[c] \in {"new", "acquire"}
        BY <1>0, <3>2 DEF IdentifyFails, AcquireFails, Permit
      <4> QED BY <1>2, <4>1
    <3>3. CASE ClassifyMatch(c)
      <4>1. pc[c] = "match" /\ redirected'[c] = redirected[c] BY <3>3 DEF ClassifyMatch
      <4>2. CASE MatchRule(proc[c], known[c]) = "redirect"
        <5>1. pc'[c] = "acquire" /\ known'[c] = known[c]
          BY <1>0, <3>3, <4>2 DEF ClassifyMatch
        <5>2. ~Exempt(proc[c], known[c]) BY <1>1, <4>2, ExemptIsNotMatched
        <5>3. ~Exempt(proc'[c], known'[c]) BY <1>1, <5>1, <5>2
        <5> QED BY <1>2, <4>1, <5>1, <5>3
      <4>3. CASE MatchRule(proc[c], known[c]) # "redirect"
        <5>1. pc'[c] = "done" BY <1>0, <3>3, <4>3 DEF ClassifyMatch, Permit
        <5> QED BY <1>2, <4>1, <5>1
      <4> QED BY <4>2, <4>3
    <3>4. CASE Prepare(c) \/ Enqueue(c) \/ CountRedirect(c) \/ EnqueueFull(c)
               \/ ApplyModifiedLayerData(c)
      <4>1. /\ pc[c] \in {"acquire", "enqueue", "count", "apply"} /\ known'[c] = known[c]
            /\ pc'[c] \in {"enqueue", "count", "apply", "done"}
        BY <1>0, <3>4 DEF Prepare, Enqueue, CountRedirect, EnqueueFull, ApplyModifiedLayerData
      <4>2. ~Exempt(proc[c], known[c]) BY <1>2, <4>1
      <4>3. ~Exempt(proc'[c], known'[c]) BY <1>1, <4>1, <4>2
      <4> QED BY <4>1, <4>3
    <3> QED BY <1>4, <2>2, <3>1, <3>2, <3>3, <3>4 DEF Callout
  <2> QED BY <2>1, <2>2
<1> QED BY <1>3, <1>4 DEF Next

\* A connection whose process is exempt by what was found of its name and path is never
\* redirected while one rule list replaces another, for any rule lists.
THEOREM ExemptNotRedirected == Spec => []ExemptStaysExempt
<1>1. RulesFrom /\ Chosen /\ CInv => ExemptStaysExempt
  BY DEF Chosen, ExemptStaysExempt, CInv, TypeOK
<1> QED BY <1>1, RulesInit, RulesStep, ChosenStep, DriverCounts, PTL DEF Spec
=============================================================================
