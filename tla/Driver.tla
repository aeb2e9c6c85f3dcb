------------------------------- MODULE Driver -------------------------------
(***************************************************************************)
(* The kernel driver: loading and unloading (DriverEntry.c), the WFP       *)
(* callout that decides for each new connection (WfpCallout.c), the queue  *)
(* of redirect records and the rule list (RedirectService.c), and the      *)
(* device requests of user programs (IoctlHandler.c).                      *)
(*                                                                         *)
(* The callout runs on any processor for several connections at once; the  *)
(* device requests run on the threads that issue them.  Queue and rules    *)
(* have a spin lock each: a section under a lock is one step, everything   *)
(* else is a step of its own.  Names, paths and addresses are reduced to   *)
(* the process a connection belongs to and to which processes a rule's     *)
(* pattern occurs in.                                                      *)
(***************************************************************************)
EXTENDS Integers, Sequences, FiniteSets

CONSTANTS
    Conn,           \* connections the callout is asked about
    Proc,           \* processes
    User,           \* threads of user programs issuing device requests
    RuleLists,      \* the rule lists programs send
    Lookups,        \* the parts of an identity a lookup may find
    QueueMaxCount,  \* MAX_REDIRECT_QUEUE_SIZE (4096)
    BatchMax,       \* records per IOCTL_REDIRECTOR_GET_PENDING (64)
    MaxLoads        \* bound: how often the driver is loaded

Actions == {"permit", "redirect", "block"}

\* RULE_ENTRY: the pattern is what it occurs in, as a name or in a path.
Rule == [action : Actions, isWildcard : BOOLEAN, isPathRule : BOOLEAN,
         inName : SUBSET Proc, inPath : SUBSET Proc]

\* What is looked up of a process.
Identity == {"name", "path"}

ASSUME DriverAssumption ==
    /\ IsFiniteSet(Conn)
    /\ RuleLists \subseteq Seq(Rule) /\ Lookups \subseteq SUBSET Identity
    /\ QueueMaxCount \in Nat \ {0} /\ BatchMax \in Nat \ {0} /\ MaxLoads \in Nat

VARIABLES
    loads,      \* times DriverEntry was called
    loaded,     \* DriverEntry returned success, DriverUnload not yet called
    held,       \* device, engine, redirect handle, callout that exist
    filtering,  \* the callout and its filter were added to the engine
    queue,      \* RedirectQueue: the connections of the queued records
    queueCount, nextId, total, failed,  \* QueueCount .. FailedRedirects
    event,      \* RedirectEvent is signalled
    rules,      \* RulesList
    rulesCount, \* RulesCount
    pc,         \* where the callout is for each connection
    proc,       \* its process
    known,      \* the parts of its identity that were found (for a redirected
                \* connection also after the callout has returned)
    redirectId, \* RedirectId of its record (0: none)
    memory,     \* its record: none, held, freed
    redirected, \* connectRequest->redirectHandle was applied
    user,       \* where each requesting thread is
    batch,      \* redirects[] of GET_PENDING
    todo,       \* rules SET_RULES has still to add
    stats,      \* what GET_STATS has read so far
    handed,     \* history: connections whose records PeekBatch returned
    refused,    \* history: connections whose record was refused
    overlapped  \* history: a thread changed the rules while another added some

driverVars  == <<loads, loaded, held, filtering>>
queueVars   == <<queue, queueCount, nextId, total, failed, event>>
ruleVars    == <<rules, rulesCount, overlapped>>
calloutVars == <<pc, proc, known, redirectId, redirected>>
userVars    == <<user, batch, todo, stats>>
vars == <<driverVars, queueVars, ruleVars, calloutVars, userVars, memory,
          handed, refused>>

Counters == {"pending", "total", "failed"}
NoStats == [name \in Counters |-> 0]

Init ==
    /\ loads = 0 /\ loaded = FALSE /\ held = {} /\ filtering = FALSE
    /\ queue = <<>> /\ queueCount = 0 /\ nextId = 0 /\ total = 0 /\ failed = 0
    /\ event = FALSE
    /\ rules = <<>> /\ rulesCount = 0
    /\ pc = [c \in Conn |-> "new"] /\ proc \in [Conn -> Proc]
    /\ known = [c \in Conn |-> {}]
    /\ redirectId = [c \in Conn |-> 0] /\ redirected = [c \in Conn |-> FALSE]
    /\ memory = [c \in Conn |-> "none"]
    /\ user = [u \in User |-> "idle"] /\ batch = [u \in User |-> <<>>]
    /\ todo = [u \in User |-> <<>>] /\ stats = [u \in User |-> NoStats]
    /\ handed = <<>> /\ refused = {} /\ overlapped = FALSE

Elements(s) == {s[i] : i \in 1 .. Len(s)}

-----------------------------------------------------------------------------
(* DriverEntry and DriverUnload                                             *)

\* What DriverEntry acquires, in its order.  The symbolic link is created
\* after the device, in the same function.
Steps == <<"device", "link", "engine", "handle", "callout">>

\* The error path of the step that failed: IoctlHandler_CreateDevice deletes
\* the device when the link fails, WfpCallout_Register the handle when the
\* callout fails, DriverEntry the rest.
\* Fault: the error path of the callout keeps the redirect handle.
UndoKeepsHandle(step) ==
    CASE step = "device"  -> {}
      [] step = "link"    -> {"device"}
      [] step = "engine"  -> {"device", "link"}
      [] step = "handle"  -> {"device", "link", "engine"}
      [] step = "callout" -> {"device", "link", "engine"}
Undo(step) ==
    CASE step = "device"  -> {}
      [] step = "link"    -> {"device"}
      [] step = "engine"  -> {"device", "link"}
      [] step = "handle"  -> {"device", "link", "engine"}
      [] step = "callout" -> {"device", "link", "engine", "handle"}

\* RedirectService_Initialize zeroes the structure.
InitializeService ==
    /\ queue' = <<>> /\ queueCount' = 0 /\ nextId' = 1 /\ total' = 0 /\ failed' = 0
    /\ event' = FALSE
    /\ rules' = <<>> /\ rulesCount' = 0

\* RedirectService_Cleanup frees the queued records and the rules.
CleanupService ==
    /\ memory' = [c \in Conn |-> IF c \in Elements(queue) THEN "freed" ELSE memory[c]]
    /\ queue' = <<>> /\ queueCount' = 0
    /\ rules' = <<>> /\ rulesCount' = 0

\* WfpCallout_Register only logs a failure of FwpmCalloutAdd or FwpmFilterAdd:
\* the driver is then loaded and its callout is never called.
DriverEntry ==
    /\ ~loaded /\ loads < MaxLoads
    /\ loads' = loads + 1
    /\ loaded' = TRUE /\ held' = Elements(Steps)
    /\ filtering' \in BOOLEAN
    /\ InitializeService
    /\ UNCHANGED <<overlapped, calloutVars, userVars, memory, handed, refused>>

DriverEntryFails ==
    /\ ~loaded /\ loads < MaxLoads
    /\ loads' = loads + 1
    /\ \E i \in 1 .. Len(Steps) :
          held' = (held \cup {Steps[j] : j \in 1 .. i - 1}) \ Undo(Steps[i])
    /\ InitializeService
    /\ UNCHANGED <<loaded, filtering, overlapped, calloutVars, userVars, memory,
                   handed, refused>>

\* Windows unloads a driver when nobody has its device open, so that no device
\* request is running, and FwpsCalloutUnregisterById returns when no callout
\* function is running (both external).
\* Fault: Cleanup unlinks the records without freeing them.
DriverUnloadLeaks ==
    /\ loaded
    /\ \A u \in User : user[u] = "idle"
    /\ \A c \in Conn : pc[c] \in {"new", "done"}
    /\ loaded' = FALSE /\ filtering' = FALSE /\ held' = {}
    /\ queue' = <<>> /\ queueCount' = 0
    /\ rules' = <<>> /\ rulesCount' = 0
    /\ UNCHANGED <<loads, nextId, total, failed, event, overlapped, calloutVars,
                   userVars, memory, handed, refused>>
DriverUnload ==
    /\ loaded
    /\ \A u \in User : user[u] = "idle"
    /\ \A c \in Conn : pc[c] \in {"new", "done"}
    /\ loaded' = FALSE /\ filtering' = FALSE /\ held' = {}
    /\ CleanupService
    /\ UNCHANGED <<loads, nextId, total, failed, event, overlapped, calloutVars,
                   userVars, handed, refused>>

-----------------------------------------------------------------------------
(* TcpRedirectClassify                                                      *)

\* RedirectService_IdentifyProcess: the image name and the path are looked up one
\* after the other, and one that is not found stays empty, with success.
Classify(c) ==
    /\ loaded /\ filtering /\ pc[c] = "new"
    /\ pc' = [pc EXCEPT ![c] = "match"]
    /\ \E found \in Lookups : known' = [known EXCEPT ![c] = found]
    /\ UNCHANGED <<driverVars, queueVars, ruleVars, proc, redirectId, redirected,
                   userVars, memory, handed, refused>>

\* The callout returns with the default, FWP_ACTION_PERMIT.
Permit(c) ==
    /\ pc' = [pc EXCEPT ![c] = "done"]
    /\ known' = [known EXCEPT ![c] = {}]

\* PsLookupProcessByProcessId fails: a process that has gone is let through.
IdentifyFails(c) ==
    /\ loaded /\ filtering /\ pc[c] = "new"
    /\ Permit(c)
    /\ UNCHANGED <<driverVars, queueVars, ruleVars, proc, redirectId, redirected,
                   userVars, memory, handed, refused>>

\* A pattern does not occur in a name or path that was not found.  (An empty one
\* occurs in every string: as a rule it is a wildcard.)
Covers(rule, p, found) ==
    \/ rule.isWildcard
    \/ IF rule.isPathRule THEN "path" \in found /\ p \in rule.inPath
                          ELSE "name" \in found /\ p \in rule.inName

\* The action of the first rule of the list that covers the process.
MatchRule(p, found) ==
    LET hits == {i \in 1 .. Len(rules) : Covers(rules[i], p, found)}
    IN  IF hits = {} THEN "permit"
        ELSE rules[CHOOSE i \in hits : \A j \in hits : i <= j].action

\* Any action but redirect, block too, permits the connection.
ClassifyMatch(c) ==
    /\ pc[c] = "match"
    /\ IF MatchRule(proc[c], known[c]) = "redirect"
       THEN pc' = [pc EXCEPT ![c] = "acquire"] /\ UNCHANGED known
       ELSE Permit(c)
    /\ UNCHANGED <<driverVars, queueVars, ruleVars, proc, redirectId, redirected,
                   userVars, memory, handed, refused>>

\* No classify handle, no writable layer data or no memory for the record:
\* the connection goes on as it was.
AcquireFails(c) ==
    /\ pc[c] = "acquire"
    /\ Permit(c)
    /\ UNCHANGED <<driverVars, queueVars, ruleVars, proc, redirectId, redirected,
                   userVars, memory, handed, refused>>

\* The record is allocated and filled in, then connectRequest->redirectHandle
\* is set: from here on the layer data say `redirect'.
Prepare(c) ==
    /\ pc[c] = "acquire"
    /\ memory' = [memory EXCEPT ![c] = "held"]
    /\ pc' = [pc EXCEPT ![c] = "enqueue"]
    /\ UNCHANGED <<driverVars, queueVars, ruleVars, proc, known, redirectId, redirected,
                   userVars, handed, refused>>

\* RedirectService_Enqueue holds QueueLock from the test of QueueCount to the
\* increment of TotalRedirects; GET_STATS reads both without it, so the increments
\* are two steps.  InterlockedIncrement returns the value after the increment.
\* A refused record is freed by the caller.
QueueLockFree == \A c \in Conn : pc[c] # "count"

Enqueue(c) ==
    /\ pc[c] = "enqueue" /\ QueueLockFree
    /\ queueCount < QueueMaxCount
    /\ queue' = Append(queue, c) /\ queueCount' = queueCount + 1
    /\ nextId' = nextId + 1 /\ redirectId' = [redirectId EXCEPT ![c] = nextId + 1]
    /\ pc' = [pc EXCEPT ![c] = "count"]
    /\ UNCHANGED <<driverVars, total, failed, event, ruleVars, proc, known, redirected,
                   userVars, memory, handed, refused>>

\* The lock is released, and KeSetEvent follows.  Nothing in the driver waits for the
\* event or clears it, so that it makes no step of its own.
CountRedirect(c) ==
    /\ pc[c] = "count"
    /\ total' = total + 1
    /\ event' = TRUE
    /\ pc' = [pc EXCEPT ![c] = "apply"]
    /\ UNCHANGED <<driverVars, queue, queueCount, nextId, failed, ruleVars, proc,
                   known, redirectId, redirected, userVars, memory, handed, refused>>

EnqueueFull(c) ==
    /\ pc[c] = "enqueue" /\ QueueLockFree
    /\ queueCount >= QueueMaxCount
    /\ failed' = failed + 1
    /\ refused' = refused \cup {c}
    /\ memory' = [memory EXCEPT ![c] = "freed"]
    /\ pc' = [pc EXCEPT ![c] = "apply"]
    /\ UNCHANGED <<driverVars, queue, queueCount, nextId, total, event, ruleVars, proc,
                   known, redirectId, redirected, userVars, handed>>

\* FwpsApplyModifiedLayerData0, whether or not the record was accepted.
ApplyModifiedLayerData(c) ==
    /\ pc[c] = "apply"
    /\ redirected' = [redirected EXCEPT ![c] = TRUE]
    /\ pc' = [pc EXCEPT ![c] = "done"]
    /\ UNCHANGED <<driverVars, queueVars, ruleVars, proc, known, redirectId, userVars,
                   memory, handed, refused>>

-----------------------------------------------------------------------------
(* IoctlHandler_DeviceControl                                               *)

\* IOCTL_REDIRECTOR_GET_PENDING for a buffer of n packets (n was limited to
\* BatchMax): RedirectService_PeekBatch unlinks the records under QueueLock.
\* Without a record, or for n = 0, the request fails and changes nothing.
\* Fault: RemoveTailList instead of RemoveHeadList.
PeekBatchTail(u, n) ==
    LET k == IF n <= Len(queue) THEN n ELSE Len(queue) IN
    /\ loaded /\ user[u] = "idle" /\ queue # <<>> /\ QueueLockFree
    /\ batch' = [batch EXCEPT ![u] = SubSeq(queue, Len(queue) - k + 1, Len(queue))]
    /\ handed' = handed \o batch'[u]
    /\ queue' = SubSeq(queue, 1, Len(queue) - k)
    /\ queueCount' = queueCount - k
    /\ user' = [user EXCEPT ![u] = "copy"]
    /\ UNCHANGED <<driverVars, nextId, total, failed, event, ruleVars,
                   calloutVars, todo, stats, memory, refused>>
PeekBatch(u, n) ==
    LET k == IF n <= Len(queue) THEN n ELSE Len(queue) IN
    /\ loaded /\ user[u] = "idle" /\ queue # <<>> /\ QueueLockFree
    /\ batch' = [batch EXCEPT ![u] = SubSeq(queue, 1, k)]
    /\ handed' = handed \o batch'[u]
    /\ queue' = SubSeq(queue, k + 1, Len(queue))
    /\ queueCount' = queueCount - k
    /\ user' = [user EXCEPT ![u] = "copy"]
    /\ UNCHANGED <<driverVars, nextId, total, failed, event, ruleVars,
                   calloutVars, todo, stats, memory, refused>>

\* The packets are filled in, the records freed and the request completed.
CopyBatch(u) ==
    /\ user[u] = "copy"
    /\ memory' = [c \in Conn |-> IF c \in Elements(batch[u]) THEN "freed" ELSE memory[c]]
    /\ batch' = [batch EXCEPT ![u] = <<>>]
    /\ user' = [user EXCEPT ![u] = "idle"]
    /\ UNCHANGED <<driverVars, queueVars, ruleVars, calloutVars, todo, stats,
                   handed, refused>>

\* IOCTL_REDIRECTOR_GET_STATS: RedirectService_GetStats reads the three
\* counters one after the other, without the lock.
\* Fault: TotalRedirects is read before QueueCount.
StatsOrderSwapped == <<"total", "pending", "failed">>
StatsOrder == <<"pending", "total", "failed">>

Counter(name) ==
    CASE name = "pending" -> queueCount
      [] name = "total"   -> total
      [] name = "failed"  -> failed

Reading == <<"idle", "stats2", "stats3", "answer">>

ReadCounter(u, i) ==
    /\ loaded /\ user[u] = Reading[i]
    /\ stats' = [stats EXCEPT ![u][StatsOrder[i]] = Counter(StatsOrder[i])]
    /\ user' = [user EXCEPT ![u] = Reading[i + 1]]
    /\ UNCHANGED <<driverVars, queueVars, ruleVars, calloutVars, batch, todo, memory,
                   handed, refused>>

\* The request is completed with the three values.
CompleteStats(u) ==
    /\ user[u] = "answer"
    /\ stats' = [stats EXCEPT ![u] = NoStats]
    /\ user' = [user EXCEPT ![u] = "idle"]
    /\ UNCHANGED <<driverVars, queueVars, ruleVars, calloutVars, batch, todo, memory,
                   handed, refused>>

\* IOCTL_REDIRECTOR_CLEAR_RULES, and the first half of IOCTL_REDIRECTOR_SET_RULES
\* for a list that is not empty: RedirectService_ClearRules under RulesLock.
Adding == {u \in User : user[u] = "add"}
ClearRules(u) ==
    /\ loaded /\ user[u] = "idle"
    /\ rules' = <<>> /\ rulesCount' = 0
    /\ overlapped' = (overlapped \/ Adding # {})
    /\ UNCHANGED <<driverVars, queueVars, calloutVars, userVars, memory, handed, refused>>

SetRules(u, list) ==
    /\ loaded /\ user[u] = "idle" /\ list # <<>>
    /\ rules' = <<>> /\ rulesCount' = 0
    /\ overlapped' = (overlapped \/ Adding # {})
    /\ todo' = [todo EXCEPT ![u] = list]
    /\ user' = [user EXCEPT ![u] = "add"]
    /\ UNCHANGED <<driverVars, queueVars, calloutVars, batch, stats, memory, handed, refused>>

\* RedirectService_AddRule, one lock section for each rule ...
AddRule(u) ==
    /\ user[u] = "add"
    /\ rules' = Append(rules, Head(todo[u])) /\ rulesCount' = rulesCount + 1
    /\ todo' = [todo EXCEPT ![u] = Tail(@)]
    /\ user' = [user EXCEPT ![u] = IF Len(todo[u]) = 1 THEN "idle" ELSE "add"]
    /\ UNCHANGED <<overlapped, driverVars, queueVars, calloutVars, batch, stats, memory,
                   handed, refused>>

\* ... and the first one without memory ends the request.
\* Fault: the loop goes on with the next rule.
AddRuleSkips(u) ==
    /\ user[u] = "add"
    /\ todo' = [todo EXCEPT ![u] = Tail(@)]
    /\ user' = [user EXCEPT ![u] = IF Len(todo[u]) = 1 THEN "idle" ELSE "add"]
    /\ UNCHANGED <<driverVars, queueVars, ruleVars, calloutVars, batch, stats, memory,
                   handed, refused>>
AddRuleFails(u) ==
    /\ user[u] = "add"
    /\ todo' = [todo EXCEPT ![u] = <<>>]
    /\ user' = [user EXCEPT ![u] = "idle"]
    /\ UNCHANGED <<driverVars, queueVars, ruleVars, calloutVars, batch, stats, memory,
                   handed, refused>>

-----------------------------------------------------------------------------
Callout(c) ==
    \/ Classify(c) \/ IdentifyFails(c) \/ ClassifyMatch(c) \/ AcquireFails(c)
    \/ Prepare(c) \/ Enqueue(c) \/ CountRedirect(c) \/ EnqueueFull(c)
    \/ ApplyModifiedLayerData(c)

Request(u) ==
    \/ \E n \in 1 .. BatchMax : PeekBatch(u, n)
    \/ CopyBatch(u)
    \/ \E i \in 1 .. 3 : ReadCounter(u, i)
    \/ CompleteStats(u)
    \/ ClearRules(u) \/ \E list \in RuleLists : SetRules(u, list)
    \/ AddRule(u) \/ AddRuleFails(u)

Next ==
    \/ DriverEntry \/ DriverEntryFails \/ DriverUnload
    \/ \E c \in Conn : Callout(c)
    \/ \E u \in User : Request(u)

Spec == Init /\ [][Next]_vars

-----------------------------------------------------------------------------
(* Properties                                                               *)

TypeOK ==
    /\ loads \in 0 .. MaxLoads /\ loaded \in BOOLEAN /\ filtering \in BOOLEAN
    /\ held \subseteq Elements(Steps)
    /\ queue \in Seq(Conn) /\ queueCount \in 0 .. QueueMaxCount
    /\ nextId \in Nat /\ total \in Nat /\ failed \in Nat /\ event \in BOOLEAN
    /\ overlapped \in BOOLEAN /\ refused \subseteq Conn
    /\ rules \in Seq(Rule) /\ rulesCount \in Nat
    /\ pc \in [Conn -> {"new", "match", "acquire", "enqueue", "count", "apply", "done"}]
    /\ proc \in [Conn -> Proc] /\ known \in [Conn -> SUBSET Identity]
    /\ redirectId \in [Conn -> Nat]
    /\ redirected \in [Conn -> BOOLEAN]
    /\ memory \in [Conn -> {"none", "held", "freed"}]
    /\ user \in [User -> {"idle", "copy", "add", "stats2", "stats3", "answer"}]
    /\ batch \in [User -> Seq(Conn)] /\ todo \in [User -> Seq(Rule)]
    /\ stats \in [User -> [Counters -> Int]]
    /\ handed \in Seq(Conn)

\* The two counters kept beside the lists are exact whatever calls interleave, the
\* queue never exceeds its limit, and no more records wait than were accepted, but
\* for the one whose callout has not counted it yet.
CountersExact ==
    /\ queueCount = Len(queue) /\ queueCount <= QueueMaxCount
    /\ rulesCount = Len(rules)
    /\ queueCount <= IF QueueLockFree THEN total ELSE total + 1

\* Every record in memory has one owner - the callout that made it, the queue or
\* one GET_PENDING request - and a freed one has none: nothing is freed twice,
\* used after it is freed, or lost.
Places(c) ==
    (IF pc[c] = "enqueue" THEN {<<"callout">>} ELSE {})
      \cup {<<"queue", i>> : i \in {i \in 1 .. Len(queue) : queue[i] = c}}
      \cup UNION {{<<u, i>> : i \in {i \in 1 .. Len(batch[u]) : batch[u][i] = c}} :
                        u \in User}
RecordsOwned ==
    \A c \in Conn : Cardinality(Places(c)) = (IF memory[c] = "held" THEN 1 ELSE 0)

\* An unloaded driver, and one whose loading failed at any step, leaves behind
\* no device, engine session, redirect handle, callout, record or rule.
UnloadedHoldsNothing ==
    ~loaded => /\ held = {} /\ queue = <<>> /\ rules = <<>>
               /\ \A c \in Conn : memory[c] # "held"

\* The statistics a program gets are read without the lock, counter by counter, yet
\* show at most one record more waiting than were ever accepted: QueueLock lets one
\* callout at a time be between the two increments, and what was read as waiting has
\* been counted when the next callout is there.
StatsConsistent ==
    \A u \in User : user[u] = "answer" => stats[u]["pending"] <= stats[u]["total"] + 1

\* Without that one record the statistics do not agree: a request can read
\* QueueCount between its increment and that of TotalRedirects.
StatsAgree ==
    \A u \in User : user[u] = "answer" => stats[u]["pending"] <= stats[u]["total"]

\* A connection whose process, by what was found of its name and path, every rule list
\* exempts (the first rule that covers it does not redirect) is never redirected, also
\* while one list replaces another rule by rule, or when that stops half-way for want
\* of memory.  Two requests that change the rules at the same time can interleave their
\* rules into a list nobody sent, without the exemption.
Exempt(p, found) ==
    \A list \in RuleLists : \A i \in 1 .. Len(list) :
        (Covers(list[i], p, found) /\ list[i].action = "redirect") =>
            \E j \in 1 .. i - 1 : Covers(list[j], p, found)
ExemptStaysExempt ==
    ~overlapped => \A c \in Conn : Exempt(proc[c], known[c]) => ~redirected[c]

\* The rules speak of the process and not of what a lookup finds: with a path that is
\* not found, a process exempted by its path is taken for one the wildcard covers, and
\* is redirected.
ExemptByRule ==
    ~overlapped => \A c \in Conn : Exempt(proc[c], Identity) => ~redirected[c]

\* The queue hands out every accepted record once and in order, to however many
\* readers, and refuses one only when QueueMaxCount are waiting (RedirectFifo).
Fifo == INSTANCE RedirectFifo WITH
    Max <- QueueMaxCount, Batch <- BatchMax, pending <- queue
QueueIsFifo == Fifo!Spec

\* "Flag as redirected" stands in the branch of an accepted record: a connection
\* whose record was refused is not redirected.
RefusedIsNotRedirected == \A c \in refused : ~redirected[c]
=============================================================================
