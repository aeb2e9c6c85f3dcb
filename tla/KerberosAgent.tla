--------------------------- MODULE KerberosAgent ---------------------------
(***************************************************************************)
(* KerberosAgentProvider, the service's end of the pipe to the AuthAgent   *)
(* process, together with the agent's ContextStore.  Connection threads    *)
(* create, continue and close security contexts; a keepalive thread pings; *)
(* all share one pipe handle, a flag m_connected that is read without the  *)
(* lock, and a mutex held from the write of a request to the read of its   *)
(* answer.  The agent may die at any time and then starts with an empty    *)
(* store and its ids from 1 again; or an exception outside HandleRequest's *)
(* try makes it drop the service and listen again, its store kept.         *)
(*                                                                         *)
(* ConnectToAgent retries for five seconds: it is taken to find the agent  *)
(* if it is alive; of several agents the first is taken to be found.  The  *)
(* message contents are left out: an answer says whether it is an error,   *)
(* and gives the id of a new context.                                      *)
(***************************************************************************)
EXTENDS Naturals, Sequences, FiniteSets

CONSTANTS
    Thread,     \* connection threads
    Keeper,     \* the keepalive thread
    MaxCreates, \* bound: contexts a thread creates
    MaxCrashes, \* bound: times the agent dies or drops the service
    Cooldown,   \* may ten seconds pass after a launch?
    Nobody      \* no holder of the mutex

Actor == Thread \cup {Keeper}

ASSUME AgentAssumption ==
    /\ IsFiniteSet(Thread) /\ Keeper \notin Thread /\ Nobody \notin Actor
    /\ MaxCreates \in Nat /\ MaxCrashes \in Nat
    /\ Cooldown \in BOOLEAN

VARIABLES
    pipe,       \* m_pipe: none, good, broken (the agent's end is closed)
    connected,  \* m_connected
    mutex,      \* m_pipeMutex: its holder
    pc, op,     \* where each thread is, and with which request
    ctx,        \* the context id a connection thread holds (0: none)
    failed,     \* its context failed: all that is left is to close it
    left,       \* contexts left to the agent's time limit, because the call
                \* that would have closed or returned them failed (history)
    made,       \* contexts it asked for
    flag,       \* s_launchInProgress
    cooling,    \* s_lastLaunchTime is less than 10 s ago
    launched,   \* agents launched and not yet 10 s old
    agent,      \* the agent process: dead, listening, serving
    spare,      \* further agent processes, all listening
    store,      \* ContextStore: ids with the thread they were made for
    nextId,     \* m_nextId of the store
    reqs, resps,\* the pipe's two directions
    crashes

localVars == <<pc, op, ctx, left, failed, made>>
launchVars == <<flag, cooling, launched>>
wire == <<reqs, resps>>
agentVars == <<agent, spare, store, nextId, crashes>>
vars == <<pipe, connected, mutex, localVars, launchVars, wire, agentVars>>

Init ==
    /\ pipe = "none" /\ connected = FALSE /\ mutex = Nobody
    /\ pc = [t \in Actor |-> "idle"]
    /\ op = [t \in Actor |-> "none"]
    /\ ctx = [t \in Thread |-> 0] /\ left = {}
    /\ failed = [t \in Thread |-> FALSE]
    /\ made = [t \in Thread |-> 0]
    /\ flag = FALSE /\ cooling = FALSE /\ launched = 0
    /\ agent \in {"dead", "listening"} /\ spare = 0
    /\ store = {} /\ nextId = 1
    /\ reqs = <<>> /\ resps = <<>>
    /\ crashes = 0

Goto(t, where) == pc' = [pc EXCEPT ![t] = where]

-----------------------------------------------------------------------------
(* The requests of a connection thread                                      *)

\* EnsureConnected: its test of m_connected takes no lock.
Ensure(t, request) ==
    /\ op' = [op EXCEPT ![t] = request]
    /\ Goto(t, IF connected THEN "check" ELSE "connect")

CreateContext(t) ==
    /\ pc[t] = "idle" /\ ctx[t] = 0 /\ made[t] < MaxCreates
    /\ Ensure(t, "create")
    /\ made' = [made EXCEPT ![t] = @ + 1]
    /\ UNCHANGED <<pipe, connected, mutex, ctx, left, failed,
                   launchVars, wire, agentVars>>

ContinueContext(t) ==
    /\ pc[t] = "idle" /\ ctx[t] # 0 /\ ~failed[t]
    /\ Ensure(t, "continue")
    /\ UNCHANGED <<pipe, connected, mutex, ctx, left, failed, made,
                   launchVars, wire, agentVars>>

CloseContext(t) ==
    /\ pc[t] = "idle" /\ ctx[t] # 0
    /\ Ensure(t, "close")
    /\ UNCHANGED <<pipe, connected, mutex, ctx, left, failed, made,
                   launchVars, wire, agentVars>>

\* The second test of m_connected, before the call.
CheckConnected(t) ==
    /\ pc[t] = "check" /\ connected /\ t # Keeper
    /\ Goto(t, "call")
    /\ UNCHANGED <<pipe, connected, mutex, op, ctx, left, failed, made,
                   launchVars, wire, agentVars>>

Ids(contexts) == {e.id : e \in contexts}

\* A request that failed: the thread holds no new context, takes one it wanted
\* to close for closed, and follows a continuation by CloseContext.
GiveUp(t) ==
    /\ Goto(t, "idle")
    /\ ctx' = [ctx EXCEPT ![t] = IF op[t] = "close" THEN 0 ELSE @]
    /\ left' = IF op[t] = "close" THEN left \cup (Ids(store) \cap {ctx[t]}) ELSE left
    /\ failed' = [failed EXCEPT ![t] = (op[t] = "continue")]
    /\ UNCHANGED <<op, made>>

NotAvailable(t) ==
    /\ pc[t] = "check" /\ ~connected /\ t # Keeper
    /\ GiveUp(t)
    /\ UNCHANGED <<pipe, connected, mutex, launchVars, wire, agentVars>>

-----------------------------------------------------------------------------
(* KeepaliveLoop                                                            *)

\* Every 15 s: ping, or connect.
Keepalive ==
    /\ pc[Keeper] = "idle"
    /\ op' = [op EXCEPT ![Keeper] = "ping"]
    /\ Goto(Keeper, IF connected THEN "call" ELSE "connect")
    /\ UNCHANGED <<pipe, connected, mutex, ctx, left, failed, made,
                   launchVars, wire, agentVars>>

\* `continue' after the attempt to connect, whatever it returned.
KeepaliveContinue ==
    /\ pc[Keeper] = "check"
    /\ Goto(Keeper, "idle")
    /\ UNCHANGED <<pipe, connected, mutex, op, ctx, left, failed, made,
                   launchVars, wire, agentVars>>

\* DisconnectFromAgent after a failed ping.
Disconnect ==
    /\ pc[Keeper] = "drop" /\ mutex = Nobody
    /\ Goto(Keeper, "idle")
    /\ connected' = FALSE /\ pipe' = "none"
    /\ UNCHANGED <<mutex, op, ctx, left, failed, made, launchVars, wire, agentVars>>

-----------------------------------------------------------------------------
(* ConnectToAgent, and the launch of an agent                               *)

Connecting(t) == pc[t] \in {"connect", "poll"} /\ mutex = Nobody

\* `if (m_pipe != INVALID_HANDLE_VALUE) return true'.
AlreadyConnected(t) ==
    /\ Connecting(t) /\ pipe # "none"
    /\ Goto(t, "check")
    /\ UNCHANGED <<pipe, connected, mutex, op, ctx, left, failed, made,
                   launchVars, wire, agentVars>>

\* Open the pipe and say hello, all under the mutex.
ConnectToAgent(t) ==
    /\ Connecting(t) /\ pipe = "none" /\ agent = "listening"
    /\ Goto(t, "check")
    /\ pipe' = "good" /\ connected' = TRUE
    /\ agent' = "serving"
    /\ UNCHANGED <<mutex, op, ctx, left, failed, made, launchVars, wire, spare, store,
                   nextId, crashes>>

\* No agent: launch one, or after the last poll give up.
ConnectFails(t) ==
    /\ Connecting(t) /\ pipe = "none" /\ agent = "dead"
    /\ Goto(t, IF pc[t] = "connect" THEN "launch" ELSE "check")
    /\ UNCHANGED <<pipe, connected, mutex, op, ctx, left, failed, made,
                   launchVars, wire, agentVars>>

\* LaunchAuthAgentInUserSession: the test of the last launch's time ...
LaunchCooldown(t) ==
    /\ pc[t] = "launch"
    /\ Goto(t, IF cooling THEN "poll" ELSE "claim")
    /\ UNCHANGED <<pipe, connected, mutex, op, ctx, left, failed, made,
                   launchVars, wire, agentVars>>

\* ... then the flag ...
LaunchClaim(t) ==
    /\ pc[t] = "claim"
    /\ Goto(t, IF flag THEN "poll" ELSE "spawn")
    /\ flag' = TRUE
    /\ UNCHANGED <<pipe, connected, mutex, op, ctx, left, failed, made, cooling,
                   launched, wire, agentVars>>

\* ... the new process ...
LaunchSpawn(t) ==
    /\ pc[t] = "spawn"
    /\ Goto(t, "launched")
    /\ launched' = launched + 1
    /\ IF agent = "dead" THEN agent' = "listening" /\ UNCHANGED spare
       ELSE spare' = spare + 1 /\ UNCHANGED agent
    /\ UNCHANGED <<pipe, connected, mutex, op, ctx, left, failed, made, flag, cooling,
                   wire, store, nextId, crashes>>

\* (or no session, no token, no process)
LaunchFails(t) ==
    /\ pc[t] = "spawn"
    /\ Goto(t, "poll")
    /\ flag' = FALSE
    /\ UNCHANGED <<pipe, connected, mutex, op, ctx, left, failed, made, cooling,
                   launched, wire, agentVars>>

\* ... the flag is given back BEFORE the time of the launch is stored.
LaunchRelease(t) ==
    /\ pc[t] = "launched"
    /\ Goto(t, "stamp")
    /\ flag' = FALSE
    /\ UNCHANGED <<pipe, connected, mutex, op, ctx, left, failed, made, cooling,
                   launched, wire, agentVars>>

LaunchStamp(t) ==
    /\ pc[t] = "stamp"
    /\ Goto(t, "poll")
    /\ cooling' = TRUE
    /\ UNCHANGED <<pipe, connected, mutex, op, ctx, left, failed, made, flag,
                   launched, wire, agentVars>>

-----------------------------------------------------------------------------
(* Call                                                                     *)

\* Fault: no lock around the exchange.
WriteUnlocked(t) ==
    /\ pc[t] = "call" /\ pipe = "good"
    /\ Goto(t, "read")
    /\ mutex' = t
    /\ reqs' = Append(reqs, [from |-> t, op |-> op[t],
                             id |-> IF t = Keeper THEN 0 ELSE ctx[t]])
    /\ UNCHANGED <<pipe, connected, op, ctx, left, failed, made,
                   launchVars, resps, agentVars>>

\* Lock the mutex and write the request.
CallWrite(t) ==
    /\ pc[t] = "call" /\ mutex = Nobody /\ pipe = "good"
    /\ Goto(t, "read")
    /\ mutex' = t
    /\ reqs' = Append(reqs, [from |-> t, op |-> op[t],
                             id |-> IF t = Keeper THEN 0 ELSE ctx[t]])
    /\ UNCHANGED <<pipe, connected, op, ctx, left, failed, made,
                   launchVars, resps, agentVars>>

\* WriteFile fails: an exception, m_connected keeps its value.
CallWriteFails(t) ==
    /\ pc[t] = "call" /\ mutex = Nobody /\ pipe # "good"
    /\ IF t = Keeper THEN Goto(t, "drop") /\ UNCHANGED <<op, ctx, left, failed, made>>
       ELSE GiveUp(t)
    /\ UNCHANGED <<pipe, connected, mutex, launchVars, wire, agentVars>>

\* Fault: the mutex is not released on the way out.
ReadFailsLocked(t) ==
    /\ pc[t] = "read" /\ resps = <<>> /\ pipe = "broken"
    /\ connected' = FALSE
    /\ IF t = Keeper THEN Goto(t, "drop") /\ UNCHANGED <<op, ctx, left, failed, made>>
       ELSE GiveUp(t)
    /\ UNCHANGED <<pipe, mutex, launchVars, wire, agentVars>>

\* ReadFile fails with ERROR_BROKEN_PIPE: m_connected is cleared, m_pipe is not.
CallReadFails(t) ==
    /\ pc[t] = "read" /\ resps = <<>> /\ pipe = "broken"
    /\ mutex' = Nobody
    /\ connected' = FALSE
    /\ IF t = Keeper THEN Goto(t, "drop") /\ UNCHANGED <<op, ctx, left, failed, made>>
       ELSE GiveUp(t)
    /\ UNCHANGED <<pipe, launchVars, wire, agentVars>>

\* Fault: the context is forgotten after its continuation.
ForgetsContext(t, r) ==
    IF op[t] = "create" /\ r.ok THEN r.id ELSE 0

\* What a connection thread holds after the answer r.
Answered(t, r) ==
    CASE op[t] = "create"   -> IF r.ok THEN r.id ELSE 0
      [] op[t] = "continue" -> ctx[t]
      [] op[t] = "close"    -> 0

CallRead(t) ==
    /\ pc[t] = "read" /\ resps # <<>>
    /\ Goto(t, "idle")
    /\ mutex' = Nobody
    /\ resps' = Tail(resps)
    /\ IF t = Keeper THEN UNCHANGED <<ctx, failed>>
       ELSE /\ ctx' = [ctx EXCEPT ![t] = Answered(t, Head(resps))]
            /\ failed' = [failed EXCEPT ![t] = op[t] = "continue" /\ ~Head(resps).ok]
    /\ UNCHANGED <<pipe, connected, op, left, made, launchVars, reqs, agentVars>>

-----------------------------------------------------------------------------
(* The agent: HandleRequest and the context store                           *)

Known(id) == \E e \in store : e.id = id

Without(id) == {e \in store : e.id # id}

\* The answers HandleRequest may give: SSPI may fail, a continuation may be
\* the last one.  Each is the new store with the answer's ok.
Outcomes(r) ==
    CASE r.op = "create" ->
             {[store |-> store \cup {[id |-> nextId, owner |-> r.from]}, ok |-> TRUE],
              [store |-> store, ok |-> FALSE]}
      [] r.op = "continue" /\ Known(r.id) ->
             {[store |-> store, ok |-> TRUE],
              [store |-> Without(r.id), ok |-> TRUE],
              [store |-> Without(r.id), ok |-> FALSE]}
      [] r.op = "continue" /\ ~Known(r.id) -> {[store |-> store, ok |-> FALSE]}
      [] r.op = "close" -> {[store |-> Without(r.id), ok |-> TRUE]}
      [] r.op = "ping"  -> {[store |-> store, ok |-> TRUE]}

Apply(r, o) ==
    /\ store' = o.store
    /\ nextId' = IF r.op = "create" /\ o.ok THEN nextId + 1 ELSE nextId

HandleRequest ==
    /\ agent = "serving" /\ reqs # <<>>
    /\ \E o \in Outcomes(Head(reqs)) :
        /\ Apply(Head(reqs), o)
        /\ resps' = Append(resps, [from |-> Head(reqs).from, ok |-> o.ok, id |-> nextId])
    /\ reqs' = Tail(reqs)
    /\ UNCHANGED <<pipe, connected, mutex, localVars,
                   launchVars, agent, spare, crashes>>

\* HandleClient: an exception before the request is handled (parsing it, its
\* id), or after it (dumping and sending the answer), ends the loop; the pipe
\* is closed and main listens again, the contexts are kept.
DropClient ==
    /\ agent = "serving" /\ reqs # <<>> /\ crashes < MaxCrashes
    /\ crashes' = crashes + 1
    /\ \E o \in Outcomes(Head(reqs)) \cup {[store |-> store, ok |-> FALSE]} :
        /\ Apply(Head(reqs), o)
        /\ left' = left \cup Ids(o.store \ store)
    /\ agent' = "listening" /\ pipe' = "broken"
    /\ reqs' = <<>> /\ resps' = <<>>
    /\ UNCHANGED <<connected, mutex, pc, op, ctx, failed, made, launchVars, spare>>

\* CleanupExpired, and Get of an expired context.
Expire(id) ==
    /\ Known(id)
    /\ store' = Without(id)
    /\ UNCHANGED <<pipe, connected, mutex, localVars, launchVars, wire, agent,
                   spare, nextId, crashes>>

AgentDies ==
    /\ agent # "dead" /\ crashes < MaxCrashes
    /\ crashes' = crashes + 1
    /\ IF spare > 0 THEN agent' = "listening" /\ spare' = spare - 1
       ELSE agent' = "dead" /\ UNCHANGED spare
    /\ pipe' = IF pipe = "good" THEN "broken" ELSE pipe
    /\ store' = {} /\ nextId' = 1 /\ left' = {}
    /\ reqs' = <<>> /\ resps' = <<>>
    /\ UNCHANGED <<connected, mutex, pc, op, ctx, failed, made, launchVars>>

\* Ten seconds after the last launch.
CooldownEnds ==
    /\ Cooldown /\ cooling
    /\ cooling' = FALSE /\ launched' = 0
    /\ UNCHANGED <<pipe, connected, mutex, localVars, flag, wire, agentVars>>

Request(t) == CreateContext(t) \/ ContinueContext(t) \/ CloseContext(t)

Connect(t) == AlreadyConnected(t) \/ ConnectToAgent(t) \/ ConnectFails(t)

Launch(t) ==
    \/ LaunchCooldown(t) \/ LaunchClaim(t)
    \/ LaunchSpawn(t) \/ LaunchFails(t)
    \/ LaunchRelease(t) \/ LaunchStamp(t)

Call(t) == CallWrite(t) \/ CallWriteFails(t) \/ CallRead(t) \/ CallReadFails(t)

Agent == HandleRequest \/ DropClient \/ AgentDies \/ \E e \in store : Expire(e.id)

Next ==
    \/ \E t \in Thread : Request(t) \/ CheckConnected(t) \/ NotAvailable(t)
    \/ \E t \in Actor : Connect(t) \/ Launch(t) \/ Call(t)
    \/ Keepalive \/ KeepaliveContinue \/ Disconnect
    \/ Agent \/ CooldownEnds

Spec == Init /\ [][Next]_vars

\* Threads run, the agent answers or drops the service, and a thread waiting
\* for the mutex gets it: between two holds of it there are 15 s of sleep or a
\* round trip to the proxy.  No thread has to make a request, and nothing has to fail.
Fairness ==
    /\ WF_vars(Keepalive) /\ WF_vars(KeepaliveContinue) /\ SF_vars(Disconnect)
    /\ WF_vars(HandleRequest \/ DropClient) /\ WF_vars(CooldownEnds)
    /\ \A t \in Thread : WF_vars(CheckConnected(t) \/ NotAvailable(t))
    /\ \A t \in Actor : SF_vars(Connect(t)) /\ WF_vars(Launch(t)) /\ SF_vars(Call(t))

FairSpec == Spec /\ Fairness

-----------------------------------------------------------------------------
(* Properties                                                               *)

PC == {"idle", "connect", "launch", "claim", "spawn", "launched", "stamp",
       "poll", "check", "call", "read", "drop"}

Op == {"none", "create", "continue", "close", "ping"}

\* Types of the provider's and the agent's state: the store holds contexts of
\* connection threads only.
TypeOK ==
    /\ pipe \in {"none", "good", "broken"}
    /\ connected \in BOOLEAN
    /\ mutex \in Actor \cup {Nobody}
    /\ pc \in [Actor -> PC] /\ op \in [Actor -> Op]
    /\ ctx \in [Thread -> Nat] /\ left \subseteq Nat /\ failed \in [Thread -> BOOLEAN]
    /\ made \in [Thread -> 0..MaxCreates]
    /\ flag \in BOOLEAN /\ cooling \in BOOLEAN /\ launched \in Nat
    /\ agent \in {"dead", "listening", "serving"} /\ spare \in Nat
    /\ store \subseteq [id : Nat, owner : Thread]
    /\ nextId \in Nat
    /\ reqs \in Seq([from : Actor, op : Op, id : Nat])
    /\ resps \in Seq([from : Actor, ok : BOOLEAN, id : Nat])
    /\ crashes \in 0..MaxCrashes

\* An answer carries no caller: the one a thread reads is its own only because
\* nothing but the mutex holder's one request or answer is ever in the pipe.
AnswersMatch ==
    /\ Len(reqs) + Len(resps) <= 1
    /\ \A i \in 1..Len(reqs) : reqs[i].from = mutex
    /\ \A i \in 1..Len(resps) : resps[i].from = mutex

\* A context in the agent's store is still known to its thread, or the answer
\* with its id is on the way, or the very call that was to close or to return
\* it has failed: none is forgotten in any other way.
NoOrphans ==
    \A e \in store :
        \/ ctx[e.owner] = e.id
        \/ pc[e.owner] = "read" /\ op[e.owner] = "create" /\ resps # <<>>
        \/ e.id \in left

\* The agent clears its contexts when the pipe breaks
\* (KerberosAgentProvider.cpp:126-127).
ClearedOnBreak == pipe # "good" => store = {}

\* A context id that a thread holds is nobody else's context at the agent.
OwnContext ==
    \A t \in Thread : \A e \in store : ctx[t] = e.id => e.owner = t

\* The agent is not started more than once within ten seconds.
LaunchedOnce == launched <= 1

\* Every call returns, through a crash of the agent in the middle of it too.
CallsReturn == \A t \in Actor : pc[t] # "idle" ~> pc[t] = "idle"

\* Reconnect: the provider is connected to a live agent again and again,
\* unless again and again an agent cannot be launched.
Reconnects ==
    \/ []<>(connected /\ pipe = "good")
    \/ []<><<\E t \in Actor : LaunchFails(t)>>_vars
=============================================================================
