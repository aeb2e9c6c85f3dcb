------------------------ MODULE KerberosAgentProofs ------------------------
(***************************************************************************)
(* Proofs about KerberosAgent, for any number of connection threads and    *)
(* any number of crashes of the agent.                                     *)
(***************************************************************************)
EXTENDS KerberosAgent, SequenceTheorems, TLAPS

\* The mutex is held exactly from the write of a request to the read of its
\* answer, and the pipe is empty while nobody holds it.
Locking ==
    /\ \A t \in Actor : pc[t] = "read" <=> mutex = t
    /\ mutex = Nobody => reqs = <<>> /\ resps = <<>>

\* The one request in the pipe is what its thread asked for.
Asked ==
    reqs # <<>> => /\ reqs[1].op = op[mutex]
                   /\ mutex \in Thread => reqs[1].id = ctx[mutex]

\* Without a good pipe there is nothing on the way, whether the agent behind it
\* has died or dropped the service; the flag is not TRUE without a handle, and
\* the keepalive thread drops only a broken pipe.
Down ==
    /\ pipe # "good" => reqs = <<>> /\ resps = <<>>
    /\ pipe = "good" => connected = TRUE
    /\ pipe = "none" => connected = FALSE
    /\ pc[Keeper] = "drop" => pipe = "broken"
    /\ pc[Keeper] = "call" => pipe # "none"

\* What a thread may be doing.
Ops ==
    /\ op[Keeper] \in {"none", "ping"}
    /\ pc[Keeper] # "idle" => op[Keeper] = "ping"
    /\ \A t \in Thread :
          /\ op[t] # "ping" /\ pc[t] # "drop"
          /\ pc[t] # "idle" => op[t] # "none"
          /\ pc[t] # "idle" /\ op[t] = "create" => ctx[t] = 0

\* An answer on its way agrees with the store: of the contexts that are not
\* left to the agent, its reader owns the one it names, or none after a close.
Fresh ==
    /\ nextId >= 1 /\ \A e \in store : e.id >= 1
    /\ \A t \in Thread : pc[t] = "read" /\ resps # <<>> =>
          /\ op[t] = "create" =>
                \A e \in store : e.owner = t /\ e.id \notin left =>
                    resps[1].ok = TRUE /\ resps[1].id = e.id
          /\ op[t] = "close" => \A e \in store : e.owner = t => e.id \in left

\* The parts of the invariant besides the types.
Parts == Locking /\ AnswersMatch /\ Asked /\ Down /\ Ops /\ Fresh /\ NoOrphans

KInv == TypeOK /\ Parts

\* What a request or a move of a thread leaves alone.
Shared == <<pipe, connected, mutex, ctx, left, reqs, resps, store, nextId>>

-----------------------------------------------------------------------------
(* Facts about the actors and the pipe                                      *)

\* The keepalive thread is an actor and no connection thread; nobody is neither.
LEMMA Actors ==
    /\ Keeper \notin Thread /\ Keeper \in Actor
    /\ Nobody \notin Actor /\ Nobody \notin Thread
    /\ \A t \in Thread : t \in Actor /\ t # Keeper
    /\ \A t \in Actor : t \in Thread \/ t = Keeper
BY AgentAssumption DEF Actor

\* A sequence that is not empty and has at most one element.
LEMMA OneElement ==
    ASSUME NEW S, NEW s \in Seq(S), s # <<>>, Len(s) <= 1
    PROVE  Len(s) = 1 /\ Head(s) = s[1] /\ Tail(s) = <<>> /\ s[1] \in S
<1>0. Len(s) \in Nat /\ Len(s) # 0 BY EmptySeq, LenProperties
<1>1. Len(s) = 1 BY <1>0
<1>2. Tail(s) \in Seq(S) /\ Len(Tail(s)) = 0 BY <1>1, HeadTailProperties
<1>3. Tail(s) = <<>> BY <1>2, EmptySeq
<1> QED BY <1>1, <1>3

\* A request in the pipe is the only message there, and its sender's.
LEMMA OneRequest ==
    ASSUME KInv, reqs # <<>>
    PROVE  /\ Head(reqs) = reqs[1] /\ Tail(reqs) = <<>> /\ resps = <<>>
           /\ mutex \in Actor /\ reqs[1].from = mutex
           /\ reqs[1].op = op[mutex]
           /\ mutex \in Thread => reqs[1].id = ctx[mutex]
<1>1. /\ reqs \in Seq([from : Actor, op : Op, id : Nat])
      /\ resps \in Seq([from : Actor, ok : BOOLEAN, id : Nat])
      /\ mutex \in Actor \cup {Nobody}
  BY DEF KInv, TypeOK
<1>2. Len(reqs) \in Nat /\ Len(resps) \in Nat /\ Len(reqs) + Len(resps) <= 1
  BY <1>1 DEF KInv, Parts, AnswersMatch
<1>3. Len(reqs) = 1 /\ Head(reqs) = reqs[1] /\ Tail(reqs) = <<>>
  BY <1>1, <1>2, OneElement
<1>4. resps = <<>> BY <1>1, <1>2, <1>3, EmptySeq
<1>5. mutex \in Actor BY <1>1 DEF KInv, Parts, Locking
<1>6. reqs[1].from = mutex BY <1>3 DEF KInv, Parts, AnswersMatch
<1> QED BY <1>3, <1>4, <1>5, <1>6 DEF KInv, Parts, Asked

\* So is an answer.
LEMMA OneAnswer ==
    ASSUME KInv, resps # <<>>
    PROVE  /\ Head(resps) = resps[1] /\ Tail(resps) = <<>> /\ reqs = <<>>
           /\ resps[1] \in [from : Actor, ok : BOOLEAN, id : Nat]
           /\ mutex \in Actor
<1>1. /\ reqs \in Seq([from : Actor, op : Op, id : Nat])
      /\ resps \in Seq([from : Actor, ok : BOOLEAN, id : Nat])
      /\ mutex \in Actor \cup {Nobody}
  BY DEF KInv, TypeOK
<1>2. Len(reqs) \in Nat /\ Len(resps) \in Nat /\ Len(reqs) + Len(resps) <= 1
  BY <1>1 DEF KInv, Parts, AnswersMatch
<1>3. /\ Len(resps) = 1 /\ Head(resps) = resps[1] /\ Tail(resps) = <<>>
      /\ resps[1] \in [from : Actor, ok : BOOLEAN, id : Nat]
  <2> DEFINE R == [from : Actor, ok : BOOLEAN, id : Nat]
  <2>1. resps \in Seq(R) BY <1>1
  <2>2. Len(resps) <= 1 BY <1>2
  <2> HIDE DEF R
  <2>3. Len(resps) = 1 /\ Head(resps) = resps[1] /\ Tail(resps) = <<>> /\ resps[1] \in R
    BY <2>1, <2>2, OneElement
  <2> QED BY <2>3 DEF R
<1>4. reqs = <<>> BY <1>1, <1>2, <1>3, EmptySeq
<1> QED BY <1>1, <1>3, <1>4 DEF KInv, Parts, Locking

\* The contexts in the store were made for connection threads.
LEMMA OwnersAreThreads ==
    ASSUME KInv, NEW e \in store
    PROVE  e.owner \in Thread /\ e.owner \in Actor /\ e.id \in Nat
BY Actors DEF KInv, TypeOK

-----------------------------------------------------------------------------
(* What kinds of steps keep                                                 *)

\* A step of a thread that neither takes nor gives back the mutex and does not
\* begin a request.
LEMMA MoveKeeps ==
    ASSUME KInv, NEW t \in Actor, NEW w \in PC \ {"read", "drop"},
           pc[t] \notin {"read", "idle"},
           t = Keeper => w # "call",
           Goto(t, w), UNCHANGED <<op, Shared>>
    PROVE  Parts'
<1> USE DEF KInv, Parts, Goto, Shared
<1>0. pc \in [Actor -> PC] BY DEF TypeOK
<1>1. Locking' BY <1>0, Actors DEF Locking
<1>2. AnswersMatch' BY DEF AnswersMatch
<1>3. Asked' BY DEF Asked
<1>4. Down' BY <1>0, Actors DEF Down
<1>5. Ops' BY <1>0, Actors DEF Ops
<1>6. Fresh' BY <1>0, Actors DEF Fresh
<1>7. NoOrphans' BY <1>0, OwnersAreThreads DEF NoOrphans
<1> QED BY <1>1, <1>2, <1>3, <1>4, <1>5, <1>6, <1>7

\* The beginning of a request.
LEMMA BeginKeeps ==
    ASSUME KInv, NEW t \in Actor, NEW w \in {"check", "connect", "call"}, NEW o,
           pc[t] = "idle", Goto(t, w), op' = [op EXCEPT ![t] = o],
           t = Keeper => o = "ping" /\ (w = "call" => pipe # "none"),
           t \in Thread => o \in {"create", "continue", "close"}
                           /\ (o = "create" => ctx[t] = 0),
           UNCHANGED Shared
    PROVE  Parts'
<1> USE DEF KInv, Parts, Goto, Shared
<1>0. pc \in [Actor -> PC] /\ op \in [Actor -> Op] BY DEF TypeOK
<1>1. Locking' BY <1>0, Actors DEF Locking
<1>2. AnswersMatch' BY DEF AnswersMatch
<1>3. Asked'
  <2>1. CASE reqs = <<>> BY <2>1 DEF Asked
  <2>2. CASE reqs # <<>>
    <3>1. mutex \in Actor BY <2>2, OneRequest
    <3>2. mutex # t BY <3>1 DEF Locking
    <3> QED BY <1>0, <3>1, <3>2 DEF Asked
  <2> QED BY <2>1, <2>2
<1>4. Down' BY <1>0, Actors DEF Down
<1>5. Ops' BY <1>0, Actors DEF Ops
<1>6. Fresh' BY <1>0, Actors DEF Fresh
<1>7. NoOrphans' BY <1>0, OwnersAreThreads DEF NoOrphans
<1> QED BY <1>1, <1>2, <1>3, <1>4, <1>5, <1>6, <1>7

\* The end of a request that failed: a context the thread no longer knows is
\* left to the agent.
LEMMA FailKeeps ==
    ASSUME KInv, NEW t \in Actor, NEW w, pc[t] # "idle", pipe # "good",
           t \in Thread => w = "idle",
           t = Keeper => w = "drop" /\ pipe = "broken",
           Goto(t, w), \A u \in Thread : u # t => ctx'[u] = ctx[u],
           left \subseteq left',
           \A u \in Thread, e \in store : ctx[u] = e.id => ctx'[u] = e.id \/ e.id \in left',
           IF pc[t] = "read" THEN mutex' = Nobody ELSE mutex' = mutex,
           connected' \in {connected, FALSE},
           UNCHANGED <<pipe, op, reqs, resps, store, nextId>>
    PROVE  Parts'
<1> USE DEF KInv, Parts, Goto
<1>0. pc \in [Actor -> PC] BY DEF TypeOK
<1>a. reqs' = <<>> /\ resps' = <<>> /\ resps = <<>> BY DEF Down
<1>1. Locking'
  <2>1. ASSUME NEW u \in Actor PROVE pc'[u] = "read" <=> mutex' = u
    BY <1>0, Actors DEF Locking
  <2> QED BY <1>a, <2>1 DEF Locking
<1>2. AnswersMatch' BY <1>a DEF AnswersMatch
<1>3. Asked' BY <1>a DEF Asked
<1>4. Down' BY <1>0, <1>a, Actors DEF Down
<1>5. Ops' BY <1>0, Actors DEF Ops
<1>6. Fresh' BY <1>a DEF Fresh
<1>7. NoOrphans'
  <2> SUFFICES ASSUME NEW e \in store PROVE ctx'[e.owner] = e.id \/ e.id \in left'
    BY DEF NoOrphans
  <2>1. e.owner \in Thread BY OwnersAreThreads
  <2>2. ctx[e.owner] = e.id \/ e.id \in left BY <1>a DEF NoOrphans
  <2> QED BY <2>1, <2>2
<1> QED BY <1>1, <1>2, <1>3, <1>4, <1>5, <1>6, <1>7

-----------------------------------------------------------------------------
(* The steps that touch the pipe, the store or the handle                   *)

\* The keepalive thread closes a pipe that has failed.
LEMMA DisconnectKeeps == ASSUME KInv, Disconnect PROVE Parts'
<1> USE DEF KInv, Parts, Goto, Disconnect, wire, agentVars
<1>0. pc \in [Actor -> PC] BY DEF TypeOK
<1>a. reqs' = <<>> /\ resps' = <<>> /\ resps = <<>> BY DEF Down
<1>1. Locking' BY <1>0, Actors DEF Locking
<1>2. AnswersMatch' BY <1>a DEF AnswersMatch
<1>3. Asked' BY <1>a DEF Asked
<1>4. Down' BY <1>0, <1>a, Actors DEF Down
<1>5. Ops' BY <1>0, Actors DEF Ops
<1>6. Fresh' BY <1>a DEF Fresh
<1>7. NoOrphans' BY <1>a DEF NoOrphans
<1> QED BY <1>1, <1>2, <1>3, <1>4, <1>5, <1>6, <1>7

\* A new connection finds the store of a new agent, or what an agent has kept.
LEMMA ConnectKeeps == ASSUME KInv, NEW t \in Actor, ConnectToAgent(t) PROVE Parts'
<1> USE DEF KInv, Parts, Goto, ConnectToAgent, Connecting, wire
<1>0. pc \in [Actor -> PC] BY DEF TypeOK
<1>a. reqs' = <<>> /\ resps' = <<>> /\ resps = <<>> BY DEF Down
<1>1. Locking' BY <1>0, Actors DEF Locking
<1>2. AnswersMatch' BY <1>a DEF AnswersMatch
<1>3. Asked' BY <1>a DEF Asked
<1>4. Down' BY <1>0, <1>a, Actors DEF Down
<1>5. Ops' BY <1>0, Actors DEF Ops
<1>6. Fresh' BY <1>a DEF Fresh
<1>7. NoOrphans' BY <1>a DEF NoOrphans
<1> QED BY <1>1, <1>2, <1>3, <1>4, <1>5, <1>6, <1>7

\* The holder of the mutex writes its request into an empty pipe.
LEMMA WriteKeeps == ASSUME KInv, NEW t \in Actor, CallWrite(t) PROVE Parts'
<1> DEFINE r == [from |-> t, op |-> op[t], id |-> IF t = Keeper THEN 0 ELSE ctx[t]]
<1> USE DEF KInv, Parts, Goto, CallWrite, agentVars
<1>0. pc \in [Actor -> PC] BY DEF TypeOK
<1>a. reqs = <<>> /\ resps' = <<>> /\ reqs' = Append(<<>>, r) BY DEF Locking
<1>b. Len(reqs') = 1 /\ reqs'[1] = r /\ reqs' # <<>> BY <1>a
<1>c. r.from = t /\ r.op = op[t] /\ (t \in Thread => r.id = ctx[t]) BY Actors
<1> HIDE DEF r
<1>1. Locking'
  <2>1. ASSUME NEW u \in Actor PROVE pc'[u] = "read" <=> mutex' = u
    BY <1>0, Actors DEF Locking
  <2> QED BY <2>1, Actors DEF Locking
<1>2. AnswersMatch' BY <1>a, <1>b, <1>c DEF AnswersMatch
<1>3. Asked' BY <1>b, <1>c DEF Asked
<1>4. Down' BY <1>0, Actors DEF Down
<1>5. Ops' BY <1>0, Actors DEF Ops
<1>6. Fresh' BY <1>a DEF Fresh
<1>7. NoOrphans' BY <1>a, OwnersAreThreads DEF NoOrphans
<1> QED BY <1>1, <1>2, <1>3, <1>4, <1>5, <1>6, <1>7

\* It reads the answer, which is its own, and the pipe is empty again.
LEMMA ReadKeeps == ASSUME KInv, NEW t \in Actor, CallRead(t) PROVE Parts'
<1> USE DEF KInv, Parts, Goto, CallRead, agentVars
<1>0. /\ pc \in [Actor -> PC] /\ mutex = t /\ op \in [Actor -> Op]
      /\ ctx \in [Thread -> Nat]
  BY DEF TypeOK, Locking
<1>a. reqs' = <<>> /\ resps' = <<>> /\ Head(resps) = resps[1] BY OneAnswer
<1>1. Locking'
  <2>1. ASSUME NEW u \in Actor PROVE pc'[u] = "read" <=> mutex' = u
    BY <1>0, Actors DEF Locking
  <2> QED BY <1>a, <2>1 DEF Locking
<1>2. AnswersMatch' BY <1>a DEF AnswersMatch
<1>3. Asked' BY <1>a DEF Asked
<1>4. Down' BY <1>0, <1>a, Actors DEF Down
<1>5. Ops' BY <1>0, Actors DEF Ops
<1>6. Fresh' BY <1>a DEF Fresh
<1>7. NoOrphans'
  <2> SUFFICES ASSUME NEW e \in store, e.id \notin left PROVE ctx'[e.owner] = e.id
    BY DEF NoOrphans
  <2>1. e.owner \in Thread /\ e.owner \in Actor BY OwnersAreThreads
  <2>2. CASE e.owner # t
    <3>1. pc[e.owner] # "read" BY <1>0, <2>1, <2>2 DEF Locking
    <3>2. ctx[e.owner] = e.id BY <3>1 DEF NoOrphans
    <3>3. ctx'[e.owner] = ctx[e.owner] BY <1>0, <2>1, <2>2, Actors
    <3> QED BY <3>2, <3>3
  <2>3. CASE e.owner = t
    <3>1. t \in Thread /\ t # Keeper BY <2>1, <2>3, Actors
    <3>2. ctx'[t] = Answered(t, resps[1]) BY <1>0, <1>a, <3>1
    <3>3. op[t] \in {"create", "continue"} BY <1>0, <2>3, <3>1 DEF Ops, Fresh, Op
    <3>4. CASE op[t] = "create"
      <4>1. resps[1].ok = TRUE /\ resps[1].id = e.id BY <2>3, <3>1, <3>4 DEF Fresh
      <4> QED BY <2>3, <3>2, <3>4, <4>1 DEF Answered
    <3>5. CASE op[t] = "continue"
      <4>1. ctx[t] = e.id BY <2>3, <3>5 DEF NoOrphans
      <4> QED BY <2>3, <3>2, <3>5, <4>1 DEF Answered
    <3> QED BY <3>3, <3>4, <3>5
  <2> QED BY <2>2, <2>3
<1> QED BY <1>1, <1>2, <1>3, <1>4, <1>5, <1>6, <1>7

\* The store after a request: a context may have come for its sender or gone.
LEMMA HandleStore ==
    ASSUME KInv, HandleRequest
    PROVE  \E ok \in BOOLEAN :
              /\ resps' = Append(<<>>, [from |-> mutex, ok |-> ok, id |-> nextId])
              /\ nextId' \in {nextId, nextId + 1}
              /\ \/ store' \subseteq store
                 \/ /\ op[mutex] = "create" /\ ok = TRUE
                    /\ store' = store \cup {[id |-> nextId, owner |-> mutex]}
              /\ op[mutex] = "close" =>
                    store' = {e \in store : mutex \in Thread => e.id # ctx[mutex]}
<1>1. /\ Head(reqs) = reqs[1] /\ resps = <<>> /\ mutex \in Actor
      /\ reqs[1].from = mutex /\ reqs[1].op = op[mutex]
      /\ mutex \in Thread => reqs[1].id = ctx[mutex]
  BY OneRequest DEF HandleRequest
<1>2. pc[mutex] = "read" BY <1>1 DEF KInv, Parts, Locking
<1>3. /\ op[mutex] \in {"create", "continue", "close", "ping"}
      /\ op[mutex] = "close" => mutex \in Thread
  BY <1>1, <1>2, Actors DEF KInv, Parts, Ops, TypeOK, Op
<1>4. PICK o \in Outcomes(reqs[1]) :
        /\ store' = o.store
        /\ resps' = Append(<<>>, [from |-> mutex, ok |-> o.ok, id |-> nextId])
        /\ nextId' \in {nextId, nextId + 1}
  BY <1>1 DEF HandleRequest, Apply
<1>5. CASE op[mutex] = "create"
  <2>1. \/ o = [store |-> store \cup {[id |-> nextId, owner |-> mutex]}, ok |-> TRUE]
        \/ o = [store |-> store, ok |-> FALSE]
    BY <1>1, <1>4, <1>5 DEF Outcomes
  <2>2. \/ o.ok = TRUE /\ o.store = store \cup {[id |-> nextId, owner |-> mutex]}
        \/ o.ok = FALSE /\ o.store = store
    BY <2>1
  <2>3. o.ok \in BOOLEAN BY <2>2
  <2> QED BY <1>4, <1>5, <2>2, <2>3
<1>6. CASE op[mutex] = "continue"
  <2>1. \/ o = [store |-> store, ok |-> TRUE]
        \/ o = [store |-> Without(reqs[1].id), ok |-> TRUE]
        \/ o = [store |-> Without(reqs[1].id), ok |-> FALSE]
        \/ o = [store |-> store, ok |-> FALSE]
    BY <1>1, <1>4, <1>6 DEF Outcomes
  <2>2. /\ o.ok = TRUE \/ o.ok = FALSE
        /\ o.store = store \/ o.store = Without(reqs[1].id)
    BY <2>1
  <2>3. o.ok \in BOOLEAN /\ o.store \subseteq store BY <2>2 DEF Without
  <2> QED BY <1>4, <1>6, <2>3
<1>7. CASE op[mutex] = "close"
  <2>1. o.ok = TRUE /\ o.store = {e \in store : e.id # ctx[mutex]}
    BY <1>1, <1>3, <1>4, <1>7 DEF Outcomes, Without
  <2> QED BY <1>3, <1>4, <1>7, <2>1
<1>8. CASE op[mutex] = "ping"
  <2>1. o = [store |-> store, ok |-> TRUE] BY <1>1, <1>4, <1>8 DEF Outcomes
  <2>2. o.ok \in BOOLEAN /\ o.store = store BY <2>1
  <2> QED BY <1>4, <1>8, <2>2
<1> QED BY <1>3, <1>5, <1>6, <1>7, <1>8

\* The agent answers the request in the pipe and changes its store accordingly.
LEMMA HandleKeeps == ASSUME KInv, HandleRequest PROVE Parts'
<1>1. PICK ok \in BOOLEAN :
        /\ resps' = Append(<<>>, [from |-> mutex, ok |-> ok, id |-> nextId])
        /\ nextId' \in {nextId, nextId + 1}
        /\ \/ store' \subseteq store
           \/ /\ op[mutex] = "create" /\ ok = TRUE
              /\ store' = store \cup {[id |-> nextId, owner |-> mutex]}
        /\ op[mutex] = "close" =>
              store' = {e \in store : mutex \in Thread => e.id # ctx[mutex]}
  BY HandleStore
<1> DEFINE a == [from |-> mutex, ok |-> ok, id |-> nextId]
<1>2. Len(resps') = 1 /\ resps'[1] = a /\ resps' # <<>> BY <1>1
<1>3. a.from = mutex /\ a.ok = ok /\ a.id = nextId OBVIOUS
<1> HIDE DEF a
<1>4. resps = <<>> /\ reqs' = <<>> /\ mutex \in Actor
  BY OneRequest DEF HandleRequest
<1>5. UNCHANGED <<pipe, connected, mutex, pc, op, ctx, left>>
  BY DEF HandleRequest, localVars
<1>6. pc[mutex] = "read" /\ pipe = "good" /\ nextId \in Nat
  BY <1>4 DEF KInv, Parts, Locking, Down, HandleRequest, TypeOK
<1>a. Locking' BY <1>4, <1>5, Actors DEF KInv, Parts, Locking
<1>b. AnswersMatch' BY <1>2, <1>3, <1>4, <1>5 DEF AnswersMatch
<1>c. Asked' BY <1>4 DEF Asked
<1>d. Down' BY <1>5, <1>6 DEF KInv, Parts, Down
<1>e. Ops' BY <1>5 DEF KInv, Parts, Ops
<1>7. ASSUME NEW e \in store, e.owner = mutex, mutex \in Thread, e.id \notin left
      PROVE  ctx[mutex] = e.id /\ op[mutex] # "create"
  <2>1. ctx[mutex] = e.id BY <1>4, <1>7 DEF KInv, Parts, NoOrphans
  <2>2. e.id >= 1 /\ e.id \in Nat BY OwnersAreThreads DEF KInv, Parts, Fresh
  <2> QED BY <1>6, <1>7, <2>1, <2>2 DEF KInv, Parts, Ops
<1>f. Fresh'
  <2>1. nextId' >= 1 BY <1>1, <1>6 DEF KInv, Parts, Fresh
  <2>2. ASSUME NEW e \in store' PROVE e.id >= 1
    BY <1>1, <1>6 DEF KInv, Parts, Fresh
  <2>3. ASSUME NEW t \in Thread, pc'[t] = "read", op'[t] = "create",
               NEW e \in store', e.owner = t, e.id \notin left'
        PROVE  resps'[1].ok = TRUE /\ resps'[1].id = e.id
    <3>1. t = mutex /\ t \in Actor BY <1>5, <2>3, Actors DEF KInv, Parts, Locking
    <3>2. e \notin store BY <1>5, <1>7, <2>3, <3>1
    <3>3. ok = TRUE /\ e = [id |-> nextId, owner |-> mutex] BY <1>1, <2>3, <3>2
    <3> QED BY <1>2, <1>3, <3>3
  <2>4. ASSUME NEW t \in Thread, pc'[t] = "read", op'[t] = "close", NEW e \in store',
               e.owner = t
        PROVE  e.id \in left'
    <3>1. t = mutex /\ t \in Actor BY <1>5, <2>4, Actors DEF KInv, Parts, Locking
    <3>2. e \in store /\ e.id # ctx[mutex] BY <1>1, <1>5, <2>4, <3>1
    <3> QED BY <1>5, <1>7, <2>4, <3>1, <3>2
  <2> QED BY <2>1, <2>2, <2>3, <2>4 DEF Fresh
<1>g. NoOrphans'
  <2> SUFFICES ASSUME NEW e \in store'
               PROVE  \/ ctx[e.owner] = e.id
                      \/ pc[e.owner] = "read" /\ op[e.owner] = "create"
                      \/ e.id \in left
    BY <1>2, <1>5 DEF NoOrphans
  <2>1. CASE e \in store BY <1>4, <2>1 DEF KInv, Parts, NoOrphans
  <2>2. CASE e \notin store
    <3>1. op[mutex] = "create" /\ e = [id |-> nextId, owner |-> mutex] BY <1>1, <2>2
    <3> QED BY <1>6, <3>1
  <2> QED BY <2>1, <2>2
<1> QED BY <1>a, <1>b, <1>c, <1>d, <1>e, <1>f, <1>g DEF Parts

\* The store after a dropped request: as after one that was answered, and a
\* context made for its sender is left to the agent.
LEMMA DropStore ==
    ASSUME KInv, DropClient
    PROVE  /\ nextId' \in {nextId, nextId + 1}
           /\ left' = left \cup Ids(store' \ store)
           /\ \/ store' \subseteq store
              \/ /\ op[mutex] = "create"
                 /\ store' = store \cup {[id |-> nextId, owner |-> mutex]}
<1>1. /\ Head(reqs) = reqs[1] /\ mutex \in Actor
      /\ reqs[1].from = mutex /\ reqs[1].op = op[mutex]
  BY OneRequest DEF DropClient
<1>2. pc[mutex] = "read" BY <1>1 DEF KInv, Parts, Locking
<1>3. op[mutex] \in {"create", "continue", "close", "ping"}
  BY <1>1, <1>2, Actors DEF KInv, Parts, Ops, TypeOK, Op
<1>4. PICK o \in Outcomes(reqs[1]) \cup {[store |-> store, ok |-> FALSE]} :
        /\ store' = o.store
        /\ nextId' \in {nextId, nextId + 1}
        /\ left' = left \cup Ids(o.store \ store)
  BY <1>1 DEF DropClient, Apply
<1>5. \/ o.store \subseteq store
      \/ op[mutex] = "create" /\ o.store = store \cup {[id |-> nextId, owner |-> mutex]}
  <2>1. CASE o = [store |-> store, ok |-> FALSE] BY <2>1
  <2>2. CASE o \in Outcomes(reqs[1]) /\ op[mutex] = "create"
    <3>1. \/ o = [store |-> store \cup {[id |-> nextId, owner |-> mutex]}, ok |-> TRUE]
          \/ o = [store |-> store, ok |-> FALSE]
      BY <1>1, <2>2 DEF Outcomes
    <3> QED BY <2>2, <3>1
  <2>3. CASE o \in Outcomes(reqs[1]) /\ op[mutex] = "continue"
    <3>1. \/ o = [store |-> store, ok |-> TRUE]
          \/ o = [store |-> Without(reqs[1].id), ok |-> TRUE]
          \/ o = [store |-> Without(reqs[1].id), ok |-> FALSE]
          \/ o = [store |-> store, ok |-> FALSE]
      BY <1>1, <2>3 DEF Outcomes
    <3>2. o.store = store \/ o.store = Without(reqs[1].id) BY <3>1
    <3> QED BY <3>2 DEF Without
  <2>4. CASE o \in Outcomes(reqs[1]) /\ op[mutex] = "close"
    <3>1. o = [store |-> Without(reqs[1].id), ok |-> TRUE] BY <1>1, <2>4 DEF Outcomes
    <3>2. o.store = Without(reqs[1].id) BY <3>1
    <3> QED BY <3>2 DEF Without
  <2>5. CASE o \in Outcomes(reqs[1]) /\ op[mutex] = "ping"
    <3>1. o = [store |-> store, ok |-> TRUE] BY <1>1, <2>5 DEF Outcomes
    <3> QED BY <3>1
  <2> QED BY <1>3, <1>4, <2>1, <2>2, <2>3, <2>4, <2>5
<1> QED BY <1>4, <1>5

\* The agent drops the service: its contexts stay, and the one just made, whose
\* answer is lost, is left to the agent.
LEMMA DropKeeps == ASSUME KInv, DropClient PROVE Parts'
<1>1. /\ reqs' = <<>> /\ resps' = <<>> /\ pipe' = "broken"
      /\ UNCHANGED <<connected, mutex, pc, op, ctx>>
  BY DEF DropClient
<1>2. resps = <<>> BY OneRequest DEF DropClient
<1>3. nextId \in Nat /\ nextId >= 1 BY DEF KInv, TypeOK, Parts, Fresh
<1>4. \A e \in store' : e \in store \/ (e.id = nextId /\ e.id \in left')
  <2> SUFFICES ASSUME NEW e \in store', e \notin store
               PROVE  e.id = nextId /\ e.id \in left'
    OBVIOUS
  <2>1. e = [id |-> nextId, owner |-> mutex] BY DropStore
  <2>2. e.id \in Ids(store' \ store) BY DEF Ids
  <2> QED BY <2>1, <2>2, DropStore
<1>5. left \subseteq left' BY DropStore
<1>a. Locking' BY <1>1 DEF KInv, Parts, Locking
<1>b. AnswersMatch' BY <1>1 DEF AnswersMatch
<1>c. Asked' BY <1>1 DEF Asked
<1>d. Down'
  <2>1. pipe = "good"
    BY DEF KInv, Parts, Down, DropClient
  <2>2. pc[Keeper] # "drop" BY <2>1 DEF KInv, Parts, Down
  <2> QED BY <1>1, <2>1 DEF KInv, Parts, Down
<1>e. Ops' BY <1>1 DEF KInv, Parts, Ops
<1>f. Fresh'
  <2>1. nextId' >= 1 BY <1>3, DropStore
  <2>2. \A e \in store' : e.id >= 1 BY <1>3, <1>4 DEF KInv, Parts, Fresh
  <2> QED BY <1>1, <2>1, <2>2 DEF Fresh
<1>g. NoOrphans'
  <2> SUFFICES ASSUME NEW e \in store' PROVE ctx[e.owner] = e.id \/ e.id \in left'
    BY <1>1 DEF NoOrphans
  <2>1. CASE e \in store BY <1>2, <1>5, <2>1 DEF KInv, Parts, NoOrphans
  <2> QED BY <1>4, <2>1
<1> QED BY <1>a, <1>b, <1>c, <1>d, <1>e, <1>f, <1>g DEF Parts

\* The agent drops a context nobody uses.
LEMMA ExpireKeeps == ASSUME KInv, NEW i, Expire(i) PROVE Parts'
<1>1. store' \subseteq store BY DEF Expire, Without
<1>2. UNCHANGED <<pipe, connected, mutex, pc, op, ctx, left, reqs, resps, nextId>>
  BY DEF Expire, localVars, wire
<1>3. Locking' /\ AnswersMatch' /\ Asked' /\ Ops'
  BY <1>2 DEF KInv, Parts, Locking, AnswersMatch, Asked, Ops
<1>4. Down' BY <1>1, <1>2 DEF KInv, Parts, Down
<1>5. Fresh' BY <1>1, <1>2 DEF KInv, Parts, Fresh
<1>6. NoOrphans' BY <1>1, <1>2 DEF KInv, Parts, NoOrphans
<1> QED BY <1>3, <1>4, <1>5, <1>6 DEF Parts

\* With the agent its store goes, and the pipe breaks.
LEMMA DeathKeeps == ASSUME KInv, AgentDies PROVE Parts'
<1>1. /\ reqs' = <<>> /\ resps' = <<>> /\ store' = {} /\ nextId' = 1
      /\ pipe' = IF pipe = "good" THEN "broken" ELSE pipe
      /\ UNCHANGED <<connected, mutex, pc, op, ctx>>
  BY DEF AgentDies, localVars
<1>2. Locking' BY <1>1 DEF KInv, Parts, Locking
<1>3. AnswersMatch' BY <1>1 DEF AnswersMatch
<1>4. Asked' BY <1>1 DEF Asked
<1>5. Down' BY <1>1 DEF KInv, Parts, Down
<1>6. Ops' BY <1>1 DEF KInv, Parts, Ops
<1>7. Fresh' /\ NoOrphans' BY <1>1 DEF Fresh, NoOrphans
<1> QED BY <1>2, <1>3, <1>4, <1>5, <1>6, <1>7 DEF Parts

-----------------------------------------------------------------------------
(* Types                                                                    *)

\* What a thread reads of the pipe is a number: a context id.
LEMMA AnsweredTyped ==
    ASSUME KInv, NEW t \in Thread, CallRead(t)
    PROVE  Answered(t, Head(resps)) \in Nat
<1>1. Head(resps) \in [from : Actor, ok : BOOLEAN, id : Nat]
  BY OneAnswer DEF CallRead
<1>2. op[t] \in {"create", "continue", "close"} /\ ctx[t] \in Nat
  BY Actors DEF KInv, Parts, Ops, TypeOK, Op, CallRead
<1> QED BY <1>1, <1>2 DEF Answered

\* Types after the steps of a connection thread outside its calls.
LEMMA RequestTyped ==
    ASSUME KInv, NEW t \in Thread, Request(t) \/ CheckConnected(t) \/ NotAvailable(t)
    PROVE  TypeOK'
<1>1. t \in Actor BY Actors
<1>2. Goto(t, "check") \/ Goto(t, "connect") \/ Goto(t, "call") \/ Goto(t, "idle")
  BY DEF Request, CreateContext, ContinueContext, CloseContext, CheckConnected,
         NotAvailable, Ensure, GiveUp
<1>3. pc' \in [Actor -> PC] BY <1>1, <1>2 DEF KInv, TypeOK, Goto, PC
<1>4. op' \in [Actor -> Op]
  BY <1>1 DEF KInv, TypeOK, Op, Request, CreateContext, ContinueContext, CloseContext,
              CheckConnected, NotAvailable, Ensure, GiveUp
<1>5. made' \in [Thread -> 0 .. MaxCreates]
  BY AgentAssumption
  DEF KInv, TypeOK, Request, CreateContext, ContinueContext, CloseContext,
      CheckConnected, NotAvailable, GiveUp
<1>6. ctx' \in [Thread -> Nat]
  <2>1. ctx' = ctx \/ ctx' = [ctx EXCEPT ![t] = IF op[t] = "close" THEN 0 ELSE @]
    BY DEF Request, CreateContext, ContinueContext, CloseContext, CheckConnected,
           NotAvailable, GiveUp
  <2>2. ctx \in [Thread -> Nat] BY DEF KInv, TypeOK
  <2> QED BY <2>1, <2>2
<1>9. left' \subseteq Nat
  <2>1. left' = left \/ left' = left \cup (Ids(store) \cap {ctx[t]})
    BY DEF Request, CreateContext, ContinueContext, CloseContext, CheckConnected,
           NotAvailable, GiveUp
  <2>2. ctx[t] \in Nat BY DEF KInv, TypeOK
  <2>3. Ids(store) \cap {ctx[t]} \subseteq Nat BY <2>2
  <2>4. left \subseteq Nat BY DEF KInv, TypeOK
  <2> QED BY <2>1, <2>3, <2>4
<1>8. failed' \in [Thread -> BOOLEAN]
  <2>1. \/ failed' = failed
        \/ failed' = [failed EXCEPT ![t] = (op[t] = "continue")]
    BY DEF Request, CreateContext, ContinueContext, CloseContext,
           CheckConnected, NotAvailable, GiveUp
  <2>2. failed \in [Thread -> BOOLEAN] BY DEF KInv, TypeOK
  <2>3. (op[t] = "continue") \in BOOLEAN OBVIOUS
  <2> QED BY <2>1, <2>2, <2>3
<1>7. UNCHANGED <<pipe, connected, mutex, launchVars, wire, agentVars>>
  BY DEF Request, CreateContext, ContinueContext, CloseContext, CheckConnected, NotAvailable
<1> QED BY <1>3, <1>4, <1>5, <1>6, <1>7, <1>8, <1>9 DEF KInv, TypeOK, launchVars, wire, agentVars

\* Types after connecting and launching.
LEMMA ConnectTyped ==
    ASSUME KInv, NEW t \in Actor, Connect(t) \/ Launch(t)
    PROVE  TypeOK'
<1>1. \E w \in PC : Goto(t, w)
  BY DEF Connect, AlreadyConnected, ConnectToAgent, ConnectFails, Launch, LaunchCooldown,
         LaunchClaim, LaunchSpawn, LaunchFails, LaunchRelease, LaunchStamp, PC
<1>2. pc' \in [Actor -> PC] BY <1>1 DEF KInv, TypeOK, Goto
<1>3. UNCHANGED <<mutex, op, ctx, left, failed, made, wire, store, nextId, crashes>>
  BY DEF Connect, AlreadyConnected, ConnectToAgent, ConnectFails, Launch, LaunchCooldown,
         LaunchClaim, LaunchSpawn, LaunchFails, LaunchRelease, LaunchStamp, agentVars
<1>4. pipe' \in {pipe, "good"} /\ connected' \in BOOLEAN
  BY DEF KInv, TypeOK, Connect, AlreadyConnected, ConnectToAgent, ConnectFails, Launch,
         LaunchCooldown, LaunchClaim, LaunchSpawn, LaunchFails, LaunchRelease, LaunchStamp
<1>5. launched' \in Nat
  BY DEF KInv, TypeOK, launchVars, Connect, AlreadyConnected, ConnectToAgent,
         ConnectFails, Launch, LaunchCooldown, LaunchClaim, LaunchSpawn, LaunchFails,
         LaunchRelease, LaunchStamp
<1>6. agent' \in {"dead", "listening", "serving"} /\ spare' \in Nat
  BY DEF KInv, TypeOK, agentVars, Connect, AlreadyConnected, ConnectToAgent,
         ConnectFails, Launch, LaunchCooldown, LaunchClaim, LaunchSpawn, LaunchFails,
         LaunchRelease, LaunchStamp
<1>7. flag' \in BOOLEAN /\ cooling' \in BOOLEAN
  <2>1. flag' \in {flag, TRUE, FALSE} /\ cooling' \in {cooling, TRUE}
    BY DEF launchVars, Connect, AlreadyConnected, ConnectToAgent, ConnectFails, Launch,
           LaunchCooldown, LaunchClaim, LaunchSpawn, LaunchFails, LaunchRelease, LaunchStamp
  <2> QED BY <2>1 DEF KInv, TypeOK
<1> QED BY <1>2, <1>3, <1>4, <1>5, <1>6, <1>7 DEF KInv, TypeOK, wire

\* Types after the steps of an exchange.
LEMMA CallTyped ==
    ASSUME KInv, NEW t \in Actor, Call(t)
    PROVE  TypeOK'
<1>1. \E w \in PC : Goto(t, w)
  BY DEF Call, CallWrite, CallWriteFails, CallRead, CallReadFails, GiveUp, PC
<1>2. pc' \in [Actor -> PC] BY <1>1 DEF KInv, TypeOK, Goto
<1>3. UNCHANGED <<pipe, op, made, launchVars, agentVars>>
  BY DEF Call, CallWrite, CallWriteFails, CallRead, CallReadFails, GiveUp
<1>4. connected' \in BOOLEAN /\ mutex' \in Actor \cup {Nobody}
  BY DEF KInv, TypeOK, Call, CallWrite, CallWriteFails, CallRead, CallReadFails
<1>5. ctx' \in [Thread -> Nat] /\ failed' \in [Thread -> BOOLEAN]
  <2>1. CASE CallRead(t) /\ t # Keeper
    <3>1. t \in Thread BY <2>1, Actors
    <3>2. Answered(t, Head(resps)) \in Nat BY <2>1, <3>1, AnsweredTyped
    <3>3. Head(resps).ok \in BOOLEAN BY <2>1, OneAnswer DEF CallRead
    <3> QED BY <2>1, <3>1, <3>2, <3>3 DEF KInv, TypeOK, CallRead
  <2>2. CASE ~(CallRead(t) /\ t # Keeper)
    <3>1. /\ \/ ctx' = ctx
             \/ ctx' = [ctx EXCEPT ![t] = IF op[t] = "close" THEN 0 ELSE @]
          /\ \/ failed' = failed
             \/ failed' = [failed EXCEPT ![t] = (op[t] = "continue")]
      BY <2>2 DEF Call, CallWrite, CallWriteFails, CallRead, CallReadFails, GiveUp
    <3>2. ctx \in [Thread -> Nat] /\ failed \in [Thread -> BOOLEAN] BY DEF KInv, TypeOK
    <3>3. ctx' \in [Thread -> Nat] BY <3>1, <3>2
    <3>4. (op[t] = "continue") \in BOOLEAN OBVIOUS
    <3>5. failed' \in [Thread -> BOOLEAN] BY <3>1, <3>2, <3>4
    <3> QED BY <3>3, <3>5
  <2> QED BY <2>1, <2>2
<1>8. left' \subseteq Nat
  BY DEF KInv, TypeOK, Call, CallWrite, CallWriteFails, CallRead, CallReadFails, GiveUp, Ids
<1>6. reqs' \in Seq([from : Actor, op : Op, id : Nat])
  <2>1. CASE CallWrite(t)
    <3>1. [from |-> t, op |-> op[t], id |-> IF t = Keeper THEN 0 ELSE ctx[t]]
             \in [from : Actor, op : Op, id : Nat]
      BY Actors DEF KInv, TypeOK
    <3> QED BY <2>1, <3>1 DEF KInv, TypeOK, CallWrite
  <2>2. CASE ~CallWrite(t)
    BY <2>2 DEF KInv, TypeOK, Call, CallWriteFails, CallRead, CallReadFails, wire
  <2> QED BY <2>1, <2>2
<1>7. resps' \in Seq([from : Actor, ok : BOOLEAN, id : Nat])
  <2>1. CASE CallRead(t)
    <3>1. resps' = <<>> BY <2>1, OneAnswer DEF CallRead
    <3> QED BY <3>1
  <2>2. CASE ~CallRead(t)
    BY <2>2 DEF KInv, TypeOK, Call, CallWrite, CallWriteFails, CallReadFails, wire
  <2> QED BY <2>1, <2>2
<1> QED BY <1>2, <1>3, <1>4, <1>5, <1>6, <1>7, <1>8 DEF KInv, TypeOK, launchVars, agentVars

\* Types after the steps of the keepalive thread.
LEMMA KeeperTyped ==
    ASSUME KInv, Keepalive \/ KeepaliveContinue \/ Disconnect \/ CooldownEnds
    PROVE  TypeOK'
<1>1. pc' \in [Actor -> PC]
  BY Actors DEF KInv, TypeOK, Keepalive, KeepaliveContinue, Disconnect, CooldownEnds,
                localVars, Goto, PC
<1>2. op' \in [Actor -> Op]
  BY Actors DEF KInv, TypeOK, Keepalive, KeepaliveContinue, Disconnect, CooldownEnds,
                localVars, Op
<1>3. pipe' \in {pipe, "none"} /\ launched' \in Nat
  BY DEF KInv, TypeOK, Keepalive, KeepaliveContinue, Disconnect, CooldownEnds, launchVars
<1>5. connected' \in BOOLEAN /\ flag' \in BOOLEAN /\ cooling' \in BOOLEAN
  BY Zenon
  DEF KInv, TypeOK, Keepalive, KeepaliveContinue, Disconnect, CooldownEnds, launchVars
<1>4. UNCHANGED <<mutex, ctx, left, failed, made, wire, agentVars>>
  BY DEF Keepalive, KeepaliveContinue, Disconnect, CooldownEnds, localVars
<1> QED BY <1>1, <1>2, <1>3, <1>4, <1>5 DEF KInv, TypeOK, wire, agentVars

\* Types after the steps of the agent.
LEMMA AgentTyped == ASSUME KInv, Agent PROVE TypeOK'
<1>1. CASE HandleRequest
  <2>1. PICK ok \in BOOLEAN :
          /\ resps' = Append(<<>>, [from |-> mutex, ok |-> ok, id |-> nextId])
          /\ nextId' \in {nextId, nextId + 1}
          /\ \/ store' \subseteq store
             \/ /\ op[mutex] = "create" /\ ok = TRUE
                /\ store' = store \cup {[id |-> nextId, owner |-> mutex]}
    BY <1>1, HandleStore
  <2>2. mutex \in Actor /\ reqs' = <<>> BY <1>1, OneRequest DEF HandleRequest
  <2>3. nextId \in Nat /\ nextId' \in Nat BY <2>1 DEF KInv, TypeOK
  <2>4. resps' \in Seq([from : Actor, ok : BOOLEAN, id : Nat])
    <3>1. [from |-> mutex, ok |-> ok, id |-> nextId] \in [from : Actor, ok : BOOLEAN, id : Nat]
      BY <2>2, <2>3
    <3> QED BY <2>1, <3>1
  <2>5. store' \subseteq [id : Nat, owner : Thread]
    <3>1. op[mutex] = "create" => mutex \in Thread BY <2>2, Actors DEF KInv, Parts, Ops
    <3> QED BY <2>1, <2>3, <3>1 DEF KInv, TypeOK
  <2>6. UNCHANGED <<pipe, connected, mutex, localVars, launchVars, agent, spare, crashes>>
    BY <1>1 DEF HandleRequest
  <2> QED BY <2>2, <2>3, <2>4, <2>5, <2>6 DEF KInv, TypeOK, localVars, launchVars
<1>2. CASE AgentDies
  <2>1. crashes' \in 0 .. MaxCrashes BY <1>2, AgentAssumption DEF KInv, TypeOK, AgentDies
  <2>2. agent' \in {"dead", "listening", "serving"} /\ spare' \in Nat
    BY <1>2 DEF KInv, TypeOK, AgentDies
  <2>3. /\ pipe' \in {"broken", pipe} /\ store' = {} /\ nextId' = 1 /\ left' = {}
        /\ reqs' = <<>> /\ resps' = <<>>
        /\ UNCHANGED <<connected, mutex, pc, op, ctx, failed, made, launchVars>>
    BY <1>2 DEF AgentDies
  <2> QED BY <2>1, <2>2, <2>3 DEF KInv, TypeOK, localVars, launchVars
<1>4. CASE DropClient
  <2>1. mutex \in Actor /\ (op[mutex] = "create" => mutex \in Thread)
    <3>1. mutex \in Actor BY <1>4, OneRequest DEF DropClient
    <3> QED BY <3>1, Actors DEF KInv, Parts, Ops
  <2>2. nextId \in Nat /\ nextId' \in Nat BY <1>4, DropStore DEF KInv, TypeOK
  <2>3. store' \subseteq [id : Nat, owner : Thread]
    BY <1>4, <2>1, <2>2, DropStore DEF KInv, TypeOK
  <2>7. Ids(store' \ store) \subseteq Nat BY <2>3 DEF Ids
  <2>4. left' \subseteq Nat BY <1>4, <2>7, DropStore DEF KInv, TypeOK
  <2>5. crashes' \in 0 .. MaxCrashes BY <1>4, AgentAssumption DEF KInv, TypeOK, DropClient
  <2>6. /\ pipe' = "broken" /\ agent' = "listening" /\ reqs' = <<>> /\ resps' = <<>>
        /\ UNCHANGED <<connected, mutex, pc, op, ctx, failed, made, launchVars, spare>>
    BY <1>4 DEF DropClient
  <2> QED BY <2>2, <2>3, <2>4, <2>5, <2>6 DEF KInv, TypeOK, launchVars
<1>3. CASE \E e \in store : Expire(e.id)
  <2>1. store' \subseteq store BY <1>3 DEF Expire, Without
  <2>2. UNCHANGED <<pipe, connected, mutex, localVars, launchVars, wire, agent,
                   spare, nextId, crashes>>
    BY <1>3 DEF Expire
  <2> QED BY <2>1, <2>2 DEF KInv, TypeOK, localVars, launchVars, wire
<1> QED BY <1>1, <1>2, <1>3, <1>4 DEF Agent

-----------------------------------------------------------------------------
(* The theorems                                                             *)

\* At first there is no pipe and no context.
LEMMA AgentInit == Init => KInv
<1> SUFFICES ASSUME Init PROVE KInv OBVIOUS
<1>1. TypeOK
  <2>1. /\ pc \in [Actor -> PC] /\ op \in [Actor -> Op] /\ ctx \in [Thread -> Nat]
        /\ failed \in [Thread -> BOOLEAN]
    BY DEF Init, PC, Op
  <2>2. made \in [Thread -> 0 .. MaxCreates] /\ crashes \in 0 .. MaxCrashes
    BY AgentAssumption DEF Init
  <2>3. /\ reqs \in Seq([from : Actor, op : Op, id : Nat])
        /\ resps \in Seq([from : Actor, ok : BOOLEAN, id : Nat])
    BY DEF Init
  <2> QED BY <2>1, <2>2, <2>3 DEF Init, TypeOK
<1>2. Locking /\ AnswersMatch /\ Asked BY Actors DEF Init, Locking, AnswersMatch, Asked
<1>3. Down /\ Ops BY Actors DEF Init, Down, Ops
<1>4. Fresh /\ NoOrphans BY DEF Init, Fresh, NoOrphans
<1> QED BY <1>1, <1>2, <1>3, <1>4 DEF KInv, Parts

\* The parts after the steps of a connection thread outside its calls.
LEMMA StepOfThread ==
    ASSUME KInv, NEW t \in Thread, Request(t) \/ CheckConnected(t) \/ NotAvailable(t)
    PROVE  Parts'
<1>0. t \in Actor /\ t # Keeper BY Actors
<1> USE DEF Shared, wire, agentVars
<1>1. CASE CreateContext(t)
  <2>1. CASE connected
    <3>1. Goto(t, "check") /\ op' = [op EXCEPT ![t] = "create"]
      BY <1>1, <2>1 DEF CreateContext, Ensure
    <3> QED BY <1>0, <1>1, <3>1, BeginKeeps DEF CreateContext
  <2>2. CASE ~connected
    <3>1. Goto(t, "connect") /\ op' = [op EXCEPT ![t] = "create"]
      BY <1>1, <2>2 DEF CreateContext, Ensure
    <3> QED BY <1>0, <1>1, <3>1, BeginKeeps DEF CreateContext
  <2> QED BY <2>1, <2>2
<1>2. CASE ContinueContext(t)
  <2>1. PICK w \in {"check", "connect"} : Goto(t, w) /\ op' = [op EXCEPT ![t] = "continue"]
    BY <1>2 DEF ContinueContext, Ensure
  <2> QED BY <1>0, <1>2, <2>1, BeginKeeps DEF ContinueContext
<1>3. CASE CloseContext(t)
  <2>1. PICK w \in {"check", "connect"} : Goto(t, w) /\ op' = [op EXCEPT ![t] = "close"]
    BY <1>3 DEF CloseContext, Ensure
  <2> QED BY <1>0, <1>3, <2>1, BeginKeeps DEF CloseContext
<1>4. CASE CheckConnected(t)
  BY <1>0, <1>4, MoveKeeps DEF CheckConnected, PC
<1>5. CASE NotAvailable(t)
  <2>1. pipe # "good" BY <1>5 DEF NotAvailable, KInv, Parts, Down
  <2>2. \A u \in Thread : u # t => ctx'[u] = ctx[u]
    BY <1>5 DEF NotAvailable, GiveUp, KInv, TypeOK
  <2>3. left \subseteq left' BY <1>5 DEF NotAvailable, GiveUp
  <2>4. \A u \in Thread, e \in store : ctx[u] = e.id => ctx'[u] = e.id \/ e.id \in left'
    BY <1>5, <2>2 DEF NotAvailable, GiveUp, Ids, KInv, TypeOK
  <2> QED BY <1>0, <1>5, <2>1, <2>2, <2>3, <2>4, FailKeeps DEF NotAvailable, GiveUp
<1> QED BY <1>1, <1>2, <1>3, <1>4, <1>5 DEF Request

\* The parts after connecting, launching and the steps of an exchange.
LEMMA StepOfActor ==
    ASSUME KInv, NEW t \in Actor, Connect(t) \/ Launch(t) \/ Call(t)
    PROVE  Parts'
<1> USE DEF Shared, wire, agentVars
<1>1. CASE AlreadyConnected(t)
  BY <1>1, MoveKeeps DEF AlreadyConnected, Connecting, PC
<1>2. CASE ConnectToAgent(t) BY <1>2, ConnectKeeps
<1>3. CASE ConnectFails(t)
  <2>1. PICK w \in {"launch", "check"} : Goto(t, w) BY <1>3 DEF ConnectFails
  <2> QED BY <1>3, <2>1, MoveKeeps DEF ConnectFails, Connecting, PC
<1>4. CASE Launch(t)
  <2>1. PICK w \in {"poll", "claim", "spawn", "launched", "stamp"} : Goto(t, w)
    BY <1>4 DEF Launch, LaunchCooldown, LaunchClaim, LaunchSpawn, LaunchFails,
                LaunchRelease, LaunchStamp
  <2>2. pc[t] \notin {"read", "idle"} /\ UNCHANGED <<op, Shared>>
    BY <1>4 DEF Launch, LaunchCooldown, LaunchClaim, LaunchSpawn, LaunchFails,
                LaunchRelease, LaunchStamp
  <2> QED BY <2>1, <2>2, MoveKeeps DEF PC
<1>5. CASE CallWrite(t) BY <1>5, WriteKeeps
<1>6. CASE CallRead(t) BY <1>6, ReadKeeps
<1>7. CASE CallWriteFails(t) \/ CallReadFails(t)
  <2>1. pc[t] # "idle" /\ pipe # "good" BY <1>7 DEF CallWriteFails, CallReadFails
  <2>2. t = Keeper => pipe = "broken"
    BY <1>7 DEF CallWriteFails, CallReadFails, KInv, Parts, Down, TypeOK
  <2>3. \A u \in Thread : u # t => ctx'[u] = ctx[u]
    BY <1>7 DEF CallWriteFails, CallReadFails, GiveUp, KInv, TypeOK
  <2>4. Goto(t, IF t = Keeper THEN "drop" ELSE "idle")
    BY <1>7 DEF CallWriteFails, CallReadFails, GiveUp
  <2>5. /\ IF pc[t] = "read" THEN mutex' = Nobody ELSE mutex' = mutex
        /\ connected' \in {connected, FALSE}
        /\ UNCHANGED <<pipe, op, reqs, resps, store, nextId>>
    BY <1>7 DEF CallWriteFails, CallReadFails, GiveUp
  <2>6. left \subseteq left' BY <1>7 DEF CallWriteFails, CallReadFails, GiveUp
  <2>7. \A u \in Thread, e \in store : ctx[u] = e.id => ctx'[u] = e.id \/ e.id \in left'
    BY <1>7, <2>3 DEF CallWriteFails, CallReadFails, GiveUp, Ids, KInv, TypeOK
  <2> QED BY <2>1, <2>2, <2>3, <2>4, <2>5, <2>6, <2>7, FailKeeps, Actors
<1> QED BY <1>1, <1>2, <1>3, <1>4, <1>5, <1>6, <1>7 DEF Connect, Call

\* The parts after the steps of the keepalive thread.
LEMMA StepOfKeeper ==
    ASSUME KInv, Keepalive \/ KeepaliveContinue \/ Disconnect \/ CooldownEnds
    PROVE  Parts'
<1> USE DEF Shared, wire, agentVars
<1>1. CASE Keepalive
  <2>1. CASE connected
    <3>1. Goto(Keeper, "call") /\ pipe # "none"
      BY <1>1, <2>1 DEF Keepalive, KInv, Parts, Down
    <3> QED BY <1>1, <3>1, BeginKeeps, Actors DEF Keepalive
  <2>2. CASE ~connected
    <3>1. Goto(Keeper, "connect") BY <1>1, <2>2 DEF Keepalive
    <3> QED BY <1>1, <3>1, BeginKeeps, Actors DEF Keepalive
  <2> QED BY <2>1, <2>2
<1>2. CASE KeepaliveContinue BY <1>2, MoveKeeps, Actors DEF KeepaliveContinue, PC
<1>3. CASE Disconnect BY <1>3, DisconnectKeeps
<1>4. CASE CooldownEnds
  <2>1. UNCHANGED <<Shared, pc, op>> BY <1>4 DEF CooldownEnds, localVars
  <2> QED BY <2>1 DEF KInv, Parts, Locking, AnswersMatch, Asked, Down, Ops, Fresh, NoOrphans
<1> QED BY <1>1, <1>2, <1>3, <1>4

\* Every step keeps the invariant.
LEMMA AgentStep == ASSUME KInv, [Next]_vars PROVE KInv'
<1>1. ASSUME NEW t \in Thread, Request(t) \/ CheckConnected(t) \/ NotAvailable(t)
      PROVE  KInv'
  BY <1>1, RequestTyped, StepOfThread DEF KInv
<1>2. ASSUME NEW t \in Actor, Connect(t) \/ Launch(t) \/ Call(t) PROVE KInv'
  BY <1>2, ConnectTyped, CallTyped, StepOfActor DEF KInv
<1>3. CASE Keepalive \/ KeepaliveContinue \/ Disconnect \/ CooldownEnds
  BY <1>3, KeeperTyped, StepOfKeeper DEF KInv
<1>4. CASE Agent
  BY <1>4, AgentTyped, HandleKeeps, DropKeeps, ExpireKeeps, DeathKeeps DEF KInv, Agent
<1>5. CASE UNCHANGED vars
  BY <1>5 DEF vars, localVars, launchVars, wire, agentVars, KInv, Parts, TypeOK, Locking,
              AnswersMatch, Asked, Down, Ops, Fresh, NoOrphans
<1> QED BY <1>1, <1>2, <1>3, <1>4, <1>5 DEF Next

\* The invariant of the provider and the agent, through any number of crashes.
THEOREM AgentInductive == Spec => []KInv
BY AgentInit, AgentStep, PTL DEF Spec

\* Types: the store holds contexts of connection threads only.
THEOREM AgentTypeCorrect == Spec => []TypeOK
BY AgentInductive, PTL DEF KInv

\* An answer carries no caller: the mutex alone makes it its reader's own.
THEOREM AnswersAreOwn == Spec => []AnswersMatch
BY AgentInductive, PTL DEF KInv, Parts

\* A context at a live agent is forgotten only by the call that was to close
\* or to return it, when that call fails.
THEOREM ContextsRemembered == Spec => []NoOrphans
BY AgentInductive, PTL DEF KInv, Parts
=============================================================================
