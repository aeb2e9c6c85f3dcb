------------------------- MODULE RelayServerProofs -------------------------
(***************************************************************************)
(* Proofs about RelayServer, for any number of connections and any bounds. *)
(***************************************************************************)
EXTENDS RelayServer, FiniteSetTheorems, TLAPS

\* A relaying thread that has yet to drop its reference.
Holds(c, d) == relay[c][d] \in {"recv", "send", "rest", "shutdown", "release"}

\* Before the bridge no relaying thread runs; after it none does.
Outside(c) ==
    /\ pc[c] = "relay" => \A d \in Dir : relay[c][d] # "off"
    /\ pc[c] = "done" => \A d \in Dir : relay[c][d] \in {"off", "ended", "thrown"}
    /\ pc[c] \in {"none", "negotiate", "bridge"} =>
          /\ \A d \in Dir : relay[c][d] = "off"
          /\ pair[c] = "none"
          /\ fd[c]["client"] = IF pc[c] = "none" THEN 0 ELSE 1
          /\ fd[c]["proxy"] = IF pc[c] = "bridge" THEN 1 ELSE 0

\* A thread that runs finds the pair and both sockets.
Alive(c) ==
    \A d \in Dir : relay[c][d] \notin {"off", "ended", "thrown"} =>
        pair[c] = "live" /\ fd[c]["client"] = 1 /\ fd[c]["proxy"] = 1

\* A thread that has yet to release is counted; both of them are counted
\* twice; the one that closes is alone.
Counted(c) ==
    /\ \A d \in Dir : Holds(c, d) => refs[c] >= 1
    /\ (\A d \in Dir : Holds(c, d)) => refs[c] = 2
    /\ \A d, e \in Dir : relay[c][d] = "close" /\ e # d => relay[c][e] = "ended"
    /\ relay[c]["DN"] = "thrown" => relay[c]["UP"] # "close" /\ (Holds(c, "UP") => refs[c] = 2)
    /\ relay[c]["UP"] # "thrown"

\* Without an exception the count is exact, and the last one out has closed.
Exact(c) ==
    relay[c]["DN"] # "thrown" =>
    /\ \A d, e \in Dir : Holds(c, d) /\ relay[c][e] = "ended" => refs[c] = 1
    /\ (\A d \in Dir : relay[c][d] = "ended") =>
          pair[c] = "freed" /\ fd[c]["client"] = 0 /\ fd[c]["proxy"] = 0
    /\ pc[c] = "done" =>
          pair[c] # "live" /\ fd[c]["client"] = 0 /\ fd[c]["proxy"] = 0

\* The inductive invariant.
RInv ==
    /\ TypeOK
    /\ \A c \in Conn : Outside(c) /\ Alive(c) /\ Counted(c) /\ Exact(c)
    /\ ActivePairsExact

\* The steps of one connection, and those of the server's own threads.
ConnStep(c) ==
    \/ HandleNewConnection(c) \/ RefuseConnection(c)
    \/ Handle(c) \/ DnException(c)
    \/ \E d \in Dir : OneWayRelay(c, d)
    \/ \E s \in Side : Peer(c, s)

ServerStep == Start \/ AcceptLoop \/ SelectIdle \/ Stop

\* Every step is the server's or one connection's.
LEMMA NextSplit == Next => ServerStep \/ \E c \in Conn : ConnStep(c)
BY DEF Next, Accepting, ServerStep, ConnStep

-----------------------------------------------------------------------------
\* The server's own steps leave the bridges alone.
LEMMA ServerKeeps == ASSUME RInv, ServerStep PROVE RInv'
<1>1. UNCHANGED bridgeVars /\ UNCHANGED peerVars
  BY DEF ServerStep, Start, AcceptLoop, SelectIdle, Stop, StopListening,
         StopJoin, StopPoll, StopCleanup, EngineShutdown, WSACleanup
<1>2. TypeOK'
  <2> USE DEF RInv, ServerStep, Start, AcceptLoop, SelectIdle, Stop,
              StopListening, StopJoin, StopPoll, StopCleanup, EngineShutdown, WSACleanup
  <2>1. (running \in BOOLEAN /\ listening \in BOOLEAN)' BY Zenon DEF TypeOK
  <2>6. (winsock \in Nat)' BY DEF TypeOK
  <2>2. (acceptor \in {"none", "loop", "select", "ended"})'
    BY DEF TypeOK
  <2>3. (stop \in {"no", "join", "poll", "stopped", "shut"})'
    BY DEF TypeOK
  <2>4. polls' = polls \/ StopPoll BY Zenon
  <2>5. (polls \in 0..MaxPolls)' BY <2>4, RelayAssumption DEF TypeOK
  <2> HIDE DEF ServerStep
  <2> QED BY <1>1, <2>1, <2>2, <2>3, <2>5, <2>6 DEF TypeOK, bridgeVars, peerVars
<1>3. ActivePairsExact' BY <1>1 DEF RInv, ActivePairsExact, bridgeVars
<1>4. \A c \in Conn : Outside(c)' /\ Alive(c)' /\ Counted(c)' /\ Exact(c)'
  BY <1>1 DEF RInv, Outside, Alive, Counted, Exact, Holds, bridgeVars
<1> QED BY <1>2, <1>3, <1>4 DEF RInv

\* One connection's step changes no other connection's bridge.
LEMMA OthersKept ==
    ASSUME TypeOK, NEW c \in Conn, ConnStep(c), NEW b \in Conn, b # c
    PROVE  /\ pc'[b] = pc[b] /\ relay'[b] = relay[b] /\ refs'[b] = refs[b]
           /\ pair'[b] = pair[b] /\ fd'[b] = fd[b]
<1> USE DEF TypeOK, Step, bridgeVars, serverVars, peerVars
<1>1. CASE HandleNewConnection(c) \/ RefuseConnection(c)
  BY <1>1 DEF HandleNewConnection, RefuseConnection
<1>2. CASE Handle(c)
  BY <1>2 DEF Handle, Negotiate, NegotiateFails, StartBridge, StartBridgeFails, EndBridge
<1>3. CASE DnException(c) BY <1>3 DEF DnException
<1>4. CASE \E d \in Dir : OneWayRelay(c, d)
  BY <1>4 DEF OneWayRelay, RecvData, RecvEnds, SendAll, SendPart, SendFails,
              ShutdownSend, Release, CloseBoth
<1>5. CASE \E s \in Side : Peer(c, s)
  BY <1>5 DEF Peer, PeerSends, PeerCloses, PeerResets, PeerStalls
<1> QED BY <1>1, <1>2, <1>3, <1>4, <1>5 DEF ConnStep

Bridges == {c \in Conn : pc[c] = "relay"}

\* Only starting and ending a bridge change the set of bridges, and they count.
LEMMA PairsCounted ==
    ASSUME RInv, NEW c \in Conn, ConnStep(c)
    PROVE  ActivePairsExact' /\ activePairs' \in Nat
<1>1. IsFiniteSet(Bridges) BY RelayAssumption, FS_Subset DEF Bridges
<1>2. Cardinality(Bridges) \in Nat BY <1>1, FS_CardinalityType
<1>3. activePairs = Cardinality(Bridges) BY DEF RInv, ActivePairsExact, Bridges
<1> USE DEF RInv, TypeOK
<1>4. CASE StartBridge(c)
  <2>1. Bridges' = Bridges \cup {c} /\ c \notin Bridges BY <1>4 DEF StartBridge, Bridges
  <2>2. Cardinality(Bridges') = Cardinality(Bridges) + 1 BY <1>1, <2>1, FS_AddElement
  <2>3. activePairs' = activePairs + 1 BY <1>4 DEF StartBridge
  <2> QED BY <1>2, <1>3, <2>2, <2>3 DEF ActivePairsExact, Bridges
<1>5. CASE EndBridge(c)
  <2>1. Bridges' = Bridges \ {c} /\ c \in Bridges BY <1>5 DEF EndBridge, Bridges
  <2>2. Cardinality(Bridges') = Cardinality(Bridges) - 1 BY <1>1, <2>1, FS_RemoveElement
  <2>3. Cardinality(Bridges) # 0 BY <1>1, <2>1, FS_EmptySet
  <2>4. activePairs' = activePairs - 1 BY <1>5 DEF EndBridge
  <2> QED BY <1>2, <1>3, <2>2, <2>3, <2>4 DEF ActivePairsExact, Bridges
<1>6. CASE ~StartBridge(c) /\ ~EndBridge(c)
  <2>1. activePairs' = activePairs
    BY <1>6 DEF ConnStep, HandleNewConnection, RefuseConnection, Handle, Negotiate,
          NegotiateFails, StartBridgeFails, DnException, OneWayRelay, RecvData,
          RecvEnds, SendAll, SendPart, SendFails, ShutdownSend, Release, CloseBoth,
          Peer, PeerSends, PeerCloses, PeerResets, PeerStalls, bridgeVars
  <2>2. pc \in [Conn -> PC] /\ pc' \in [Conn -> PC]
        /\ (pc'[c] = "relay" <=> pc[c] = "relay")
    BY <1>6 DEF ConnStep, HandleNewConnection, RefuseConnection, Handle, Negotiate,
          NegotiateFails, StartBridgeFails, DnException, OneWayRelay, RecvData,
          RecvEnds, SendAll, SendPart, SendFails, ShutdownSend, Release, CloseBoth,
          Peer, PeerSends, PeerCloses, PeerResets, PeerStalls, bridgeVars, PC
  <2>3. Bridges' = Bridges BY <2>2, OthersKept DEF Bridges
  <2> QED BY <1>2, <1>3, <2>1, <2>3 DEF ActivePairsExact, Bridges
<1> QED BY <1>4, <1>5, <1>6

\* A step of one connection keeps the types.  That no socket is closed twice
\* rests on Outside and Alive, that refs does not pass zero on Counted.
LEMMA ConnTyped ==
    ASSUME RInv, NEW c \in Conn, ConnStep(c)
    PROVE  TypeOK'
<1>1. activePairs' \in Nat BY PairsCounted
<1>2. \A d \in Dir : d = "UP" \/ d = "DN" BY DEF Dir
<1>3. \A s \in Side : s = "client" \/ s = "proxy" BY DEF Side
<1> USE <1>1 DEF RInv, TypeOK, PC, At, serverVars, bridgeVars, peerVars, Step,
      From, To, Chunk
<1>4. CASE HandleNewConnection(c) BY <1>4 DEF HandleNewConnection, Outside, Side
<1>5. CASE RefuseConnection(c) BY <1>5 DEF RefuseConnection
<1>6. CASE Negotiate(c)
  <2>1. fd[c]["proxy"] = 0 /\ "proxy" \in Side BY <1>6 DEF Negotiate, Outside, Side
  <2>2. fd' \in [Conn -> [Side -> {0, 1}]] BY <1>6, <2>1 DEF Negotiate
  <2> QED BY <1>6, <2>2 DEF Negotiate
<1>7. CASE NegotiateFails(c) BY <1>7 DEF NegotiateFails, Outside, Side
<1>8. CASE StartBridge(c)
  <2>1. [d \in Dir |-> "recv"] \in [Dir -> At] BY DEF At
  <2>2. relay' \in [Conn -> [Dir -> At]] BY <1>8, <2>1 DEF StartBridge
  <2> QED BY <1>8, <2>2 DEF StartBridge
<1>9. CASE StartBridgeFails(c)
  <2>1. \A s \in Side : fd[c][s] = 1 BY <1>9, <1>3 DEF StartBridgeFails, Outside
  <2>2. [s \in Side |-> fd[c][s] - 1] \in [Side -> {0, 1}] BY <2>1
  <2>3. fd' \in [Conn -> [Side -> {0, 1}]] BY <1>9, <2>2 DEF StartBridgeFails
  <2> QED BY <1>9, <2>3 DEF StartBridgeFails
<1>10. CASE EndBridge(c) BY <1>10 DEF EndBridge
<1>11. CASE DnException(c)
  <2>1. "DN" \in Dir BY DEF Dir
  <2>2. relay' \in [Conn -> [Dir -> At]] BY <1>11, <2>1 DEF DnException
  <2> QED BY <1>11, <2>2 DEF DnException
<1>12. ASSUME NEW d \in Dir, OneWayRelay(c, d) PROVE TypeOK'
  <2>1. CASE RecvData(c, d) BY <2>1 DEF RecvData
  <2>2. CASE RecvEnds(c, d) BY <2>2 DEF RecvEnds
  <2>3. CASE SendAll(c, d) BY <2>3, <1>2 DEF SendAll, Side
  <2>4. CASE SendPart(c, d) BY <2>4, <1>2 DEF SendPart, Side
  <2>5. CASE SendFails(c, d) BY <2>5 DEF SendFails
  <2>6. CASE ShutdownSend(c, d) BY <2>6, <1>2 DEF ShutdownSend, Side
  <2>7. CASE Release(c, d) BY <2>7 DEF Release, Counted, Holds
  <2>8. CASE CloseBoth(c, d)
    <3>1. \A s \in Side : fd[c][s] = 1 BY <2>8, <1>3 DEF CloseBoth, Alive
    <3>2. [s \in Side |-> fd[c][s] - 1] \in [Side -> {0, 1}] BY <3>1
    <3>3. fd' \in [Conn -> [Side -> {0, 1}]] BY <2>8, <3>2 DEF CloseBoth
    <3> QED BY <2>8, <3>3 DEF CloseBoth
  <2> QED BY <1>12, <2>1, <2>2, <2>3, <2>4, <2>5, <2>6, <2>7, <2>8 DEF OneWayRelay
<1>13. ASSUME NEW s \in Side, Peer(c, s) PROVE TypeOK'
  <2>1. CASE PeerSends(c, s) BY <2>1 DEF PeerSends
  <2>2. CASE PeerCloses(c, s) BY <2>2 DEF PeerCloses
  <2>3. CASE PeerResets(c, s) BY <2>3 DEF PeerResets
  <2>4. CASE PeerStalls(c, s) BY <2>4 DEF PeerStalls
  <2> QED BY <1>13, <2>1, <2>2, <2>3, <2>4 DEF Peer
<1> QED BY <1>4, <1>5, <1>6, <1>7, <1>8, <1>9, <1>10, <1>11, <1>12, <1>13
           DEF ConnStep, Handle

\* A step of one connection keeps what its bridge relies on.
LEMMA ConnBridge ==
    ASSUME RInv, NEW c \in Conn, ConnStep(c)
    PROVE  Outside(c)' /\ Alive(c)' /\ Counted(c)'
<1> USE DEF RInv, TypeOK, Outside, Alive, Counted, Holds, Step, Dir, Side, bridgeVars
<1>1. CASE HandleNewConnection(c) BY <1>1 DEF HandleNewConnection
<1>2. CASE RefuseConnection(c) BY <1>2 DEF RefuseConnection
<1>3. CASE Negotiate(c)
  <2>1. fd[c]["client"] = 1 /\ fd[c]["proxy"] = 0 BY <1>3 DEF Negotiate
  <2>2. fd'[c]["client"] = 1 /\ fd'[c]["proxy"] = 1 BY <1>3, <2>1 DEF Negotiate
  <2>3. pc'[c] = "bridge" /\ UNCHANGED <<relay, pair, refs>> BY <1>3 DEF Negotiate
  <2>4. \A e \in Dir : relay[c][e] = "off" BY <1>3 DEF Negotiate
  <2> QED BY <1>3, <2>2, <2>3, <2>4 DEF Negotiate
<1>4. CASE NegotiateFails(c) BY <1>4 DEF NegotiateFails
<1>5. CASE StartBridge(c) BY <1>5 DEF StartBridge
<1>6. CASE StartBridgeFails(c) BY <1>6 DEF StartBridgeFails
<1>7. CASE EndBridge(c) BY <1>7 DEF EndBridge
<1>8. CASE DnException(c) BY <1>8 DEF DnException
<1>9. ASSUME NEW d \in Dir, OneWayRelay(c, d) PROVE Outside(c)' /\ Alive(c)' /\ Counted(c)'
  <2>1. CASE RecvData(c, d) BY <2>1 DEF RecvData
  <2>2. CASE RecvEnds(c, d) BY <2>2 DEF RecvEnds
  <2>3. CASE SendAll(c, d) BY <2>3 DEF SendAll
  <2>4. CASE SendPart(c, d) BY <2>4 DEF SendPart
  <2>5. CASE SendFails(c, d) BY <2>5 DEF SendFails
  <2>6. CASE ShutdownSend(c, d) BY <2>6 DEF ShutdownSend
  <2>7. CASE Release(c, d)
    <3>1. PICK e \in Dir : e # d /\ \A x \in Dir : x = d \/ x = e OBVIOUS
    <3>2. UNCHANGED <<pc, pair, fd>> BY <2>7 DEF Release
    <3>3. pc[c] = "relay" BY <2>7 DEF Release, PC
    <3>4. relay[c][e] # "close" /\ relay[c][e] # "off" BY <2>7, <3>3, <3>1 DEF Release
    <3>5. relay'[c][e] = relay[c][e] BY <2>7, <3>1 DEF Release
    <3>6. refs'[c] = refs[c] - 1 /\ refs[c] \in 1..2 BY <2>7 DEF Release
    <3>7. relay'[c][d] = IF refs[c] = 1 THEN "close" ELSE "ended" BY <2>7 DEF Release
    <3>8. Outside(c)' /\ Alive(c)'
      BY <2>7, <3>3, <3>1, <3>2, <3>4, <3>5, <3>7 DEF Release
    <3>9. refs[c] = 1 => relay[c][e] = "ended"
      <4>1. relay[c][e] \in At OBVIOUS
      <4>2. Holds(c, d) BY <2>7 DEF Release
      <4>3. Holds(c, e) => refs[c] = 2 BY <3>1, <4>2
      <4>4. relay[c][e] = "thrown" => e = "DN" /\ d = "UP" /\ refs[c] = 2
        BY <3>1, <4>2
      <4> QED BY <3>4, <4>1, <4>3, <4>4 DEF At
    <3>10. Counted(c)' BY <3>1, <3>4, <3>5, <3>6, <3>7, <3>9
    <3> QED BY <3>8, <3>10
  <2>8. CASE CloseBoth(c, d) BY <2>8 DEF CloseBoth
  <2> QED BY <1>9, <2>1, <2>2, <2>3, <2>4, <2>5, <2>6, <2>7, <2>8 DEF OneWayRelay
<1>10. ASSUME NEW s \in Side, Peer(c, s) PROVE Outside(c)' /\ Alive(c)' /\ Counted(c)'
  BY <1>10 DEF Peer, PeerSends, PeerCloses, PeerResets, PeerStalls
<1> QED BY <1>1, <1>2, <1>3, <1>4, <1>5, <1>6, <1>7, <1>8, <1>9, <1>10
           DEF ConnStep, Handle

\* It also keeps the count of references exact.
LEMMA ConnExact ==
    ASSUME RInv, NEW c \in Conn, ConnStep(c)
    PROVE  Exact(c)'
<1> USE DEF RInv, TypeOK, Outside, Alive, Counted, Exact, Holds, Step, Dir, Side,
      bridgeVars
<1>1. CASE HandleNewConnection(c) BY <1>1 DEF HandleNewConnection
<1>2. CASE RefuseConnection(c) BY <1>2 DEF RefuseConnection
<1>3. CASE Negotiate(c) BY <1>3 DEF Negotiate
<1>4. CASE NegotiateFails(c) BY <1>4 DEF NegotiateFails
<1>5. CASE StartBridge(c) BY <1>5 DEF StartBridge
<1>6. CASE StartBridgeFails(c) BY <1>6 DEF StartBridgeFails
<1>7. CASE EndBridge(c) BY <1>7 DEF EndBridge
<1>8. CASE DnException(c) BY <1>8 DEF DnException
<1>9. ASSUME NEW d \in Dir, OneWayRelay(c, d) PROVE Exact(c)'
  <2>1. CASE RecvData(c, d) BY <2>1 DEF RecvData
  <2>2. CASE RecvEnds(c, d) BY <2>2 DEF RecvEnds
  <2>3. CASE SendAll(c, d) BY <2>3 DEF SendAll
  <2>4. CASE SendPart(c, d) BY <2>4 DEF SendPart
  <2>5. CASE SendFails(c, d) BY <2>5 DEF SendFails
  <2>6. CASE ShutdownSend(c, d) BY <2>6 DEF ShutdownSend
  <2>7. CASE Release(c, d) BY <2>7 DEF Release
  <2>8. CASE CloseBoth(c, d) BY <2>8 DEF CloseBoth
  <2> QED BY <1>9, <2>1, <2>2, <2>3, <2>4, <2>5, <2>6, <2>7, <2>8 DEF OneWayRelay
<1>10. ASSUME NEW s \in Side, Peer(c, s) PROVE Exact(c)'
  BY <1>10 DEF Peer, PeerSends, PeerCloses, PeerResets, PeerStalls
<1> QED BY <1>1, <1>2, <1>3, <1>4, <1>5, <1>6, <1>7, <1>8, <1>9, <1>10
           DEF ConnStep, Handle

\* Before Start there are no threads, sockets or pairs.
LEMMA InitRInv == Init => RInv
<1> SUFFICES ASSUME Init PROVE RInv OBVIOUS
<1> USE RelayAssumption DEF Init, EachSide, EachDir
<1>1. TypeOK
  <2>1. EachDir("off") \in [Conn -> [Dir -> At]] BY DEF At
  <2>2. EachDir(0) \in [Conn -> [Dir -> Nat]] /\ EachSide(0) \in [Conn -> [Side -> Nat]]
    OBVIOUS
  <2>3. EachSide(0) \in [Conn -> [Side -> {0, 1}]] OBVIOUS
  <2>4. EachSide("open") \in [Conn -> [Side -> {"open", "closed", "reset"}]] OBVIOUS
  <2>5. /\ EachSide(FALSE) \in [Conn -> [Side -> BOOLEAN]]
        /\ EachSide(TRUE) \in [Conn -> [Side -> BOOLEAN]]
    OBVIOUS
  <2>6. /\ polls \in 0..MaxPolls /\ activePairs \in Nat /\ refs \in [Conn -> 0..2]
        /\ winsock \in Nat
    OBVIOUS
  <2>7. pc \in [Conn -> PC] BY DEF PC
  <2> HIDE DEF EachDir, EachSide
  <2> QED BY <2>1, <2>2, <2>3, <2>4, <2>5, <2>6, <2>7 DEF TypeOK
<1>2. \A c \in Conn : Outside(c) /\ Alive(c) /\ Counted(c) /\ Exact(c)
  BY DEF Outside, Alive, Counted, Exact, Holds, Dir, Side
<1>3. {c \in Conn : pc[c] = "relay"} = {} OBVIOUS
<1>4. ActivePairsExact BY <1>3, FS_EmptySet DEF ActivePairsExact
<1> QED BY <1>1, <1>2, <1>4 DEF RInv

\* The invariant is inductive: one lemma for each of its parts, and a
\* connection's step leaves the other connections' parts as they were.
THEOREM RelayInductive == Spec => []RInv
<1>1. ASSUME RInv, [Next]_vars PROVE RInv'
  <2>1. CASE ServerStep BY <1>1, <2>1, ServerKeeps
  <2>2. ASSUME NEW c \in Conn, ConnStep(c) PROVE RInv'
    <3>1. TypeOK' /\ ActivePairsExact' BY <1>1, <2>2, ConnTyped, PairsCounted
    <3>2. ASSUME NEW b \in Conn, b # c
          PROVE  Outside(b)' /\ Alive(b)' /\ Counted(b)' /\ Exact(b)'
      BY <1>1, <2>2, <3>2, OthersKept DEF RInv, Outside, Alive, Counted, Exact, Holds
    <3>3. \A b \in Conn : Outside(b)' /\ Alive(b)' /\ Counted(b)'
      BY <1>1, <2>2, <3>2, ConnBridge
    <3>4. \A b \in Conn : Exact(b)'
      BY <1>1, <2>2, <3>2, ConnExact
    <3> QED BY <3>1, <3>3, <3>4 DEF RInv
  <2>3. CASE UNCHANGED vars
    BY <1>1, <2>3 DEF RInv, TypeOK, Outside, Alive, Counted, Exact, Holds,
          ActivePairsExact, vars, serverVars, bridgeVars, peerVars
  <2> QED BY <1>1, <2>1, <2>2, <2>3, NextSplit
<1> QED BY InitRInv, <1>1, PTL DEF Spec

\* The server's state is well typed; in particular no socket is closed twice
\* and m_activePairs does not wrap.
THEOREM RelayTypeCorrect == Spec => []TypeOK
<1>1. RInv => TypeOK BY DEF RInv
<1> QED BY <1>1, RelayInductive, PTL

\* The two threads of a bridge may end in any order, by FIN, reset, error or
\* exception: neither finds a closed socket or a freed pair.
THEOREM BridgeUsesLive == Spec => []NoUseAfterClose
<1>1. RInv => NoUseAfterClose BY DEF RInv, Alive, NoUseAfterClose, Side
<1> QED BY <1>1, RelayInductive, PTL

\* m_activePairs is the number of bridges, for any number of connections.
THEOREM PairsExact == Spec => []ActivePairsExact
<1>1. RInv => ActivePairsExact BY DEF RInv
<1> QED BY <1>1, RelayInductive, PTL

\* A connection whose thread has ended holds neither socket and no pair, unless
\* relaying threw.
THEOREM BridgeLeaksNothing == Spec => []NothingLeaks
<1>1. RInv => NothingLeaks BY DEF RInv, Exact, NothingLeaks, Side
<1> QED BY <1>1, RelayInductive, PTL

-----------------------------------------------------------------------------
(* What a bridge passes on.                                                 *)

\* Nothing has cut the bridge: no reset, and Winsock is still there.
Intact(c) == winsock > 0 /\ \A s \in Side : peer[c][s] # "reset"

\* A connection is accepted after Start only, and Start comes only once: what
\* Stop takes away does not come back.
Served ==
    /\ listening => running
    /\ \A c \in Conn : pc[c] # "none" => running \/ stop # "no"

\* What a direction has passed on, and what it has counted.  It leaves the loop
\* with the two equal and the other peer's FIN read, unless the bridge was cut,
\* and only after that sends a FIN of its own.
Flow(c, d) ==
    /\ relay[c][d] \in {"off", "recv", "send"} => got[c][To(d)] = total[c][d]
    /\ relay[c][d] = "rest" => got[c][To(d)] = total[c][d] + 1
    /\ relay[c][d] \in {"off", "recv", "send", "rest"} => counted[c][d] = 0
    /\ relay[c][d] \in {"shutdown", "release", "close", "ended"} =>
          /\ counted[c][d] = total[c][d]
          /\ total[c][d] <= got[c][To(d)] /\ got[c][To(d)] < total[c][d] + Chunk
          /\ Intact(c) => /\ got[c][To(d)] = total[c][d]
                          /\ got[c][To(d)] = sent[c][From(d)]
                          /\ peer[c][From(d)] = "closed"
    /\ eof[c][To(d)] => relay[c][d] \in {"release", "close", "ended"}

\* The invariant of the data, on top of RInv.
FInv == Served /\ \A c \in Conn, d \in Dir : Flow(c, d)

\* Start is the only step that sets m_running, Stop the only one that clears it.
LEMMA ServedKept == ASSUME RInv, Served, [Next]_vars PROVE Served'
<1>1. CASE ServerStep
  <2>1. pc' = pc
    BY <1>1 DEF ServerStep, Start, AcceptLoop, SelectIdle, Stop, StopListening,
           StopJoin, StopPoll, StopCleanup, EngineShutdown, WSACleanup, bridgeVars
  <2>2. /\ listening' => running'
        /\ running \/ stop # "no" => running' \/ stop' # "no"
    BY <1>1 DEF Served, ServerStep, Start, AcceptLoop, SelectIdle, Stop,
           StopListening, StopJoin, StopPoll, StopCleanup, EngineShutdown, WSACleanup
  <2> QED BY <2>1, <2>2 DEF Served
<1>2. ASSUME NEW c \in Conn, ConnStep(c) PROVE Served'
  <2>1. UNCHANGED <<running, listening, stop>>
    BY <1>2 DEF ConnStep, HandleNewConnection, RefuseConnection, Handle, Negotiate,
          NegotiateFails, StartBridge, StartBridgeFails, EndBridge, DnException,
          OneWayRelay, RecvData, RecvEnds, SendAll, SendPart, SendFails,
          ShutdownSend, Release, CloseBoth, Peer, PeerSends, PeerCloses,
          PeerResets, PeerStalls, serverVars
  <2>2. pc[c] = "none" /\ pc'[c] # "none" => listening
    BY <1>2 DEF ConnStep, HandleNewConnection, RefuseConnection, Handle, Negotiate,
          NegotiateFails, StartBridge, StartBridgeFails, EndBridge, DnException,
          OneWayRelay, RecvData, RecvEnds, SendAll, SendPart, SendFails,
          ShutdownSend, Release, CloseBoth, Peer, PeerSends, PeerCloses,
          PeerResets, PeerStalls, bridgeVars
  <2>3. \A b \in Conn : b # c => pc'[b] = pc[b] BY <1>2, OthersKept DEF RInv
  <2> QED BY <2>1, <2>2, <2>3 DEF Served
<1>3. CASE UNCHANGED vars BY <1>3 DEF Served, vars, serverVars, bridgeVars
<1> QED BY <1>1, <1>2, <1>3, NextSplit

\* A direction is as it was when its own state is and its bridge is not mended.
LEMMA FlowFrame ==
    ASSUME NEW c \in Conn, NEW d \in Dir, Flow(c, d),
           relay'[c][d] = relay[c][d], got'[c][To(d)] = got[c][To(d)],
           total'[c][d] = total[c][d], counted'[c][d] = counted[c][d],
           eof'[c][To(d)] = eof[c][To(d)],
           Intact(c)' =>
              \/ relay[c][d] \in {"off", "recv", "send", "rest", "thrown"}
              \/ /\ Intact(c)
                 /\ peer[c][From(d)] = "closed" =>
                       peer'[c][From(d)] = "closed" /\ sent'[c][From(d)] = sent[c][From(d)]
    PROVE  Flow(c, d)'
BY DEF Flow

\* The server's steps: Stop may cut the bridges, and Start finds none.
LEMMA ServerFlow ==
    ASSUME RInv, FInv, ServerStep, NEW c \in Conn, NEW d \in Dir
    PROVE  Flow(c, d)'
<1>1. UNCHANGED bridgeVars /\ UNCHANGED peerVars
  BY DEF ServerStep, Start, AcceptLoop, SelectIdle, Stop, StopListening,
         StopJoin, StopPoll, StopCleanup, EngineShutdown, WSACleanup
<1>2. CASE Start
  <2>1. pc[c] = "none" BY <1>2 DEF Start, FInv, Served
  <2>2. relay[c][d] = "off" BY <2>1 DEF RInv, Outside
  <2> QED BY <1>1, <2>2, FlowFrame DEF FInv, bridgeVars, peerVars
<1>3. CASE ~Start
  <2>1. winsock' > 0 => winsock > 0
    <3>1. winsock \in Nat BY DEF RInv, TypeOK
    <3>2. winsock' = winsock \/ WSACleanup
      BY <1>3 DEF ServerStep, AcceptLoop, SelectIdle, Stop, StopListening,
             StopJoin, StopPoll, StopCleanup, EngineShutdown
    <3> QED BY <3>1, <3>2 DEF WSACleanup
  <2>2. Intact(c)' => Intact(c) BY <1>1, <2>1 DEF Intact, peerVars
  <2> QED BY <1>1, <2>2, FlowFrame DEF FInv, bridgeVars, peerVars
<1> QED BY <1>2, <1>3

\* One connection's step changes nothing of what another one passes on.
LEMMA OthersFlow ==
    ASSUME RInv, FInv, NEW c \in Conn, ConnStep(c),
           NEW b \in Conn, b # c, NEW d \in Dir
    PROVE  Flow(b, d)'
<1> USE DEF RInv, TypeOK, Step, bridgeVars, serverVars, peerVars
<1> DEFINE Same == /\ counted'[b] = counted[b] /\ total'[b] = total[b]
                   /\ peer'[b] = peer[b] /\ sent'[b] = sent[b]
                   /\ got'[b] = got[b] /\ eof'[b] = eof[b] /\ winsock' = winsock
<1>1. Same
  <2>1. CASE HandleNewConnection(c) \/ RefuseConnection(c)
    BY <2>1 DEF HandleNewConnection, RefuseConnection
  <2>2. CASE Handle(c)
    BY <2>2 DEF Handle, Negotiate, NegotiateFails, StartBridge, StartBridgeFails,
                EndBridge
  <2>3. CASE DnException(c) BY <2>3 DEF DnException
  <2>4. CASE \E e \in Dir : OneWayRelay(c, e)
    BY <2>4 DEF OneWayRelay, RecvData, RecvEnds, SendAll, SendPart, SendFails,
                ShutdownSend, Release, CloseBoth
  <2>5. CASE \E s \in Side : Peer(c, s)
    BY <2>5 DEF Peer, PeerSends, PeerCloses, PeerResets, PeerStalls
  <2> QED BY <2>1, <2>2, <2>3, <2>4, <2>5 DEF ConnStep
<1>2. relay'[b] = relay[b] BY OthersKept
<1>3. Intact(b)' = Intact(b) BY <1>1 DEF Intact
<1> QED BY <1>1, <1>2, <1>3, FlowFrame DEF FInv

\* The two directions of a bridge send to different peers.
LEMMA Directions ==
    ASSUME NEW d \in Dir, NEW e \in Dir
    PROVE  /\ From(d) \in Side /\ To(d) \in Side
           /\ d # e => To(d) # To(e) /\ From(d) # From(e)
BY DEF Dir, Side, From, To

\* One direction's step: the other one is not disturbed, and its own account
\* is kept; a loop is left with the account balanced unless the bridge is cut.
LEMMA RelayFlow ==
    ASSUME RInv, FInv, NEW c \in Conn, NEW d \in Dir, OneWayRelay(c, d),
           NEW e \in Dir
    PROVE  Flow(c, e)'
<1> USE Directions DEF RInv, TypeOK, Step, bridgeVars, serverVars, peerVars
<1>1. UNCHANGED <<winsock, peer, sent>>
  BY DEF OneWayRelay, RecvData, RecvEnds, SendAll, SendPart, SendFails,
         ShutdownSend, Release, CloseBoth
<1>2. Intact(c)' = Intact(c) BY <1>1 DEF Intact
<1>3. Flow(c, d) /\ Flow(c, e) BY DEF FInv
<1>4. CASE e # d
  <2>1. /\ relay'[c][e] = relay[c][e] /\ total'[c][e] = total[c][e]
        /\ counted'[c][e] = counted[c][e]
    BY <1>4 DEF OneWayRelay, RecvData, RecvEnds, SendAll, SendPart, SendFails,
           ShutdownSend, Release, CloseBoth
  <2>2. got'[c][To(e)] = got[c][To(e)]
    BY <1>4 DEF OneWayRelay, RecvData, RecvEnds, SendAll, SendPart, SendFails,
           ShutdownSend, Release, CloseBoth
  <2>3. eof'[c][To(e)] = eof[c][To(e)]
    BY <1>4 DEF OneWayRelay, RecvData, RecvEnds, SendAll, SendPart, SendFails,
           ShutdownSend, Release, CloseBoth
  <2> QED BY <1>1, <1>2, <1>3, <2>1, <2>2, <2>3, FlowFrame
<1>5. CASE e = d
  <2>1. /\ total[c][d] \in Nat /\ got[c][To(d)] \in Nat /\ counted[c][d] \in Nat
        /\ relay[c][d] \in At
    OBVIOUS
  <2>2. ASSUME relay[c][d] \notin {"off", "ended", "thrown"}
        PROVE  ~Usable(c, From(d)) \/ ~Usable(c, To(d)) => ~Intact(c)
    BY <2>2 DEF Alive, Usable, Intact, Side
  <2> USE <1>1, <1>2, <1>3, <1>5, <2>1 DEF Flow, Chunk
  <2>3. CASE RecvData(c, d) BY <2>3 DEF RecvData
  <2>4. CASE RecvEnds(c, d)
    <3>1. Intact(c) => /\ peer[c][From(d)] = "closed"
                       /\ total[c][d] = sent[c][From(d)]
      BY <2>2, <2>4 DEF RecvEnds, Intact
    <3> QED BY <2>4, <3>1 DEF RecvEnds
  <2>5. CASE SendAll(c, d) BY <2>5 DEF SendAll
  <2>6. CASE SendPart(c, d) BY <2>6 DEF SendPart
  <2>7. CASE SendFails(c, d)
    <3>1. ~Intact(c) BY <2>2, <2>7 DEF SendFails, Intact
    <3> QED BY <2>7, <3>1 DEF SendFails
  <2>8. CASE ShutdownSend(c, d) BY <2>8 DEF ShutdownSend
  <2>9. CASE Release(c, d) BY <2>9 DEF Release
  <2>10. CASE CloseBoth(c, d) BY <2>10 DEF CloseBoth
  <2> QED BY <2>3, <2>4, <2>5, <2>6, <2>7, <2>8, <2>9, <2>10 DEF OneWayRelay
<1> QED BY <1>4, <1>5

\* A connection's step keeps its account.
LEMMA ConnFlow ==
    ASSUME RInv, FInv, NEW c \in Conn, ConnStep(c), NEW d \in Dir
    PROVE  Flow(c, d)'
<1> USE DEF RInv, TypeOK, Step, bridgeVars, serverVars, peerVars
<1>1. Flow(c, d) BY DEF FInv
<1>2. CASE \/ HandleNewConnection(c) \/ RefuseConnection(c) \/ Negotiate(c)
           \/ NegotiateFails(c) \/ StartBridgeFails(c) \/ EndBridge(c)
  <2>1. UNCHANGED <<relay, counted, total, peer, sent, got, eof, winsock>>
    BY <1>2 DEF HandleNewConnection, RefuseConnection, Negotiate, NegotiateFails,
                StartBridgeFails, EndBridge
  <2>2. Intact(c)' = Intact(c) BY <2>1 DEF Intact
  <2> QED BY <1>1, <2>1, <2>2, FlowFrame
<1>3. CASE StartBridge(c)
  <2>1. relay[c][d] = "off" /\ relay'[c][d] = "recv" BY <1>3 DEF StartBridge, Outside
  <2>2. UNCHANGED <<counted, total, got, eof>> BY <1>3 DEF StartBridge
  <2> QED BY <1>1, <2>1, <2>2 DEF Flow
<1>4. CASE DnException(c)
  <2>1. UNCHANGED <<counted, total, peer, sent, got, eof, winsock>> BY <1>4 DEF DnException
  <2>2. Intact(c)' = Intact(c) BY <2>1 DEF Intact
  <2>3. CASE d = "DN"
    <3>1. relay'[c][d] = "thrown" /\ relay[c][d] \in {"recv", "send", "rest"}
      BY <1>4, <2>3 DEF DnException
    <3> QED BY <1>1, <2>1, <3>1 DEF Flow
  <2>4. CASE d # "DN"
    <3>1. relay'[c][d] = relay[c][d] BY <1>4, <2>4 DEF DnException
    <3> QED BY <1>1, <2>1, <2>2, <3>1, FlowFrame
  <2> QED BY <2>3, <2>4
<1>5. CASE \E e \in Dir : OneWayRelay(c, e) BY <1>5, RelayFlow
<1>6. ASSUME NEW s \in Side, Peer(c, s) PROVE Flow(c, d)'
  <2>1. UNCHANGED <<relay, counted, total, got, eof, winsock>>
    BY <1>6 DEF Peer, PeerSends, PeerCloses, PeerResets, PeerStalls
  <2>2. \A t \in Side : /\ peer[c][t] = "reset" => peer'[c][t] = "reset"
                        /\ peer'[c][t] # "reset" /\ peer[c][t] = "closed" =>
                              peer'[c][t] = "closed" /\ sent'[c][t] = sent[c][t]
    BY <1>6 DEF Peer, PeerSends, PeerCloses, PeerResets, PeerStalls, Talking
  <2>3. Intact(c)' => /\ Intact(c)
                      /\ \A t \in Side : peer'[c][t] # "reset"
    BY <2>1, <2>2 DEF Intact
  <2> QED BY <1>1, <2>1, <2>2, <2>3, FlowFrame, Directions
<1> QED BY <1>2, <1>3, <1>4, <1>5, <1>6 DEF ConnStep, Handle

\* The account of every direction of every bridge is kept.
THEOREM FlowInductive == Spec => []FInv
<1>1. Init => FInv
  <2> SUFFICES ASSUME Init PROVE FInv OBVIOUS
  <2>1. Served BY DEF Init, Served
  <2>2. \A c \in Conn, d \in Dir : Flow(c, d)
    BY Directions DEF Init, EachSide, EachDir, Flow
  <2> QED BY <2>1, <2>2 DEF FInv
<1>2. ASSUME RInv, FInv, [Next]_vars PROVE FInv'
  <2>1. Served' BY <1>2, ServedKept DEF FInv
  <2>2. ASSUME NEW c \in Conn, NEW d \in Dir PROVE Flow(c, d)'
    <3>1. CASE ServerStep BY <1>2, <3>1, ServerFlow
    <3>2. ASSUME NEW b \in Conn, ConnStep(b) PROVE Flow(c, d)'
      BY <1>2, <3>2, OthersFlow, ConnFlow
    <3>3. CASE UNCHANGED vars
      BY <1>2, <3>3, FlowFrame DEF FInv, Intact, vars, serverVars, bridgeVars, peerVars
    <3> QED BY <1>2, <3>1, <3>2, <3>3, NextSplit
  <2> QED BY <2>1, <2>2 DEF FInv
<1> QED BY <1>1, <1>2, RelayInductive, PTL DEF Spec

\* A peer that sees the relay's FIN has received everything the other peer
\* sent, and the other peer has closed, unless the bridge was cut.
THEOREM HalfCloseSafe == Spec => []HalfCloseLosesNothing
<1>1. FInv => HalfCloseLosesNothing
  BY DEF FInv, Flow, Intact, HalfCloseLosesNothing
<1> QED BY <1>1, FlowInductive, PTL

\* The byte counters of an ended direction are what its peer received, up to
\* a part of the one chunk whose send failed.
THEOREM BytesExact == Spec => []BytesAccounted
<1>1. RInv /\ FInv => BytesAccounted
  BY DEF FInv, Flow, Intact, BytesAccounted
<1> QED BY <1>1, FlowInductive, RelayInductive, PTL
=============================================================================
