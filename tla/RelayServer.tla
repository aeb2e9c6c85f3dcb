---------------------------- MODULE RelayServer ----------------------------
(***************************************************************************)
(* TcpRelayServer: Start, the accept loop, the bridge of two relaying      *)
(* threads for each connection, and Stop.  A bridge's UP thread copies     *)
(* client to proxy, DN (the connection's own thread) proxy to client; they *)
(* share a reference-counted pair, and the last one out closes both        *)
(* sockets.  Each step is one call that other threads can observe.         *)
(*                                                                         *)
(* What happens between accept and bridge is module ConnectHandler; here   *)
(* it is one step that succeeds or fails.  The two peers of a bridge are   *)
(* the environment: they send chunks of data, close their side, reset, or  *)
(* stop reading, which blocks a send for ever: on a bridge neither socket  *)
(* has a timeout.                                                          *)
(*                                                                         *)
(* WSAStartup and WSACleanup count references, and ServiceMain's           *)
(* ProxyEngine has one of its own, if its Initialize succeeded, until      *)
(* ServiceMain::Stop shuts it down after the relay.  The last WSACleanup   *)
(* makes every socket unusable and ends the calls blocked on one.          *)
(***************************************************************************)
EXTENDS Integers, FiniteSets

CONSTANTS
    Conn,       \* client connections
    MaxPolls,   \* polls of m_activePairs in Stop (50)
    MaxChunks,  \* bound: chunks a peer sends
    Resets      \* may a peer reset its connection?

ASSUME RelayAssumption ==
    /\ IsFiniteSet(Conn)
    /\ MaxPolls \in Nat /\ MaxChunks \in Nat
    /\ Resets \in BOOLEAN

\* A chunk is what one recv returns.  It is counted in two parts, so that a
\* send may take it whole or in part.
Chunk == 2

Dir == {"UP", "DN"}
Side == {"client", "proxy"}

From(d) == IF d = "UP" THEN "client" ELSE "proxy"
To(d)   == IF d = "UP" THEN "proxy" ELSE "client"

VARIABLES
    running,     \* m_running
    listening,   \* the listening sockets are open
    acceptor,    \* the accept thread
    stop,        \* the caller of Stop
    polls,       \* its loop counter
    winsock,     \* WSAStartup calls done and not undone
    activePairs, \* m_activePairs
    pc,          \* connection threads
    relay,       \* OneWayRelay: where each direction is
    refs,        \* pair->refs
    pair,        \* the RelayPair: none, live, freed
    fd,          \* 1: socket open, 0: not (or closed), below: closed twice
    counted,     \* chunks added to m_totalRxBytes / m_totalTxBytes
    total,       \* total_bytes of a direction
    peer,        \* environment: open, closed (sent FIN), reset
    sent,        \* environment: chunks each peer has sent
    got,         \* environment: chunks each peer has received
    eof,         \* environment: FIN the relay sent to each peer
    reads        \* environment: does the peer take what is sent to it?

serverVars == <<running, listening, acceptor, stop, polls, winsock>>
bridgeVars == <<activePairs, pc, relay, refs, pair, fd, counted, total>>
peerVars   == <<peer, sent, got, eof, reads>>
vars == <<serverVars, bridgeVars, peerVars>>

EachSide(x) == [c \in Conn |-> [s \in Side |-> x]]
EachDir(x)  == [c \in Conn |-> [d \in Dir |-> x]]

Init ==
    /\ running = FALSE /\ listening = FALSE /\ winsock \in {0, 1}
    /\ acceptor = "none" /\ stop = "no" /\ polls = 0
    /\ activePairs = 0
    /\ pc = [c \in Conn |-> "none"]
    /\ relay = EachDir("off")
    /\ refs = [c \in Conn |-> 0] /\ pair = [c \in Conn |-> "none"]
    /\ fd = EachSide(0)
    /\ counted = EachDir(0) /\ total = EachDir(0)
    /\ peer = EachSide("open") /\ sent = EachSide(0) /\ got = EachSide(0)
    /\ eof = EachSide(FALSE) /\ reads = EachSide(TRUE)

-----------------------------------------------------------------------------
(* Start, the accept loop, Stop                                             *)

\* Start; a failure of any of its calls undoes the earlier ones and leaves
\* this state.
Start ==
    /\ ~running /\ stop = "no"
    /\ running' = TRUE /\ listening' = TRUE /\ winsock' = winsock + 1
    /\ acceptor' = "loop"
    /\ UNCHANGED <<stop, polls, bridgeVars, peerVars>>

\* `while (m_running)', then select for at most a second.
AcceptLoop ==
    /\ acceptor = "loop"
    /\ acceptor' = IF running THEN "select" ELSE "ended"
    /\ UNCHANGED <<running, listening, stop, polls, winsock, bridgeVars, peerVars>>

\* select timed out or failed, or accept failed on a closed socket.
SelectIdle ==
    /\ acceptor = "select"
    /\ acceptor' = "loop"
    /\ UNCHANGED <<running, listening, stop, polls, winsock, bridgeVars, peerVars>>

\* accept and HandleNewConnection: a thread of its own for the client ...
HandleNewConnection(c) ==
    /\ acceptor = "select" /\ listening /\ pc[c] = "none"
    /\ acceptor' = "loop"
    /\ pc' = [pc EXCEPT ![c] = "negotiate"]
    /\ fd' = [fd EXCEPT ![c]["client"] = @ + 1]
    /\ UNCHANGED <<running, listening, stop, polls, winsock, activePairs, relay,
                   refs, pair, counted, total, peerVars>>

\* ... or, without a record of its port or a thread, closed at once.
RefuseConnection(c) ==
    /\ acceptor = "select" /\ listening /\ pc[c] = "none"
    /\ acceptor' = "loop"
    /\ pc' = [pc EXCEPT ![c] = "done"]
    /\ UNCHANGED <<running, listening, stop, polls, winsock, activePairs, relay,
                   refs, pair, fd, counted, total, peerVars>>

StopListening ==
    /\ running
    /\ running' = FALSE /\ listening' = FALSE
    /\ stop' = "join"
    /\ UNCHANGED <<acceptor, polls, winsock, bridgeVars, peerVars>>

StopJoin ==
    /\ stop = "join" /\ acceptor = "ended"
    /\ stop' = "poll"
    /\ UNCHANGED <<running, listening, acceptor, polls, winsock, bridgeVars, peerVars>>

StopPoll ==
    /\ stop = "poll" /\ polls < MaxPolls /\ activePairs > 0
    /\ polls' = polls + 1
    /\ UNCHANGED <<running, listening, acceptor, stop, winsock, bridgeVars, peerVars>>

\* One reference less; without one the call fails and does nothing.
WSACleanup == winsock' = IF winsock = 0 THEN 0 ELSE winsock - 1

\* Fault: no limit on the wait.
CleanupWhenDrained ==
    /\ stop = "poll" /\ activePairs = 0
    /\ stop' = "stopped" /\ WSACleanup
    /\ UNCHANGED <<running, listening, acceptor, polls, bridgeVars, peerVars>>

StopCleanup ==
    /\ stop = "poll" /\ (polls = MaxPolls \/ activePairs = 0)
    /\ stop' = "stopped" /\ WSACleanup
    /\ UNCHANGED <<running, listening, acceptor, polls, bridgeVars, peerVars>>

\* ServiceMain::Stop goes on: ProxyEngine::Shutdown has no sessions to close,
\* and calls WSACleanup whether its Initialize had succeeded or not.
EngineShutdown ==
    /\ stop = "stopped"
    /\ stop' = "shut" /\ WSACleanup
    /\ UNCHANGED <<running, listening, acceptor, polls, bridgeVars, peerVars>>

-----------------------------------------------------------------------------
(* The connection's thread                                                  *)

\* ConnectionHandler up to a 200 from the proxy ...
Negotiate(c) ==
    /\ pc[c] = "negotiate" /\ winsock > 0
    /\ pc' = [pc EXCEPT ![c] = "bridge"]
    /\ fd' = [fd EXCEPT ![c]["proxy"] = @ + 1]
    /\ UNCHANGED <<serverVars, activePairs, relay, refs, pair, counted, total, peerVars>>

\* ... or one of its error exits.
NegotiateFails(c) ==
    /\ pc[c] = "negotiate"
    /\ pc' = [pc EXCEPT ![c] = "done"]
    /\ fd' = [fd EXCEPT ![c]["client"] = @ - 1]
    /\ UNCHANGED <<serverVars, activePairs, relay, refs, pair, counted, total, peerVars>>

\* StartBridge: the pair has a reference for each direction.
StartBridge(c) ==
    /\ pc[c] = "bridge"
    /\ pc' = [pc EXCEPT ![c] = "relay"]
    /\ activePairs' = activePairs + 1
    /\ refs' = [refs EXCEPT ![c] = 2]
    /\ pair' = [pair EXCEPT ![c] = "live"]
    /\ relay' = [relay EXCEPT ![c] = [d \in Dir |-> "recv"]]
    /\ UNCHANGED <<serverVars, fd, counted, total, peerVars>>

\* Fault: the proxy's socket stays open.
BridgeFailsHalf(c) ==
    /\ pc[c] = "bridge"
    /\ pc' = [pc EXCEPT ![c] = "done"]
    /\ fd' = [fd EXCEPT ![c]["client"] = @ - 1]
    /\ UNCHANGED <<serverVars, activePairs, relay, refs, pair, counted, total, peerVars>>

\* The UP thread cannot be created: everything is undone.
StartBridgeFails(c) ==
    /\ pc[c] = "bridge"
    /\ pc' = [pc EXCEPT ![c] = "done"]
    /\ fd' = [fd EXCEPT ![c] = [s \in Side |-> @[s] - 1]]
    /\ UNCHANGED <<serverVars, activePairs, relay, refs, pair, counted, total, peerVars>>

\* DN has returned: wait for the UP thread, then leave.
EndBridge(c) ==
    /\ pc[c] = "relay"
    /\ relay[c]["DN"] \in {"ended", "thrown"} /\ relay[c]["UP"] = "ended"
    /\ pc' = [pc EXCEPT ![c] = "done"]
    /\ activePairs' = activePairs - 1
    /\ UNCHANGED <<serverVars, relay, refs, pair, fd, counted, total, peerVars>>

-----------------------------------------------------------------------------
(* OneWayRelay                                                              *)

Step(c, d, where) == relay' = [relay EXCEPT ![c][d] = where]

Usable(c, s) == winsock > 0 /\ fd[c][s] = 1

RecvData(c, d) ==
    /\ relay[c][d] = "recv" /\ Usable(c, From(d))
    /\ peer[c][From(d)] # "reset"
    /\ total[c][d] < sent[c][From(d)]
    /\ Step(c, d, "send")
    /\ UNCHANGED <<serverVars, activePairs, pc, refs, pair, fd, counted, total, peerVars>>

\* Fault: the loop is left on 0 only.
RecvEndsOnZero(c, d) ==
    /\ relay[c][d] = "recv"
    /\ peer[c][From(d)] = "closed" /\ total[c][d] = sent[c][From(d)]
    /\ Step(c, d, "shutdown")
    /\ counted' = [counted EXCEPT ![c][d] = @ + total[c][d]]
    /\ UNCHANGED <<serverVars, activePairs, pc, refs, pair, fd, total, peerVars>>

\* recv returns 0 after the peer's FIN and all of its data, or -1 after a
\* reset and on a socket that cannot be used.  The loop is left, and the
\* direction's bytes are added to the counter.
RecvEnds(c, d) ==
    /\ relay[c][d] = "recv"
    /\ \/ ~Usable(c, From(d))
       \/ peer[c][From(d)] = "reset"
       \/ peer[c][From(d)] = "closed" /\ total[c][d] = sent[c][From(d)]
    /\ Step(c, d, "shutdown")
    /\ counted' = [counted EXCEPT ![c][d] = @ + total[c][d]]
    /\ UNCHANGED <<serverVars, activePairs, pc, refs, pair, fd, total, peerVars>>

\* send returns when the peer has room for the data.
SendAll(c, d) ==
    /\ relay[c][d] \in {"send", "rest"} /\ Usable(c, To(d))
    /\ peer[c][To(d)] # "reset" /\ reads[c][To(d)]
    /\ Step(c, d, "recv")
    /\ total' = [total EXCEPT ![c][d] = @ + Chunk]
    /\ got' = [got EXCEPT ![c][To(d)] = @ + (IF relay[c][d] = "rest" THEN 1 ELSE Chunk)]
    /\ UNCHANGED <<serverVars, activePairs, pc, refs, pair, fd, counted, peer, sent, eof, reads>>

\* send takes a part; total_bytes grows only with the whole chunk.
SendPart(c, d) ==
    /\ relay[c][d] = "send" /\ Usable(c, To(d))
    /\ peer[c][To(d)] # "reset" /\ reads[c][To(d)]
    /\ Step(c, d, "rest")
    /\ got' = [got EXCEPT ![c][To(d)] = @ + 1]
    /\ UNCHANGED <<serverVars, activePairs, pc, refs, pair, fd, counted, total,
                   peer, sent, eof, reads>>

\* Fault: an early return without the counter.
SendFailsUncounted(c, d) ==
    /\ relay[c][d] \in {"send", "rest"}
    /\ ~Usable(c, To(d)) \/ peer[c][To(d)] = "reset"
    /\ Step(c, d, "shutdown")
    /\ UNCHANGED <<serverVars, activePairs, pc, refs, pair, fd, counted, total, peerVars>>

SendFails(c, d) ==
    /\ relay[c][d] \in {"send", "rest"}
    /\ ~Usable(c, To(d)) \/ peer[c][To(d)] = "reset"
    /\ Step(c, d, "shutdown")
    /\ counted' = [counted EXCEPT ![c][d] = @ + total[c][d]]
    /\ UNCHANGED <<serverVars, activePairs, pc, refs, pair, fd, total, peerVars>>

\* Fault: both directions are shut down.
ShutdownBoth(c, d) ==
    /\ relay[c][d] = "shutdown"
    /\ Step(c, d, "release")
    /\ eof' = [eof EXCEPT ![c] = [s \in Side |-> TRUE]]
    /\ UNCHANGED <<serverVars, activePairs, pc, refs, pair, fd, counted, total,
                   peer, sent, got, reads>>

\* shutdown(to, SD_SEND): the forward direction only.
ShutdownSend(c, d) ==
    /\ relay[c][d] = "shutdown"
    /\ Step(c, d, "release")
    /\ eof' = IF Usable(c, To(d)) THEN [eof EXCEPT ![c][To(d)] = TRUE] ELSE eof
    /\ UNCHANGED <<serverVars, activePairs, pc, refs, pair, fd, counted, total,
                   peer, sent, got, reads>>

\* Fault: the first thread out closes.
ReleaseFirst(c, d) ==
    /\ relay[c][d] = "release"
    /\ refs' = [refs EXCEPT ![c] = @ - 1]
    /\ Step(c, d, IF refs[c] = 2 THEN "close" ELSE "ended")
    /\ UNCHANGED <<serverVars, activePairs, pc, pair, fd, counted, total, peerVars>>

\* InterlockedDecrement(&pair->refs).
Release(c, d) ==
    /\ relay[c][d] = "release"
    /\ refs' = [refs EXCEPT ![c] = @ - 1]
    /\ Step(c, d, IF refs[c] = 1 THEN "close" ELSE "ended")
    /\ UNCHANGED <<serverVars, activePairs, pc, pair, fd, counted, total, peerVars>>

\* The last reference: close both sockets, delete the pair.
CloseBoth(c, d) ==
    /\ relay[c][d] = "close"
    /\ Step(c, d, "ended")
    /\ fd' = [fd EXCEPT ![c] = [s \in Side |-> @[s] - 1]]
    /\ pair' = [pair EXCEPT ![c] = "freed"]
    /\ UNCHANGED <<serverVars, activePairs, pc, refs, counted, total, peerVars>>

\* An exception in DN (a log line cannot be built): caught in StartBridge,
\* which then only waits for UP.
DnException(c) ==
    /\ relay[c]["DN"] \in {"recv", "send", "rest"}
    /\ Step(c, "DN", "thrown")
    /\ UNCHANGED <<serverVars, activePairs, pc, refs, pair, fd, counted, total, peerVars>>

-----------------------------------------------------------------------------
(* Environment                                                              *)

Talking(c, s) == pc[c] = "relay" /\ peer[c][s] = "open"

PeerSends(c, s) ==
    /\ Talking(c, s) /\ sent[c][s] < MaxChunks * Chunk
    /\ sent' = [sent EXCEPT ![c][s] = @ + Chunk]
    /\ UNCHANGED <<serverVars, bridgeVars, peer, got, eof, reads>>

PeerCloses(c, s) ==
    /\ Talking(c, s)
    /\ peer' = [peer EXCEPT ![c][s] = "closed"]
    /\ UNCHANGED <<serverVars, bridgeVars, sent, got, eof, reads>>

\* Calls on the connection fail from now on, a blocked send among them.
PeerResets(c, s) ==
    /\ Resets /\ pc[c] = "relay" /\ peer[c][s] # "reset"
    /\ peer' = [peer EXCEPT ![c][s] = "reset"]
    /\ reads' = [reads EXCEPT ![c][s] = TRUE]
    /\ UNCHANGED <<serverVars, bridgeVars, sent, got, eof>>

\* The peer's buffers are full and it reads no more.
PeerStalls(c, s) ==
    /\ pc[c] = "relay" /\ peer[c][s] # "reset" /\ reads[c][s]
    /\ reads' = [reads EXCEPT ![c][s] = FALSE]
    /\ UNCHANGED <<serverVars, bridgeVars, peer, sent, got, eof>>

Accepting ==
    \/ AcceptLoop \/ SelectIdle
    \/ \E c \in Conn : HandleNewConnection(c) \/ RefuseConnection(c)

Stop == StopListening \/ StopJoin \/ StopPoll \/ StopCleanup \/ EngineShutdown

Handle(c) ==
    \/ Negotiate(c) \/ NegotiateFails(c)
    \/ StartBridge(c) \/ StartBridgeFails(c) \/ EndBridge(c)

OneWayRelay(c, d) ==
    \/ RecvData(c, d) \/ RecvEnds(c, d)
    \/ SendAll(c, d) \/ SendPart(c, d) \/ SendFails(c, d)
    \/ ShutdownSend(c, d) \/ Release(c, d) \/ CloseBoth(c, d)

Peer(c, s) ==
    PeerSends(c, s) \/ PeerCloses(c, s) \/ PeerResets(c, s) \/ PeerStalls(c, s)

Next ==
    \/ Start \/ Accepting \/ Stop
    \/ \E c \in Conn :
        \/ Handle(c) \/ DnException(c)
        \/ \E d \in Dir : OneWayRelay(c, d)
        \/ \E s \in Side : Peer(c, s)

Spec == Init /\ [][Next]_vars

\* Threads that are not blocked go on: select has a timeout, recv returns
\* once there is data, an end or an error, send once the peer takes the data
\* or there is an error, a negotiation has timeouts.  The peers owe nothing,
\* and nobody has to call Stop.
Fairness ==
    /\ WF_vars(AcceptLoop) /\ WF_vars(SelectIdle)
    /\ WF_vars(StopJoin) /\ WF_vars(StopPoll) /\ WF_vars(StopCleanup)
    /\ WF_vars(EngineShutdown)
    /\ \A c \in Conn :
        /\ WF_vars(Handle(c))
        /\ \A d \in Dir : WF_vars(OneWayRelay(c, d))

FairSpec == Spec /\ Fairness

-----------------------------------------------------------------------------
(* Properties                                                               *)

PC == {"none", "negotiate", "bridge", "relay", "done"}
At == {"off", "recv", "send", "rest", "shutdown", "release", "close", "ended", "thrown"}

\* Types of the server's state: a socket is never closed twice (fd stays 0 or
\* 1), a pair has at most two references, m_activePairs is never negative.
TypeOK ==
    /\ running \in BOOLEAN /\ listening \in BOOLEAN /\ winsock \in Nat
    /\ acceptor \in {"none", "loop", "select", "ended"}
    /\ stop \in {"no", "join", "poll", "stopped", "shut"}
    /\ polls \in 0..MaxPolls
    /\ activePairs \in Nat
    /\ pc \in [Conn -> PC]
    /\ relay \in [Conn -> [Dir -> At]]
    /\ refs \in [Conn -> 0..2]
    /\ pair \in [Conn -> {"none", "live", "freed"}]
    /\ fd \in [Conn -> [Side -> {0, 1}]]
    /\ counted \in [Conn -> [Dir -> Nat]] /\ total \in [Conn -> [Dir -> Nat]]
    /\ peer \in [Conn -> [Side -> {"open", "closed", "reset"}]]
    /\ sent \in [Conn -> [Side -> Nat]] /\ got \in [Conn -> [Side -> Nat]]
    /\ eof \in [Conn -> [Side -> BOOLEAN]] /\ reads \in [Conn -> [Side -> BOOLEAN]]

\* While a relaying thread may still touch them, the pair is not freed and
\* neither socket is closed, however the two threads' endings interleave.
NoUseAfterClose ==
    \A c \in Conn, d \in Dir :
        relay[c][d] \notin {"off", "ended", "thrown"} =>
            pair[c] = "live" /\ \A s \in Side : fd[c][s] = 1

\* A connection whose thread has ended has given everything back: both
\* sockets are closed, once, and the pair is freed.  (An exception in DN loses
\* a reference, and with it both sockets and the pair.)
NothingLeaks ==
    \A c \in Conn : pc[c] = "done" /\ relay[c]["DN"] # "thrown" =>
        pair[c] # "live" /\ \A s \in Side : fd[c][s] = 0

\* m_activePairs is the number of bridges.
ActivePairsExact == activePairs = Cardinality({c \in Conn : pc[c] = "relay"})

\* Half-close: a side that finishes does not cut the other off.  The relay
\* sends FIN to a peer only when every chunk of the other peer has been
\* passed on, unless a peer was reset or Winsock is gone.
HalfCloseLosesNothing ==
    \A c \in Conn, d \in Dir :
        eof[c][To(d)] /\ winsock > 0 /\ (\A s \in Side : peer[c][s] # "reset") =>
            peer[c][From(d)] = "closed" /\ got[c][To(d)] = sent[c][From(d)]

\* What the byte counters say of an ended direction is what its peer got,
\* less at most a part of the chunk whose send failed half-way.
BytesAccounted ==
    \A c \in Conn, d \in Dir : relay[c][d] = "ended" =>
        /\ counted[c][d] <= got[c][To(d)]
        /\ got[c][To(d)] < counted[c][d] + Chunk
        /\ winsock > 0 /\ (\A s \in Side : peer[c][s] # "reset") =>
              counted[c][d] = got[c][To(d)]

\* A bridge ends once both peers have closed or reset, as long as neither
\* leaves its connection open without reading.
BridgeEnds ==
    \A c \in Conn :
        pc[c] = "relay" /\ (\A s \in Side : peer[c][s] # "open") ~>
            pc[c] = "done" \/ \E s \in Side : ~reads[c][s]

\* ... and without that exception: no send timeout protects a bridge.
BridgeAlwaysEnds ==
    \A c \in Conn :
        pc[c] = "relay" /\ (\A s \in Side : peer[c][s] # "open") ~> pc[c] = "done"

\* Stop returns, whatever the peers do.  The threads that it leaves behind
\* blocked end when ProxyEngine::Shutdown gives up the last reference to
\* Winsock.
StopReturns ==
    /\ stop = "join" ~> stop = "stopped"
    /\ stop = "stopped" ~> \A c \in Conn : pc[c] \in {"none", "done"}

\* WSACleanup comes only when no thread uses a socket any more.
CleanupWhenIdle ==
    winsock = 0 => \A c \in Conn : pc[c] \in {"none", "done"}
=============================================================================
