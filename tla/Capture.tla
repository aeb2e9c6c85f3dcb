------------------------------ MODULE Capture ------------------------------
(***************************************************************************)
(* The packet loop of WinDivertCapture: one thread takes every outbound,   *)
(* loopback or relay-port TCP packet and passes it on, redirects it to the *)
(* local relay, restores it on the way back, or drops it.  What it knows   *)
(* of a connection is filed under the connection's SOURCE PORT only: two   *)
(* bitmaps, the connection table, the connection monitor, the PID cache.   *)
(*                                                                         *)
(* The sockets of the machine are the environment: processes open and      *)
(* close connections, ports are used again, the TCP table of the system    *)
(* lags behind, the relay answers.  A packet is one step of the loop: the  *)
(* loop is the only writer of the bitmaps and of the table while the       *)
(* service runs.                                                           *)
(***************************************************************************)
EXTENDS ConnectionTable

CONSTANTS
    Self,        \* the service's own process
    Opaque,      \* processes OpenProcess is refused for
    TargetPath,  \* processes whose full path is m_targetProcessPath
    TargetName,  \* processes with that path's file name
    Parent,      \* the process tree: [App -> App \cup {NoPid}]
    TreeDepth,   \* how far CheckProcessRule climbs it (10)
    RuleSets,    \* the rule sets the GUI may install: SUBSET [App -> RuleAction]
    NoConn,      \* a port no socket uses
    Miss,        \* no unexpired entry in the PID cache
    TableLag,    \* may the TCP table lack a new socket, and keep TIME_WAIT rows?
    Reconfig,    \* may rules and proxy change while the service runs?
    MaxConns,    \* bound: connections from one port (1: no port is used again)
    MaxOpens     \* bound: times the capture is opened (1: never closed)

RuleAction == {"Direct", "Proxy", "Block"}

ASSUME CaptureAssumption ==
    /\ Self \in App
    /\ Opaque \subseteq App
    /\ TargetPath \subseteq App
    /\ TargetName \subseteq App
    /\ Parent \in [App -> App \cup {NoPid}]
    /\ TreeDepth \in Nat
    /\ RuleSets \subseteq [App -> RuleAction]
    /\ Miss \notin App \cup {NoPid}
    /\ TableLag \in BOOLEAN /\ Reconfig \in BOOLEAN
    /\ MaxConns \in Nat /\ MaxOpens \in Nat

\* A connection of the environment: who opened it, to where, its row in the
\* system's TCP table (a TIME_WAIT row has PID 0), which sides sent FIN or
\* RST, the way its last packet went, and whether the TCP table named its
\* process when that packet was sent.
Conn == [app : App, ip : Ip, dport : DstPort,
         row : {"absent", "owned", "timewait"},
         fin : SUBSET {"client", "relay"},
         via : {"none", "direct", "relay", "block"},
         known : BOOLEAN]

ASSUME NoConnAssumption == NoConn \notin Conn

VARIABLES
    running,      \* m_running
    decided,      \* m_portDecided: ports with the bit set
    direct,       \* m_portDirect
    table,        \* the connection table
    trackedCount, \* m_trackedCount
    monitor,      \* ids in the connection monitor
    pidCache,     \* m_pidCache
    targetPid,    \* m_targetPid
    rules,        \* what RuleEngine::Match answers for each process
    proxySet,     \* is a proxy host and port configured?
    conn,         \* environment: the sockets
    atRelay,      \* environment: ports the relay has a socket to
    opened, opens \* counters for the bounds

loopVars == <<decided, direct, table, trackedCount, monitor, pidCache, targetPid>>
confVars == <<running, rules, proxySet, opens>>
envVars  == <<conn, atRelay, opened>>
vars == <<loopVars, confVars, envVars>>

Init ==
    /\ running = TRUE
    /\ decided = {} /\ direct = {}
    /\ table = EmptyTable /\ trackedCount = 0
    /\ monitor = {}
    /\ pidCache = [p \in Port |-> Miss]
    /\ targetPid = NoPid
    /\ rules \in RuleSets
    /\ proxySet = TRUE
    /\ conn = [p \in Port |-> NoConn]
    /\ atRelay = {}
    /\ opened = [p \in Port |-> 0]
    /\ opens = 1

-----------------------------------------------------------------------------
(* CheckProcessRule and its helpers                                        *)

\* FindPidBySourcePort: the cache first, else the row of the TCP table.
FindPid(p) ==
    IF pidCache[p] # Miss THEN pidCache[p]
    ELSE IF conn[p].row = "owned" THEN conn[p].app
    ELSE NoPid

\* A row that was found is cached, the PID 0 of a TIME_WAIT row included; a
\* port without a row is not.
CachedPid(p) ==
    IF pidCache[p] = Miss /\ conn[p].row # "absent"
    THEN [pidCache EXCEPT ![p] = FindPid(p)]
    ELSE pidCache

\* The processes FindTargetPid may return: the first readable one with the
\* target's file name, in the snapshot's order.
TargetCandidates == TargetName \ ({Self} \cup Opaque)

\* The climb of step 6: the process met after n parents.
Ancestor(a) ==
    LET up[n \in 0..TreeDepth] ==
            IF n = 0 THEN a
            ELSE IF up[n - 1] \in App THEN Parent[up[n - 1]] ELSE NoPid
    IN up

InTargetTree(a, tgt) ==
    tgt # NoPid /\ \E n \in 0..(TreeDepth - 1) : Ancestor(a)[n] = tgt

WantsProxy(a, tgt) ==
    \/ rules[a] = "Proxy"
    \/ rules[a] = "Direct" /\ (a \in TargetPath \/ InTargetTree(a, tgt))

\* Fault: no test for the service's own process.
RuleForSelfToo(a) ==
    CASE a = NoPid \/ a \in Opaque -> "direct"
      [] OTHER -> IF rules[a] = "Block" THEN "block"
                  ELSE IF WantsProxy(a, targetPid) /\ proxySet THEN "relay"
                  ELSE "direct"

\* The verdict on a known process; an unknown PID is DIRECT.
CheckProcessRule(a) ==
    CASE a = NoPid \/ a = Self \/ a \in Opaque -> "direct"
      [] OTHER -> IF rules[a] = "Block" THEN "block"
                  ELSE IF WantsProxy(a, targetPid) /\ proxySet THEN "relay"
                  ELSE "direct"

\* What CheckProcessRule leaves in m_targetPid.
LearnTarget(a) ==
    \/ /\ a = NoPid /\ targetPid = NoPid
       /\ IF TargetCandidates = {} THEN UNCHANGED targetPid
          ELSE targetPid' \in TargetCandidates
    \/ /\ a \in TargetPath \ ({Self} \cup Opaque) /\ rules[a] = "Direct"
       /\ targetPid' = a
    \/ /\ ~(a = NoPid /\ targetPid = NoPid)
       /\ ~(a \in TargetPath \ ({Self} \cup Opaque) /\ rules[a] = "Direct")
       /\ UNCHANGED targetPid

-----------------------------------------------------------------------------
(* The loop: one action for each way a packet can take through the steps   *)

\* The environment's record of a packet the client at p sent.
Record(p, fin, way) ==
    conn' = [conn EXCEPT ![p].via = way,
                         ![p].known = (conn[p].row = "owned"),
                         ![p].fin = @ \cup (IF fin THEN {"client"} ELSE {})]

\* Step 1 runs ClearPort for a FIN or RST on a decided port BEFORE it looks
\* at the direct bit.
AfterStep1(S, p, fin) == IF fin /\ p \in decided THEN S \ {p} ELSE S

\* Fault: the fast path taken by every decided port.
PassesUndecided(p, fin) == p \notin AfterStep1(decided, p, fin)

PassesStep1(p, fin) ==
    ~(p \in AfterStep1(decided, p, fin) /\ p \in AfterStep1(direct, p, fin))

\* The first packet of a connection is its SYN.
ClientSends(p, fin) == running /\ conn[p] # NoConn /\ (fin => conn[p].via # "none")

\* Step 1: a port decided DIRECT; the packet is passed on unmodified.
Step1Direct(p, fin) ==
    /\ ClientSends(p, fin)
    /\ ~PassesStep1(p, fin)
    /\ Record(p, fin, "direct")
    /\ UNCHANGED <<loopVars, confVars, atRelay, opened>>

\* Fault: the entry goes, the counter stays.
RestoreUncounted(p, fin) ==
    /\ running /\ p \in atRelay
    /\ IsTracked(table, p)
    /\ table' = IF fin THEN Remove(table, p) ELSE table
    /\ decided' = IF fin THEN decided \ {p} ELSE decided
    /\ direct' = IF fin THEN direct \ {p} ELSE direct
    /\ UNCHANGED <<trackedCount, monitor, pidCache, targetPid, confVars, envVars>>

\* Step 2: a packet of the relay's to client port p.  With an entry it is
\* restored to come from the original destination; without one it is sent as
\* it is.  FIN or RST drops the entry and the bits, but not the monitor's
\* record.
Step2Restore(p, fin) ==
    /\ running /\ p \in atRelay
    /\ IsTracked(table, p)
    /\ IF fin
       THEN /\ table' = Remove(table, p)
            /\ trackedCount' = IF trackedCount > 0 THEN trackedCount - 1 ELSE 0
            /\ decided' = decided \ {p} /\ direct' = direct \ {p}
       ELSE UNCHANGED <<table, trackedCount, decided, direct>>
    /\ conn' = IF fin /\ conn[p] # NoConn
               THEN [conn EXCEPT ![p].fin = @ \cup {"relay"}] ELSE conn
    /\ UNCHANGED <<monitor, pidCache, targetPid, confVars, atRelay, opened>>

Step2Stray(p) ==
    /\ running /\ p \in atRelay
    /\ ~IsTracked(table, p)
    /\ UNCHANGED vars

\* Step 3: a port in the table; the packet is redirected to the relay.
Step3Tracked(p, fin) ==
    /\ ClientSends(p, fin)
    /\ PassesStep1(p, fin)
    /\ IsTracked(table, p)
    /\ IF fin
       THEN /\ table' = Remove(table, p)
            /\ trackedCount' = IF trackedCount > 0 THEN trackedCount - 1 ELSE 0
            /\ monitor' = monitor \ {p}
            /\ decided' = decided \ {p} /\ direct' = direct \ {p}
       ELSE UNCHANGED <<table, trackedCount, monitor, decided, direct>>
    /\ Record(p, fin, "relay")
    /\ atRelay' = atRelay \cup {p}
    /\ UNCHANGED <<pidCache, targetPid, confVars, opened>>

\* Step 4: an outbound packet of a port not in the table, whatever its flags.
Verdict(p, fin, verdict) ==
    /\ ClientSends(p, fin)
    /\ PassesStep1(p, fin)
    /\ CheckProcessRule(FindPid(p)) = verdict
    /\ pidCache' = CachedPid(p)
    /\ LearnTarget(FindPid(p))
    /\ Record(p, fin, verdict)
    /\ UNCHANGED <<confVars, opened>>

Judge(p, fin, verdict) == ~IsTracked(table, p) /\ Verdict(p, fin, verdict)

Step4Direct(p, fin) ==
    /\ Judge(p, fin, "direct")
    /\ decided' = AfterStep1(decided, p, fin) \cup {p}
    /\ direct' = AfterStep1(direct, p, fin) \cup {p}
    /\ UNCHANGED <<table, trackedCount, monitor, atRelay>>

Step4Block(p, fin) ==
    /\ Judge(p, fin, "block")
    /\ decided' = AfterStep1(decided, p, fin) \cup {p}
    /\ direct' = AfterStep1(direct, p, fin)
    /\ UNCHANGED <<table, trackedCount, monitor, atRelay>>

\* Fault: no test whether the port already has an entry.
ProxyUntested(p, fin) ==
    /\ Verdict(p, fin, "relay")
    /\ table' = SetProcessInfo(Add(table, p, conn[p].ip, conn[p].dport),
                               p, FindPid(p))
    /\ trackedCount' = IF SameKey(table, p, conn[p].ip) = {}
                       THEN trackedCount + 1 ELSE trackedCount
    /\ monitor' = monitor \cup {p}
    /\ decided' = AfterStep1(decided, p, fin) \cup {p}
    /\ direct' = AfterStep1(direct, p, fin)
    /\ atRelay' = atRelay \cup {p}

Step4Proxy(p, fin) ==
    /\ Judge(p, fin, "relay")
    /\ table' = SetProcessInfo(Add(table, p, conn[p].ip, conn[p].dport),
                               p, FindPid(p))
    /\ trackedCount' = IF SameKey(table, p, conn[p].ip) = {}
                       THEN trackedCount + 1 ELSE trackedCount
    /\ monitor' = monitor \cup {p}
    /\ decided' = AfterStep1(decided, p, fin) \cup {p}
    /\ direct' = AfterStep1(direct, p, fin)
    /\ atRelay' = atRelay \cup {p}

ClientPacket(p, fin) ==
    \/ Step1Direct(p, fin)
    \/ Step3Tracked(p, fin)
    \/ Step4Direct(p, fin)
    \/ Step4Block(p, fin)
    \/ Step4Proxy(p, fin)

RelayPacket(p, fin) == Step2Restore(p, fin) \/ Step2Stray(p)

-----------------------------------------------------------------------------
(* Control: capture_stop and capture_start, new rules, a new proxy          *)

\* Close stops the loop and keeps the bitmaps, the table and the cache.
Close ==
    /\ running /\ opens < MaxOpens
    /\ running' = FALSE
    /\ UNCHANGED <<loopVars, envVars, rules, proxySet, opens>>

\* Fault: one bitmap cleared of two.
OpenClearsDecided ==
    /\ ~running
    /\ running' = TRUE
    /\ decided' = {}
    /\ opens' = opens + 1
    /\ UNCHANGED <<direct, table, trackedCount, monitor, pidCache, targetPid,
                   rules, proxySet, envVars>>

\* Open clears the bitmaps only.  (It also calls FindTargetPid and drops the
\* result.)
Open ==
    /\ ~running
    /\ running' = TRUE
    /\ decided' = {} /\ direct' = {}
    /\ opens' = opens + 1
    /\ UNCHANGED <<table, trackedCount, monitor, pidCache, targetPid,
                   rules, proxySet, envVars>>

\* Fault: new rules forget the decisions made by the old ones.
SetRulesAtOnce(r) ==
    /\ Reconfig
    /\ rules' = r /\ decided' = {} /\ direct' = {}
    /\ UNCHANGED <<table, trackedCount, monitor, pidCache, targetPid, envVars,
                   running, proxySet, opens>>

\* New rules are for the decisions to come: the bitmaps and the table stay.
SetRules(r) ==
    /\ Reconfig
    /\ rules' = r
    /\ UNCHANGED <<loopVars, envVars, running, proxySet, opens>>

SetProxyConfig ==
    /\ Reconfig
    /\ proxySet' = ~proxySet
    /\ UNCHANGED <<loopVars, envVars, running, rules, opens>>

-----------------------------------------------------------------------------
(* Environment                                                              *)

Connect(p, a, ip, dport) ==
    /\ conn[p] = NoConn
    /\ opened[p] < MaxConns
    /\ opened' = [opened EXCEPT ![p] = @ + 1]
    /\ \E r \in {"owned"} \cup (IF TableLag THEN {"absent"} ELSE {}) :
          conn' = [conn EXCEPT ![p] = [app |-> a, ip |-> ip, dport |-> dport,
                                       row |-> r, fin |-> {}, via |-> "none",
                                       known |-> FALSE]]
    /\ UNCHANGED <<loopVars, confVars, atRelay>>

\* The socket's row appears in the TCP table.
Listed(p) ==
    /\ conn[p] # NoConn /\ conn[p].row = "absent"
    /\ conn' = [conn EXCEPT ![p].row = "owned"]
    /\ UNCHANGED <<loopVars, confVars, atRelay, opened>>

\* The process is gone from the row of a connection it has closed.
TimeWait(p) ==
    /\ conn[p] # NoConn /\ conn[p].row = "owned" /\ conn[p].fin # {}
    /\ TableLag
    /\ conn' = [conn EXCEPT ![p].row = "timewait"]
    /\ UNCHANGED <<loopVars, confVars, atRelay, opened>>

\* The system releases the port: after a FIN or RST of either side; a peer
\* reached directly closes unseen, and a blocked attempt just times out.
Release(p) ==
    /\ conn[p] # NoConn
    /\ conn[p].fin # {} \/ conn[p].via # "relay"
    /\ conn' = [conn EXCEPT ![p] = NoConn]
    /\ UNCHANGED <<loopVars, confVars, atRelay, opened>>

\* The relay's socket to p is closed.
RelayDone(p) ==
    /\ p \in atRelay
    /\ atRelay' = atRelay \ {p}
    /\ UNCHANGED <<loopVars, confVars, conn, opened>>

\* While the capture is closed packets go straight to the network.
Bypass(p, fin) ==
    /\ ~running /\ conn[p] # NoConn
    /\ Record(p, fin, "direct")
    /\ UNCHANGED <<loopVars, confVars, atRelay, opened>>

\* A cached PID is older than PID_CACHE_TTL_MS.
PidExpire(p) ==
    /\ pidCache[p] # Miss
    /\ pidCache' = [pidCache EXCEPT ![p] = Miss]
    /\ UNCHANGED <<decided, direct, table, trackedCount, monitor, targetPid,
                   confVars, envVars>>

Loop == \E p \in Port, fin \in BOOLEAN : ClientPacket(p, fin) \/ RelayPacket(p, fin)

Control == Close \/ Open \/ SetProxyConfig \/ \E r \in RuleSets : SetRules(r)

Environment ==
    \E p \in Port :
        \/ \E a \in App, ip \in Ip, d \in DstPort : Connect(p, a, ip, d)
        \/ Listed(p) \/ TimeWait(p) \/ Release(p) \/ RelayDone(p) \/ PidExpire(p)
        \/ \E fin \in BOOLEAN : Bypass(p, fin)

Next == Loop \/ Control \/ Environment

Spec == Init /\ [][Next]_vars

-----------------------------------------------------------------------------
(* Properties                                                               *)

\* Types of the loop's state.  The count of tracked connections is decremented
\* under a test, so it stays a natural number.
TypeOK ==
    /\ running \in BOOLEAN
    /\ decided \subseteq Port /\ direct \subseteq Port
    /\ table \in Table /\ trackedCount \in Nat
    /\ monitor \subseteq Port
    /\ pidCache \in [Port -> App \cup {NoPid, Miss}]
    /\ targetPid \in App \cup {NoPid}
    /\ rules \in RuleSets
    /\ proxySet \in BOOLEAN
    /\ conn \in [Port -> Conn \cup {NoConn}]
    /\ atRelay \subseteq Port
    /\ opened \in [Port -> Nat]
    /\ opens \in Nat

Tracked == {p \in Port : IsTracked(table, p)}

\* Get, GetInfo and Remove look an entry up by source port alone, while Add
\* tells entries apart by source port and destination address.  The lookups
\* are right only because the table never holds two entries for one port.
OneEntryPerPort ==
    \A p \in Port : \A i, j \in Matches(table, p) : i = j

\* A port whose packets bypass the table (decided and direct) has no entry
\* there: an entry under a direct port would never be removed by its FIN.
DirectIsUntracked ==
    \A p \in direct : p \in decided /\ ~IsTracked(table, p)

\* Every connection the loop redirects is shown by the connection monitor,
\* through restarts of the capture and either way of closing.
TrackedIsMonitored == Tracked \subseteq monitor

\* The number of active connections the service reports (m_trackedCount) is
\* the number of ports in the table.
CountExact == trackedCount = Cardinality(Tracked)

\* Loop prevention: no connection of the service itself, its connections to
\* the proxy above all, goes back to the relay.
OwnTrafficDirect ==
    \A p \in Port : conn[p] # NoConn /\ conn[p].app = Self => conn[p].via # "relay"

\* A redirected connection that neither side has closed has an entry, and
\* the entry names the destination this connection was opened to.
OpenRelayedIsTracked ==
    \A p \in Port :
        conn[p] # NoConn /\ conn[p].via = "relay" /\ conn[p].fin = {} =>
            /\ IsTracked(table, p)
            /\ Get(table, p).orig_dest_ip = conn[p].ip
            /\ Get(table, p).orig_dest_port = conn[p].dport

\* A packet sent when the TCP table names its process is treated as the
\* rules for that process say.
RulesFollowed ==
    \A p \in Port : conn[p] # NoConn /\ conn[p].known =>
        conn[p].via = CheckProcessRule(conn[p].app)

\* A packet on a port decided DIRECT is passed on unmodified.
DirectPassed ==
    [][\A p \in Port, fin \in BOOLEAN :
        ClientPacket(p, fin) /\ p \in decided \cap direct =>
            conn'[p].via = "direct"]_vars

\* The relay's side of a redirected connection stays open to the client after
\* the client has sent its FIN: what the relay still sends is restored.
HalfOpenIsRestored ==
    \A p \in Port :
        conn[p] # NoConn /\ conn[p].via = "relay" /\ "relay" \notin conn[p].fin =>
            IsTracked(table, p)

\* Once the capture has chosen a way for a connection the connection keeps it, and
\* the relay keeps its destination, until a side closes or the capture is stopped:
\* through new rules, a new proxy, late rows of the TCP table, expired PIDs, and
\* whatever an earlier connection left under the port.  (Redirection)
Way(p) ==
    IF conn[p] = NoConn THEN "idle"
    ELSE IF conn[p].fin # {} THEN "closing"
    ELSE IF conn[p].via = "relay" THEN "relay"
    ELSE IF conn[p].via = "direct" /\ p \in direct /\ running THEN "direct"
    ELSE "open"
Redirected(p) ==
    IF Way(p) = "relay"
    THEN {<<Get(table, p).orig_dest_ip, Get(table, p).orig_dest_port>>} ELSE {}
Abstract == INSTANCE Redirection WITH
    Dest <- Ip \X DstPort, up <- running,
    way <- [p \in Port |-> Way(p)], dest <- [p \in Port |-> Redirected(p)]
KeepsItsWay == Abstract!Spec
=============================================================================
