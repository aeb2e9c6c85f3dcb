-------------------------- MODULE ConnectHandler --------------------------
(***************************************************************************)
(* TcpRelayServer::ConnectionHandler up to the bridge: every accepted      *)
(* client gets a thread that resolves the proxy, connects to it, sends     *)
(* HTTP CONNECT and follows the answers: 200, 407 (up to MaxAuth rounds of *)
(* authentication), 502/504 (up to MaxGateway new connections), anything   *)
(* else, or no answer.  A thread's steps end where it blocks or reads      *)
(* what other threads write.                                               *)
(*                                                                         *)
(* The threads share the authentication provider, the error counter and    *)
(* the member m_lastAuthToken.  The proxy may answer anything; what the    *)
(* status-line and substring tests make of an answer is its class.         *)
(*                                                                         *)
(* A context is named <<h, g>>: thread h creates at most one in its g-th   *)
(* gateway attempt, since it creates only while none is active.  A token   *)
(* is <<h, g, n>>, the one issued for that context in auth round n.  One   *)
(* whose creating call failed has no id here and is KerberosAgent's matter.*)
(***************************************************************************)
EXTENDS Integers, FiniteSets

CONSTANTS
    Handler,      \* connection threads
    Provider,     \* m_authProvider as each thread finds it, "none" also when
                  \* m_proxyAuthRequired is off (a reload may change it)
    MaxGateway,   \* MAX_GATEWAY_RETRIES (3)
    MaxAuth,      \* the limit on authRetries (5)
    RecvFails,    \* may recv on the proxy socket fail (reset, 30 s timeout)?
    NoToken

ASSUME HandlerAssumption ==
    /\ IsFiniteSet(Handler)
    /\ Provider \in [Handler -> {"none", "Basic", "Kerberos"}]
    /\ RecvFails \in BOOLEAN
    /\ MaxGateway \in Nat /\ MaxAuth \in Nat \ {0}

Context == Handler \X (0..MaxGateway)
Token == Handler \X (0..MaxGateway) \X (0..(MaxAuth + 1))

ASSUME NoTokenAssumption == NoToken \notin Token

VARIABLES
    alive,      \* the service process
    pc,         \* where each thread is
    gw,         \* gatewayRetries
    ar,         \* authRetries
    active,     \* authContextActive
    req,        \* the token in the CONNECT being sent
    issued,     \* the last token the provider gave this thread
    sends,      \* CONNECT requests sent by this thread
    client,     \* open client sockets of the thread
    proxy,      \* open proxy sockets of the thread
    addr,       \* the getaddrinfo result
    open,       \* contexts open at the provider
    asked,      \* contexts CloseContext was called for (history)
    lastToken,  \* m_lastAuthToken
    errors      \* proxy errors counted by the monitor

local == <<gw, ar, active, req, issued, sends>>
shared == <<open, asked, lastToken, errors>>
vars == <<alive, pc, local, client, proxy, addr, shared>>

PC == {"idle", "resolve", "connect", "prepare", "send", "recv",
       "bridge", "done", "refused"}

Init ==
    /\ alive = TRUE
    /\ pc = [h \in Handler |-> "idle"]
    /\ gw = [h \in Handler |-> 0] /\ ar = [h \in Handler |-> 0]
    /\ active = [h \in Handler |-> FALSE]
    /\ req = [h \in Handler |-> NoToken] /\ issued = [h \in Handler |-> NoToken]
    /\ sends = [h \in Handler |-> 0]
    /\ client = [h \in Handler |-> 0] /\ proxy = [h \in Handler |-> 0]
    /\ addr = [h \in Handler |-> "none"]
    /\ open = {} /\ asked = {} /\ lastToken = NoToken /\ errors = 0

At(h, where) == alive /\ pc[h] = where

Goto(h, where) == pc' = [pc EXCEPT ![h] = where]

-----------------------------------------------------------------------------
(* The provider                                                             *)

AuthOn(h) == Provider[h] # "none"

Kerberos(h) == Provider[h] = "Kerberos"

ThisContext(h) == <<h, gw[h]>>

\* CreateContext may fail for the agent only; Basic keeps no contexts.
Created(h) == IF Kerberos(h) THEN {ThisContext(h)} ELSE {}

\* CloseContext of the thread's context, if it has one.  It returns nothing:
\* without a connection to the agent, or when the call fails, the context is
\* left to the agent's time limit.
CloseContext(h) ==
    IF active[h]
    THEN /\ asked' = asked \cup {ThisContext(h)}
         /\ open' \in {open, open \ {ThisContext(h)}}
    ELSE UNCHANGED <<open, asked>>

\* The agent drops a context: its time limit has passed, or the agent died.
ContextExpires(c) ==
    /\ open' = open \ {c}
    /\ UNCHANGED <<alive, pc, local, client, proxy, addr, asked, lastToken, errors>>

TokenFor(h, n) == <<h, gw[h], n>>

-----------------------------------------------------------------------------
(* Leaving: every error exit closes what the thread holds                   *)

\* An exit with both sockets open.
Leave(h) ==
    /\ Goto(h, "done")
    /\ CloseContext(h)
    /\ client' = [client EXCEPT ![h] = @ - 1]
    /\ proxy' = [proxy EXCEPT ![h] = @ - 1]
    /\ addr' = [addr EXCEPT ![h] = "freed"]
    /\ UNCHANGED <<alive, local, lastToken>>

\* ... counted as a proxy error.
Quit(h) == Leave(h) /\ errors' = errors + 1

\* HandleNewConnection: the port has no record, or no thread can be created.
Refuse(h) ==
    /\ At(h, "idle")
    /\ Goto(h, "refused")
    /\ UNCHANGED <<alive, local, client, proxy, addr, shared>>

Accept(h) ==
    /\ At(h, "idle")
    /\ Goto(h, "resolve")
    /\ client' = [client EXCEPT ![h] = @ + 1]
    /\ UNCHANGED <<alive, local, proxy, addr, shared>>

Resolve(h) ==
    /\ At(h, "resolve")
    /\ Goto(h, "connect")
    /\ addr' = [addr EXCEPT ![h] = "held"]
    /\ UNCHANGED <<alive, local, client, proxy, shared>>

ResolveFails(h) ==
    /\ At(h, "resolve")
    /\ Goto(h, "done")
    /\ errors' = errors + 1
    /\ client' = [client EXCEPT ![h] = @ - 1]
    /\ UNCHANGED <<alive, local, proxy, addr, open, asked, lastToken>>

\* Fault: a refused connection is tried again for ever.
ConnectAgain(h) ==
    /\ At(h, "connect")
    /\ Goto(h, "resolve")
    /\ addr' = [addr EXCEPT ![h] = "freed"]
    /\ UNCHANGED <<alive, local, client, proxy, shared>>

\* socket() and connect(): both sides of a failure leave no proxy socket.
ConnectFails(h) ==
    /\ At(h, "connect")
    /\ Goto(h, "done")
    /\ errors' = errors + 1
    /\ client' = [client EXCEPT ![h] = @ - 1]
    /\ addr' = [addr EXCEPT ![h] = "freed"]
    /\ UNCHANGED <<alive, local, proxy, open, asked, lastToken>>

\* The authentication locals are declared, and so reset, after the label
\* retry_proxy_connect.
Connect(h) ==
    /\ At(h, "connect")
    /\ Goto(h, "prepare")
    /\ proxy' = [proxy EXCEPT ![h] = @ + 1]
    /\ ar' = [ar EXCEPT ![h] = 0]
    /\ active' = [active EXCEPT ![h] = FALSE]
    /\ UNCHANGED <<alive, gw, req, issued, sends, client, addr, shared>>

-----------------------------------------------------------------------------
(* retry_connect: the request                                               *)

\* No context yet: create one; its token goes into the request and nowhere
\* else.
PrepareCreate(h) ==
    /\ At(h, "prepare")
    /\ AuthOn(h) /\ ~active[h]
    /\ Goto(h, "send")
    /\ open' = open \cup Created(h)
    /\ active' = [active EXCEPT ![h] = TRUE]
    /\ req' = [req EXCEPT ![h] = TokenFor(h, ar[h])]
    /\ issued' = [issued EXCEPT ![h] = TokenFor(h, ar[h])]
    /\ UNCHANGED <<alive, gw, ar, sends, client, proxy, addr, asked, lastToken, errors>>

\* No authentication, or the provider failed: CONNECT without a token.
PreparePlain(h) ==
    /\ At(h, "prepare")
    /\ ~AuthOn(h) \/ (~active[h] /\ Kerberos(h))
    /\ Goto(h, "send")
    /\ req' = [req EXCEPT ![h] = NoToken]
    /\ UNCHANGED <<alive, gw, ar, active, issued, sends, client, proxy, addr, shared>>

\* A context from before: the request takes the member m_lastAuthToken.
PrepareAgain(h) ==
    /\ At(h, "prepare")
    /\ AuthOn(h) /\ active[h]
    /\ Goto(h, "send")
    /\ req' = [req EXCEPT ![h] = lastToken]
    /\ UNCHANGED <<alive, gw, ar, active, issued, sends, client, proxy, addr, shared>>

Send(h) ==
    /\ At(h, "send")
    /\ Goto(h, "recv")
    /\ sends' = [sends EXCEPT ![h] = @ + 1]
    /\ UNCHANGED <<alive, gw, ar, active, req, issued, client, proxy, addr, shared>>

SendFails(h) == At(h, "send") /\ Quit(h)

-----------------------------------------------------------------------------
(* The answer                                                               *)

\* recv returns -1: the log line before the test of `bytes' builds
\* std::string(resp_buf, -1), which throws; nothing catches it in the thread.
RecvError(h) ==
    /\ At(h, "recv")
    /\ RecvFails
    /\ alive' = FALSE
    /\ UNCHANGED <<pc, local, client, proxy, addr, shared>>

\* recv returns 0: the proxy closed.
RecvClosed(h) == At(h, "recv") /\ Quit(h)

\* Fault: the context is kept for the bridge.
BridgeKeepsContext(h) ==
    /\ At(h, "recv")
    /\ Goto(h, "bridge")
    /\ addr' = [addr EXCEPT ![h] = "freed"]
    /\ UNCHANGED <<alive, local, client, proxy, shared>>

Got200(h) ==
    /\ At(h, "recv")
    /\ Goto(h, "bridge")
    /\ CloseContext(h)
    /\ active' = [active EXCEPT ![h] = FALSE]
    /\ addr' = [addr EXCEPT ![h] = "freed"]
    /\ UNCHANGED <<alive, gw, ar, req, issued, sends, client, proxy, lastToken, errors>>

\* A new token after 407: published in m_lastAuthToken, one more round.
NextRound(h) ==
    /\ ar[h] + 1 <= MaxAuth
    /\ Goto(h, "prepare")
    /\ ar' = [ar EXCEPT ![h] = @ + 1]
    /\ lastToken' = TokenFor(h, ar[h] + 1)
    /\ issued' = [issued EXCEPT ![h] = TokenFor(h, ar[h] + 1)]
    /\ UNCHANGED <<alive, gw, req, sends, client, proxy, addr, asked, errors>>

\* 407 with a Negotiate challenge and ContinueContext gave a token.  When the
\* agent needs no further round it has already dropped the context.
Got407Continue(h) ==
    /\ At(h, "recv")
    /\ AuthOn(h) /\ active[h] /\ Kerberos(h)
    /\ ThisContext(h) \in open
    /\ NextRound(h)
    /\ open' \in {open, open \ {ThisContext(h)}}
    /\ UNCHANGED active

\* The round limit: m_lastAuthToken is already overwritten.
Got407Limit(h) ==
    /\ At(h, "recv")
    /\ AuthOn(h) /\ active[h] /\ Kerberos(h)
    /\ ThisContext(h) \in open
    /\ ar[h] + 1 > MaxAuth
    /\ Goto(h, "done")
    /\ lastToken' = TokenFor(h, ar[h] + 1)
    /\ issued' = [issued EXCEPT ![h] = TokenFor(h, ar[h] + 1)]
    /\ ar' = [ar EXCEPT ![h] = @ + 1]
    /\ errors' = errors + 1
    /\ CloseContext(h)
    /\ client' = [client EXCEPT ![h] = @ - 1]
    /\ proxy' = [proxy EXCEPT ![h] = @ - 1]
    /\ addr' = [addr EXCEPT ![h] = "freed"]
    /\ UNCHANGED <<alive, gw, active, req, sends>>

\* 407 and no challenge, a failed or empty continuation, or Basic rejected.
Got407Reject(h) ==
    /\ At(h, "recv")
    /\ AuthOn(h) /\ active[h]
    /\ Quit(h)

\* Fault: `else' for `else if (!authContextActive)'.
CreateOnAny407(h) ==
    /\ At(h, "recv")
    /\ AuthOn(h)
    /\ NextRound(h)
    /\ open' = open \cup Created(h)
    /\ active' = [active EXCEPT ![h] = TRUE]

\* 407 and no context yet: create it now.  The branch's own test of the round
\* limit cannot succeed: a thread without a context is in round 0.
Got407Create(h) ==
    /\ At(h, "recv")
    /\ AuthOn(h) /\ ~active[h]
    /\ NextRound(h)
    /\ open' = open \cup Created(h)
    /\ active' = [active EXCEPT ![h] = TRUE]

\* ... and the provider fails again.
Got407NoProvider(h) ==
    /\ At(h, "recv")
    /\ AuthOn(h) /\ ~active[h]
    /\ Quit(h)

\* Faults: the retry is not counted; the old socket is not closed.
RetryUncounted(h) ==
    /\ At(h, "recv")
    /\ gw[h] < MaxGateway
    /\ Goto(h, "connect")
    /\ CloseContext(h)
    /\ active' = [active EXCEPT ![h] = FALSE]
    /\ proxy' = [proxy EXCEPT ![h] = @ - 1]
    /\ UNCHANGED <<alive, gw, ar, req, issued, sends, client, addr, lastToken, errors>>

RetryLeaksSocket(h) ==
    /\ At(h, "recv")
    /\ gw[h] < MaxGateway
    /\ Goto(h, "connect")
    /\ gw' = [gw EXCEPT ![h] = @ + 1]
    /\ CloseContext(h)
    /\ active' = [active EXCEPT ![h] = FALSE]
    /\ UNCHANGED <<alive, ar, req, issued, sends, client, proxy, addr, lastToken, errors>>

\* 502 or 504 with retries left: a new connection to the proxy.
GotGatewayRetry(h) ==
    /\ At(h, "recv")
    /\ gw[h] < MaxGateway
    /\ Goto(h, "connect")
    /\ gw' = [gw EXCEPT ![h] = @ + 1]
    /\ CloseContext(h)
    /\ active' = [active EXCEPT ![h] = FALSE]
    /\ proxy' = [proxy EXCEPT ![h] = @ - 1]
    /\ UNCHANGED <<alive, ar, req, issued, sends, client, addr, lastToken, errors>>

\* Any other status, or 502/504 with no retries left.
GotFailure(h) == At(h, "recv") /\ Quit(h)

Handle(h) ==
    \/ Accept(h) \/ Refuse(h)
    \/ Resolve(h) \/ ResolveFails(h)
    \/ Connect(h) \/ ConnectFails(h)
    \/ PrepareCreate(h) \/ PreparePlain(h) \/ PrepareAgain(h)
    \/ Send(h) \/ SendFails(h)
    \/ RecvError(h) \/ RecvClosed(h) \/ Got200(h)
    \/ Got407Continue(h) \/ Got407Limit(h) \/ Got407Reject(h)
    \/ Got407Create(h) \/ Got407NoProvider(h)
    \/ GotGatewayRetry(h) \/ GotFailure(h)

Next ==
    \/ \E h \in Handler : Handle(h)
    \/ \E c \in open : ContextExpires(c)

Spec == Init /\ [][Next]_vars

\* Every blocking call of the handler returns: connect and the 30 s send and
\* receive timeouts on the proxy socket.  Nothing forces a client to come.
Fairness == \A h \in Handler : WF_vars(pc[h] # "idle" /\ Handle(h))

FairSpec == Spec /\ Fairness

-----------------------------------------------------------------------------
(* Properties                                                               *)

\* Types of the threads' state: the two retry counters stay within their
\* limits.
TypeOK ==
    /\ alive \in BOOLEAN
    /\ pc \in [Handler -> PC]
    /\ gw \in [Handler -> 0..MaxGateway]
    /\ ar \in [Handler -> 0..(MaxAuth + 1)]
    /\ active \in [Handler -> BOOLEAN]
    /\ req \in [Handler -> Token \cup {NoToken}]
    /\ issued \in [Handler -> Token \cup {NoToken}]
    /\ sends \in [Handler -> Nat]
    /\ client \in [Handler -> Int] /\ proxy \in [Handler -> Int]
    /\ addr \in [Handler -> {"none", "held", "freed"}]
    /\ open \subseteq Context /\ asked \subseteq Context
    /\ lastToken \in Token \cup {NoToken}
    /\ errors \in Nat

Negotiating == {"prepare", "send", "recv"}

\* Each handle is closed exactly once on every path, a retry included: a
\* finished thread holds no socket and no address list, a bridging one
\* exactly its two sockets.
HandlesBalanced ==
    \A h \in Handler :
        /\ pc[h] \in {"done", "refused"} =>
              client[h] = 0 /\ proxy[h] = 0 /\ addr[h] # "held"
        /\ pc[h] = "bridge" => client[h] = 1 /\ proxy[h] = 1 /\ addr[h] = "freed"
        /\ pc[h] = "connect" => client[h] = 1 /\ proxy[h] = 0 /\ addr[h] = "held"

\* No context is forgotten, whatever the outcome: one that is still open at
\* the agent belongs to a thread that negotiates with it now, or the thread
\* that had it has called CloseContext for it.
ContextsClosed ==
    \A c \in open :
        \/ pc[c[1]] \in Negotiating /\ active[c[1]] /\ gw[c[1]] = c[2]
        \/ c \in asked

\* After a successful CONNECT or an error the context is destroyed at once
\* (SECURITY_EN.md:51): none outlives its negotiation, or the service.
ErrorClosesContext == \A c \in open : alive /\ pc[c[1]] \in Negotiating

\* Every connection lost to the proxy, and nothing else, is counted once.
ErrorsExact == errors = Cardinality({h \in Handler : pc[h] = "done"})

\* A thread sends at most (MaxGateway + 1) * (MaxAuth + 1) CONNECTs, however
\* answers of the two kinds alternate.
AttemptsBounded ==
    \A h \in Handler : sends[h] <= (MaxGateway + 1) * (MaxAuth + 1)

\* A password the proxy has refused is not sent to it again: with Basic a
\* thread sends one CONNECT for each connection it makes to the proxy, and
\* makes a new connection only after a gateway error.
BasicSentOnce ==
    \A h \in Handler : Provider[h] = "Basic" => sends[h] <= gw[h] + 1

\* A CONNECT made under a context carries the token issued last for exactly
\* that context.
OwnToken ==
    \A h \in Handler : pc[h] \in {"send", "recv"} /\ active[h] => req[h] = issued[h]

\* Every accepted connection is bridged or given up (or the process dies).
EveryClientServed ==
    \A h \in Handler : pc[h] = "resolve" ~> pc[h] \in {"bridge", "done"} \/ ~alive
=============================================================================
