----------------------- MODULE ConnectHandlerProofs ------------------------
(***************************************************************************)
(* Proofs about ConnectHandler, for any number of threads and any limits.  *)
(***************************************************************************)
EXTENDS ConnectHandler, FiniteSetTheorems, TLAPS

\* What a thread holds is decided by where it is.
Holdings(h) ==
    /\ pc[h] \in {"idle", "refused"} => client[h] = 0 /\ proxy[h] = 0 /\ addr[h] = "none"
    /\ pc[h] = "resolve" => client[h] = 1 /\ proxy[h] = 0 /\ addr[h] = "none"
    /\ pc[h] = "connect" => client[h] = 1 /\ proxy[h] = 0 /\ addr[h] = "held"
    /\ pc[h] \in Negotiating => client[h] = 1 /\ proxy[h] = 1 /\ addr[h] = "held"
    /\ pc[h] = "bridge" => client[h] = 1 /\ proxy[h] = 1 /\ addr[h] = "freed"
    /\ pc[h] = "done" => client[h] = 0 /\ proxy[h] = 0 /\ addr[h] # "held"

\* CONNECTs in the rounds of one proxy connection, and before it.
Rounds == MaxAuth + 1

SendsCounted(h) ==
    /\ pc[h] \in {"idle", "refused", "resolve"} => sends[h] = 0 /\ gw[h] = 0
    /\ pc[h] = "connect" => sends[h] <= gw[h] * Rounds
    /\ pc[h] \in {"prepare", "send"} =>
          ar[h] <= MaxAuth /\ sends[h] <= gw[h] * Rounds + ar[h]
    /\ pc[h] = "recv" => ar[h] <= MaxAuth /\ sends[h] <= gw[h] * Rounds + ar[h] + 1
    /\ sends[h] <= (MaxGateway + 1) * Rounds

\* The inductive invariant.
HInv ==
    /\ TypeOK
    /\ \A h \in Handler : Holdings(h)
    /\ ContextsClosed
    /\ \A h \in Handler : SendsCounted(h)
    /\ ErrorsExact

-----------------------------------------------------------------------------
\* Every step keeps the types; the counters stay below their limits.
LEMMA StepTyped ==
    ASSUME HInv, NEW h \in Handler, Handle(h)
    PROVE  TypeOK'
<1> USE HandlerAssumption DEF HInv, TypeOK, At, Goto, local, shared,
      SendsCounted, PC, Context, Token, Negotiating
<1>1. CASE Accept(h) BY <1>1 DEF Accept
<1>2. CASE Refuse(h) BY <1>2 DEF Refuse
<1>3. CASE Resolve(h) BY <1>3 DEF Resolve
<1>4. CASE ResolveFails(h) BY <1>4 DEF ResolveFails
<1>5. CASE Connect(h) BY <1>5 DEF Connect
<1>6. CASE ConnectFails(h) BY <1>6 DEF ConnectFails
<1>7. CASE PrepareCreate(h) BY <1>7 DEF PrepareCreate, Created, ThisContext,
      TokenFor
<1>8. CASE PreparePlain(h) BY <1>8 DEF PreparePlain
<1>9. CASE PrepareAgain(h) BY <1>9 DEF PrepareAgain
<1>10. CASE Send(h) BY <1>10 DEF Send
<1>11. CASE SendFails(h) BY <1>11 DEF SendFails, Quit, Leave, CloseContext,
      ThisContext
<1>12. CASE RecvError(h) BY <1>12 DEF RecvError
<1>13. CASE RecvClosed(h) BY <1>13 DEF RecvClosed, Quit, Leave, CloseContext,
      ThisContext
<1>14. CASE Got200(h) BY <1>14 DEF Got200, CloseContext, ThisContext
<1>15. CASE Got407Continue(h) BY <1>15 DEF Got407Continue, NextRound,
      ThisContext, TokenFor
<1>16. CASE Got407Limit(h) BY <1>16 DEF Got407Limit, CloseContext,
      ThisContext, TokenFor
<1>17. CASE Got407Reject(h) BY <1>17 DEF Got407Reject, Quit, Leave,
      CloseContext, ThisContext
<1>18. CASE Got407Create(h) BY <1>18 DEF Got407Create, NextRound, Created,
      ThisContext, TokenFor
<1>19. CASE Got407NoProvider(h) BY <1>19 DEF Got407NoProvider, Quit, Leave,
      CloseContext, ThisContext
<1>20. CASE GotGatewayRetry(h) BY <1>20 DEF GotGatewayRetry, CloseContext,
      ThisContext
<1>21. CASE GotFailure(h) BY <1>21 DEF GotFailure, Quit, Leave, CloseContext,
      ThisContext
<1> QED BY <1>1, <1>2, <1>3, <1>4, <1>5, <1>6, <1>7, <1>8, <1>9, <1>10, <1>11,
      <1>12, <1>13, <1>14, <1>15, <1>16, <1>17, <1>18, <1>19, <1>20, <1>21 DEF
      Handle

\* Every step keeps a thread's holdings and its place in agreement.
LEMMA StepHoldings ==
    ASSUME HInv, NEW h \in Handler, Handle(h)
    PROVE  \A g \in Handler : Holdings(g)'
<1> USE HandlerAssumption DEF HInv, TypeOK, At, Goto, local, shared, Holdings,
      Negotiating, PC
<1>1. CASE Accept(h) BY <1>1 DEF Accept
<1>2. CASE Refuse(h) BY <1>2 DEF Refuse
<1>3. CASE Resolve(h) BY <1>3 DEF Resolve
<1>4. CASE ResolveFails(h) BY <1>4 DEF ResolveFails
<1>5. CASE Connect(h) BY <1>5 DEF Connect
<1>6. CASE ConnectFails(h) BY <1>6 DEF ConnectFails
<1>7. CASE PrepareCreate(h) BY <1>7 DEF PrepareCreate, Created, ThisContext,
      TokenFor
<1>8. CASE PreparePlain(h) BY <1>8 DEF PreparePlain
<1>9. CASE PrepareAgain(h) BY <1>9 DEF PrepareAgain
<1>10. CASE Send(h) BY <1>10 DEF Send
<1>11. CASE SendFails(h) BY <1>11 DEF SendFails, Quit, Leave, CloseContext,
      ThisContext
<1>12. CASE RecvError(h) BY <1>12 DEF RecvError
<1>13. CASE RecvClosed(h) BY <1>13 DEF RecvClosed, Quit, Leave, CloseContext,
      ThisContext
<1>14. CASE Got200(h) BY <1>14 DEF Got200, CloseContext, ThisContext
<1>15. CASE Got407Continue(h) BY <1>15 DEF Got407Continue, NextRound,
      ThisContext, TokenFor
<1>16. CASE Got407Limit(h) BY <1>16 DEF Got407Limit, CloseContext,
      ThisContext, TokenFor
<1>17. CASE Got407Reject(h) BY <1>17 DEF Got407Reject, Quit, Leave,
      CloseContext, ThisContext
<1>18. CASE Got407Create(h) BY <1>18 DEF Got407Create, NextRound, Created,
      ThisContext, TokenFor
<1>19. CASE Got407NoProvider(h) BY <1>19 DEF Got407NoProvider, Quit, Leave,
      CloseContext, ThisContext
<1>20. CASE GotGatewayRetry(h) BY <1>20 DEF GotGatewayRetry, CloseContext,
      ThisContext
<1>21. CASE GotFailure(h) BY <1>21 DEF GotFailure, Quit, Leave, CloseContext,
      ThisContext
<1> QED BY <1>1, <1>2, <1>3, <1>4, <1>5, <1>6, <1>7, <1>8, <1>9, <1>10, <1>11,
      <1>12, <1>13, <1>14, <1>15, <1>16, <1>17, <1>18, <1>19, <1>20, <1>21 DEF
      Handle

\* CloseContext is called in the step that leaves a context's negotiation.
LEMMA StepContexts ==
    ASSUME HInv, NEW h \in Handler, Handle(h)
    PROVE  ContextsClosed'
<1> USE HandlerAssumption DEF HInv, TypeOK, At, Goto, local, shared,
      ContextsClosed, Context, Negotiating
<1>1. CASE Accept(h) BY <1>1 DEF Accept
<1>2. CASE Refuse(h) BY <1>2 DEF Refuse
<1>3. CASE Resolve(h) BY <1>3 DEF Resolve
<1>4. CASE ResolveFails(h) BY <1>4 DEF ResolveFails
<1>5. CASE Connect(h) BY <1>5 DEF Connect
<1>6. CASE ConnectFails(h) BY <1>6 DEF ConnectFails
<1>7. CASE PrepareCreate(h) BY <1>7 DEF PrepareCreate, Created, ThisContext,
      TokenFor
<1>8. CASE PreparePlain(h) BY <1>8 DEF PreparePlain
<1>9. CASE PrepareAgain(h) BY <1>9 DEF PrepareAgain
<1>10. CASE Send(h) BY <1>10 DEF Send
<1>11. CASE SendFails(h) BY <1>11 DEF SendFails, Quit, Leave, CloseContext,
      ThisContext
<1>12. CASE RecvError(h) BY <1>12 DEF RecvError
<1>13. CASE RecvClosed(h) BY <1>13 DEF RecvClosed, Quit, Leave, CloseContext,
      ThisContext
<1>14. CASE Got200(h) BY <1>14 DEF Got200, CloseContext, ThisContext
<1>15. CASE Got407Continue(h) BY <1>15 DEF Got407Continue, NextRound,
      ThisContext, TokenFor
<1>16. CASE Got407Limit(h) BY <1>16 DEF Got407Limit, CloseContext,
      ThisContext, TokenFor
<1>17. CASE Got407Reject(h) BY <1>17 DEF Got407Reject, Quit, Leave,
      CloseContext, ThisContext
<1>18. CASE Got407Create(h) BY <1>18 DEF Got407Create, NextRound, Created,
      ThisContext, TokenFor
<1>19. CASE Got407NoProvider(h) BY <1>19 DEF Got407NoProvider, Quit, Leave,
      CloseContext, ThisContext
<1>20. CASE GotGatewayRetry(h) BY <1>20 DEF GotGatewayRetry, CloseContext,
      ThisContext
<1>21. CASE GotFailure(h) BY <1>21 DEF GotFailure, Quit, Leave, CloseContext,
      ThisContext
<1> QED BY <1>1, <1>2, <1>3, <1>4, <1>5, <1>6, <1>7, <1>8, <1>9, <1>10, <1>11,
      <1>12, <1>13, <1>14, <1>15, <1>16, <1>17, <1>18, <1>19, <1>20, <1>21 DEF
      Handle

\* A context that the agent drops changes nothing else.
LEMMA ExpiryKeeps ==
    ASSUME HInv, NEW c \in open, ContextExpires(c)
    PROVE  HInv'
BY DEF HInv, TypeOK, Holdings, ContextsClosed, SendsCounted, ErrorsExact,
       Negotiating, ContextExpires, local

\* The bound on the requests of one attempt is below the bound on all of them.
LEMMA RoundBounds ==
    ASSUME NEW g \in 0..MaxGateway, NEW m \in Nat, NEW a \in Nat,
           a <= MaxAuth, m <= g * Rounds + a
    PROVE  m + 1 <= (MaxGateway + 1) * Rounds /\ m + 1 <= g * Rounds + a + 1
<1>1. Rounds \in Nat /\ a + 1 <= Rounds BY HandlerAssumption DEF Rounds
<1>2. g * Rounds \in Nat /\ MaxGateway * Rounds \in Nat
  BY <1>1, HandlerAssumption
<1>3. g * Rounds <= MaxGateway * Rounds BY <1>1, HandlerAssumption
<1>4. (MaxGateway + 1) * Rounds = MaxGateway * Rounds + Rounds
  BY <1>1, HandlerAssumption
<1> QED BY <1>1, <1>2, <1>3, <1>4

\* A new attempt has room for all the requests of the last one.
LEMMA NextAttempt ==
    ASSUME NEW g \in 0..MaxGateway, NEW m \in Nat, NEW a \in Nat,
           a <= MaxAuth, m <= g * Rounds + a + 1
    PROVE  m <= (g + 1) * Rounds
<1>1. Rounds \in Nat /\ a + 1 <= Rounds BY HandlerAssumption DEF Rounds
<1>2. g * Rounds \in Nat BY <1>1
<1>3. (g + 1) * Rounds = g * Rounds + Rounds BY <1>1
<1> QED BY <1>1, <1>2, <1>3

\* CONNECTs are counted by rounds and gateway attempts.
LEMMA StepSends ==
    ASSUME HInv, NEW h \in Handler, Handle(h)
    PROVE  \A g \in Handler : SendsCounted(g)'
<1> USE HandlerAssumption DEF HInv, TypeOK, At, Goto, local, shared,
      SendsCounted, Rounds
<1>1. CASE Accept(h) BY <1>1 DEF Accept
<1>2. CASE Refuse(h) BY <1>2 DEF Refuse
<1>3. CASE Resolve(h) BY <1>3 DEF Resolve
<1>4. CASE ResolveFails(h) BY <1>4 DEF ResolveFails
<1>5. CASE Connect(h) BY <1>5 DEF Connect
<1>6. CASE ConnectFails(h) BY <1>6 DEF ConnectFails
<1>7. CASE PrepareCreate(h) BY <1>7 DEF PrepareCreate, Created, ThisContext,
      TokenFor
<1>8. CASE PreparePlain(h) BY <1>8 DEF PreparePlain
<1>9. CASE PrepareAgain(h) BY <1>9 DEF PrepareAgain
<1>10. CASE Send(h)
  <2>1. /\ sends[h] + 1 <= (MaxGateway + 1) * Rounds
        /\ sends[h] + 1 <= gw[h] * Rounds + ar[h] + 1
    <3> HIDE DEF Rounds
    <3>1. /\ ar[h] <= MaxAuth /\ sends[h] <= gw[h] * Rounds + ar[h]
          /\ gw[h] \in 0..MaxGateway /\ sends[h] \in Nat /\ ar[h] \in Nat
      BY <1>10 DEF Send
    <3> QED BY <3>1, RoundBounds
  <2> HIDE DEF Rounds
  <2> QED BY <1>10, <2>1 DEF Send
<1>11. CASE SendFails(h) BY <1>11 DEF SendFails, Quit, Leave, CloseContext,
      ThisContext
<1>12. CASE RecvError(h) BY <1>12 DEF RecvError
<1>13. CASE RecvClosed(h) BY <1>13 DEF RecvClosed, Quit, Leave, CloseContext,
      ThisContext
<1>14. CASE Got200(h) BY <1>14 DEF Got200, CloseContext, ThisContext
<1>15. CASE Got407Continue(h) BY <1>15 DEF Got407Continue, NextRound,
      ThisContext, TokenFor
<1>16. CASE Got407Limit(h) BY <1>16 DEF Got407Limit, CloseContext,
      ThisContext, TokenFor
<1>17. CASE Got407Reject(h) BY <1>17 DEF Got407Reject, Quit, Leave,
      CloseContext, ThisContext
<1>18. CASE Got407Create(h) BY <1>18 DEF Got407Create, NextRound, Created,
      ThisContext, TokenFor
<1>19. CASE Got407NoProvider(h) BY <1>19 DEF Got407NoProvider, Quit, Leave,
      CloseContext, ThisContext
<1>20. CASE GotGatewayRetry(h)
  <2>1. sends[h] <= (gw[h] + 1) * Rounds
    <3> HIDE DEF Rounds
    <3>1. /\ ar[h] <= MaxAuth /\ sends[h] <= gw[h] * Rounds + ar[h] + 1
          /\ gw[h] \in 0..MaxGateway /\ sends[h] \in Nat /\ ar[h] \in Nat
      BY <1>20 DEF GotGatewayRetry
    <3> QED BY <3>1, NextAttempt
  <2> HIDE DEF Rounds
  <2> QED BY <1>20, <2>1 DEF GotGatewayRetry
<1>21. CASE GotFailure(h) BY <1>21 DEF GotFailure, Quit, Leave, CloseContext,
      ThisContext
<1> QED BY <1>1, <1>2, <1>3, <1>4, <1>5, <1>6, <1>7, <1>8, <1>9, <1>10, <1>11,
      <1>12, <1>13, <1>14, <1>15, <1>16, <1>17, <1>18, <1>19, <1>20, <1>21 DEF
      Handle

-----------------------------------------------------------------------------
\* A thread that fails is counted ...
LEMMA FailureCounted ==
    ASSUME HInv, NEW h \in Handler, pc[h] # "done",
           pc' = [pc EXCEPT ![h] = "done"], errors' = errors + 1
    PROVE  ErrorsExact'
<1> DEFINE Done == {g \in Handler : pc[g] = "done"}
<1>1. IsFiniteSet(Done) /\ h \notin Done
  <2>1. Done \subseteq Handler OBVIOUS
  <2> QED BY <2>1, FS_Subset, HandlerAssumption
<1>2. {g \in Handler : pc'[g] = "done"} = Done \cup {h} BY DEF HInv, TypeOK
<1>3. Cardinality(Done \cup {h}) = Cardinality(Done) + 1 BY <1>1, FS_AddElement
<1> QED BY <1>2, <1>3 DEF HInv, ErrorsExact

\* ... and nobody else.
LEMMA NothingCounted ==
    ASSUME HInv, NEW h \in Handler, pc[h] # "done", NEW w, w # "done",
           pc' = [pc EXCEPT ![h] = w], errors' = errors
    PROVE  ErrorsExact'
<1>1. {g \in Handler : pc'[g] = "done"} = {g \in Handler : pc[g] = "done"}
  BY DEF HInv, TypeOK
<1> QED BY <1>1 DEF HInv, ErrorsExact

\* Every step keeps the error counter exact.
LEMMA StepErrors ==
    ASSUME HInv, NEW h \in Handler, Handle(h)
    PROVE  ErrorsExact'
<1> USE DEF At, Goto, shared
<1>1. CASE Accept(h) \/ Resolve(h) \/ Connect(h) \/ Send(h)
  BY <1>1, NothingCounted DEF Accept, Resolve, Connect, Send
<1>2. CASE Refuse(h) \/ PrepareCreate(h) \/ PreparePlain(h) \/ PrepareAgain(h)
  BY <1>2, NothingCounted DEF Refuse, PrepareCreate, PreparePlain, PrepareAgain
<1>3. CASE Got200(h) \/ Got407Continue(h) \/ Got407Create(h) \/ GotGatewayRetry(h)
  BY <1>3, NothingCounted
     DEF Got200, Got407Continue, Got407Create, GotGatewayRetry, NextRound
<1>4. CASE RecvError(h) BY <1>4 DEF RecvError, HInv, ErrorsExact
<1>5. CASE ResolveFails(h) \/ ConnectFails(h) \/ Got407Limit(h)
  BY <1>5, FailureCounted DEF ResolveFails, ConnectFails, Got407Limit
<1>6. CASE \/ SendFails(h) \/ RecvClosed(h) \/ Got407Reject(h)
           \/ Got407NoProvider(h) \/ GotFailure(h)
  BY <1>6, FailureCounted
     DEF SendFails, RecvClosed, Got407Reject, Got407NoProvider, GotFailure, Quit, Leave
<1> QED BY <1>1, <1>2, <1>3, <1>4, <1>5, <1>6 DEF Handle

-----------------------------------------------------------------------------
\* It holds initially.
LEMMA InitHInv == Init => HInv
<1> SUFFICES ASSUME Init PROVE HInv OBVIOUS
<1> USE HandlerAssumption DEF Init
<1>1. TypeOK BY DEF TypeOK, PC, Context
<1>2. \A h \in Handler : Holdings(h) BY DEF Holdings, Negotiating
<1>3. ContextsClosed BY DEF ContextsClosed
<1>4. (MaxGateway + 1) * Rounds \in Nat BY DEF Rounds
<1>5. \A h \in Handler : SendsCounted(h) BY <1>4 DEF SendsCounted
<1>6. ErrorsExact
  <2>1. {h \in Handler : pc[h] = "done"} = {} OBVIOUS
  <2> QED BY <2>1, FS_EmptySet DEF ErrorsExact
<1> QED BY <1>1, <1>2, <1>3, <1>5, <1>6 DEF HInv

\* The invariant is inductive.
THEOREM HandlerInductive == Spec => []HInv
<1>1. ASSUME HInv, [Next]_vars PROVE HInv'
  <2>1. CASE \E h \in Handler : Handle(h)
    <3>1. PICK h \in Handler : Handle(h) BY <2>1
    <3> QED BY <1>1, <3>1, StepTyped, StepHoldings, StepContexts, StepSends,
               StepErrors DEF HInv
  <2>3. CASE \E c \in open : ContextExpires(c) BY <1>1, <2>3, ExpiryKeeps
  <2>2. CASE UNCHANGED vars
    BY <1>1, <2>2 DEF HInv, TypeOK, Holdings, ContextsClosed, SendsCounted,
                      ErrorsExact, vars, local, shared
  <2> QED BY <1>1, <2>1, <2>2, <2>3 DEF Next
<1> QED BY InitHInv, <1>1, PTL DEF Spec

\* No path through the handler, retries included, leaks or closes a handle twice.
THEOREM HandlerLeaksNothing == Spec => []HandlesBalanced
<1>1. HInv => HandlesBalanced BY DEF HInv, Holdings, HandlesBalanced
<1> QED BY <1>1, HandlerInductive, PTL

\* The number of CONNECTs one client costs the proxy is bounded for any limits.
THEOREM HandlerAttempts == Spec => []AttemptsBounded
<1>1. HInv => AttemptsBounded BY DEF HInv, SendsCounted, Rounds, AttemptsBounded
<1> QED BY <1>1, HandlerInductive, PTL

\* The proxy error counter equals the number of connections lost to the proxy.
THEOREM HandlerErrors == Spec => []ErrorsExact
<1>1. HInv => ErrorsExact BY DEF HInv
<1> QED BY <1>1, HandlerInductive, PTL

\* No path through the handler forgets a security context: closing it is asked
\* for by the time the thread leaves the negotiation it serves.
THEOREM HandlerContexts == Spec => []ContextsClosed
<1>1. HInv => ContextsClosed BY DEF HInv, ContextsClosed
<1> QED BY <1>1, HandlerInductive, PTL

-----------------------------------------------------------------------------
(* Basic sends its password once for each connection to the proxy.          *)

\* A Basic thread is under a context from its first CONNECT on a connection,
\* so that a 407 ends it; only a gateway error, which is counted, takes it
\* back to a state in which it sends.
BasicSends(h) ==
    Provider[h] = "Basic" =>
        /\ pc[h] \in {"idle", "refused", "resolve", "connect"} => sends[h] <= gw[h]
        /\ pc[h] = "prepare" => sends[h] <= gw[h] /\ ~active[h]
        /\ pc[h] = "send" => sends[h] <= gw[h] /\ active[h]
        /\ pc[h] = "recv" => active[h]
        /\ sends[h] <= gw[h] + 1

\* Every step keeps the count.
LEMMA StepBasic ==
    ASSUME HInv, NEW h \in Handler, Handle(h), \A g \in Handler : BasicSends(g)
    PROVE  \A g \in Handler : BasicSends(g)'
<1> USE HandlerAssumption DEF HInv, TypeOK, PC, At, Goto, local, shared, BasicSends
<1>1. CASE \/ Accept(h) \/ Refuse(h) \/ Resolve(h) \/ ResolveFails(h)
           \/ RecvError(h)
  BY <1>1 DEF Accept, Refuse, Resolve, ResolveFails, RecvError
<1>2. CASE Connect(h) BY <1>2 DEF Connect
<1>3. CASE ConnectFails(h) BY <1>3 DEF ConnectFails
<1>4. CASE PrepareCreate(h) BY <1>4 DEF PrepareCreate
<1>5. CASE PreparePlain(h) BY <1>5 DEF PreparePlain, AuthOn, Kerberos
<1>6. CASE PrepareAgain(h) BY <1>6 DEF PrepareAgain
<1>7. CASE Send(h) BY <1>7 DEF Send
<1>8. CASE \/ SendFails(h) \/ RecvClosed(h) \/ Got407Reject(h)
           \/ Got407NoProvider(h) \/ GotFailure(h)
  BY <1>8 DEF SendFails, RecvClosed, Got407Reject, Got407NoProvider, GotFailure,
              Quit, Leave
<1>9. CASE Got200(h) BY <1>9 DEF Got200
<1>10. CASE Got407Continue(h) \/ Got407Limit(h)
  BY <1>10 DEF Got407Continue, Got407Limit, NextRound, Kerberos
<1>11. CASE Got407Create(h) BY <1>11 DEF Got407Create, NextRound
<1>12. CASE GotGatewayRetry(h) BY <1>12 DEF GotGatewayRetry
<1> QED BY <1>1, <1>2, <1>3, <1>4, <1>5, <1>6, <1>7, <1>8, <1>9, <1>10, <1>11,
           <1>12 DEF Handle

\* A password the proxy refused is not sent again, whatever the proxy answers
\* and however many retries and rounds are allowed.
THEOREM BasicNotRepeated == Spec => []BasicSentOnce
<1> DEFINE BInv == \A h \in Handler : BasicSends(h)
<1>1. Init => BInv BY DEF Init, BasicSends
<1>2. ASSUME HInv, BInv, [Next]_vars PROVE BInv'
  <2>1. CASE \E h \in Handler : Handle(h) BY <1>2, <2>1, StepBasic
  <2>2. CASE UNCHANGED vars BY <1>2, <2>2 DEF BasicSends, vars, local
  <2>3. CASE \E c \in open : ContextExpires(c)
    BY <1>2, <2>3 DEF BasicSends, ContextExpires, local
  <2> QED BY <1>2, <2>1, <2>2, <2>3 DEF Next
<1>3. BInv => BasicSentOnce BY DEF BasicSends, BasicSentOnce
<1> HIDE DEF BInv
<1> QED BY <1>1, <1>2, <1>3, HandlerInductive, PTL DEF Spec
=============================================================================
