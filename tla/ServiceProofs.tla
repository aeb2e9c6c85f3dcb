--------------------------- MODULE ServiceProofs ---------------------------
(***************************************************************************)
(* Proofs about the service's pipe (Ipc), for any number of requests and   *)
(* of service starts: its handle is closed exactly once, and answers come  *)
(* in order.  Then about the life of the process around it (Lifecycle).    *)
(***************************************************************************)
EXTENDS Ipc, Lifecycle, SequenceTheorems, TLAPS

-----------------------------------------------------------------------------
(* The handle                                                               *)

\* Stop has joined the thread before it closes what is left.
JoinedFirst == stop \in {"close", "done"} => srv = "ended"

\* Where the thread has no instance.
Idle == {"none", "check", "create", "ended"}

HInv ==
    /\ hPipe \in BOOLEAN /\ open \in 0 .. 1
    /\ HandleClosedOnce /\ JoinedFirst

\* The steps that leave the handle alone and move the thread, if at all, between
\* places with an instance or between places without one.
LEMMA HandleUntouched ==
    ASSUME HInv, UNCHANGED <<hPipe, open>>,
           srv \in Idle <=> srv' \in Idle,
           stop' \in {"close", "done"} => srv' = "ended"
    PROVE  HInv'
BY DEF HInv, HandleClosedOnce, JoinedFirst, Idle

\* The handle is closed exactly once: the invariant is inductive.
THEOREM HandleInductive == IpcSpec => []HInv
<1>1. ASSUME IpcInit PROVE HInv
  <2>1. hPipe = FALSE /\ open = 0 /\ srv = "none" /\ stop = "no" BY <1>1 DEF IpcInit
  <2>2. open \in 0 .. 1 /\ open # 1 /\ open = (IF srv \in Idle THEN 0 ELSE 1)
    BY <2>1 DEF Idle
  <2>3. (hPipe <=> open = 1) /\ hPipe \in BOOLEAN BY <2>1, <2>2, Zenon
  <2>4. JoinedFirst BY <2>1 DEF JoinedFirst
  <2> QED BY <2>2, <2>3, <2>4, Zenon DEF HInv, HandleClosedOnce, Idle
<1>2. ASSUME HInv, [IpcNext]_ipcVars PROVE HInv'
  <2>1. CASE Start \/ CheckRunning \/ CreateFails
    <3>1. srv \in Idle /\ srv' \in Idle /\ srv # "ended"
      BY <2>1 DEF Start, CheckRunning, CreateFails, Goto, Idle
    <3>2. UNCHANGED <<hPipe, open, stop>>
      BY <2>1 DEF Start, CheckRunning, CreateFails, stopVars
    <3> QED BY <1>2, <3>1, <3>2, HandleUntouched DEF HInv, JoinedFirst
  <2>2. CASE CreatePipe
    BY <1>2, <2>2 DEF CreatePipe, Goto, HInv, HandleClosedOnce, JoinedFirst, stopVars
  <2>3. CASE EnterConnect \/ ClientConnected \/ CheckInLoop \/ EnterRead \/ ReadRequest
             \/ ReadFails \/ WriteAnswer \/ Flushed \/ WriteTooLarge \/ WriteParseError
    <3>1. srv \notin Idle /\ srv' \notin Idle
      BY <2>3 DEF EnterConnect, ClientConnected, CheckInLoop, EnterRead, ReadRequest,
           ReadFails, WriteAnswer, Flushed, WriteTooLarge, WriteParseError, Goto, Idle
    <3>2. UNCHANGED <<hPipe, open, stop>>
      BY <2>3 DEF EnterConnect, ClientConnected, CheckInLoop, EnterRead, ReadRequest,
           ReadFails, WriteAnswer, Flushed, WriteTooLarge, WriteParseError, stopVars
    <3> QED BY <1>2, <3>1, <3>2, HandleUntouched DEF HInv, JoinedFirst, Idle
  <2>4. CASE CleanUp
    <3>1. open = 1 /\ srv = "clean" BY <1>2, <2>4 DEF CleanUp, Goto, HInv, HandleClosedOnce
    <3>2. hPipe' = FALSE /\ open' = 0 /\ srv' = "check" /\ stop' = stop
      BY <2>4, <3>1 DEF CleanUp, Goto, stopVars
    <3>3. open' \in 0 .. 1 /\ open' # 1 /\ open' = (IF srv' \in Idle THEN 0 ELSE 1)
      BY <3>2 DEF Idle
    <3>4. (hPipe' <=> open' = 1) /\ hPipe' \in BOOLEAN BY <3>2, <3>3, Zenon
    <3>5. JoinedFirst' BY <1>2, <3>1, <3>2 DEF HInv, JoinedFirst
    <3> QED BY <3>3, <3>4, <3>5, Zenon DEF HInv, HandleClosedOnce, Idle
  <2>5. CASE StopBegins \/ StopLooks \/ StopJoins \/ ProcessEnds
    BY <1>2, <2>5 DEF StopBegins, StopLooks, StopJoins, ProcessEnds, HInv,
         HandleClosedOnce, JoinedFirst, serverVars
  <2>6. CASE StopCancels
    BY <1>2, <2>6 DEF StopCancels, HInv, HandleClosedOnce, JoinedFirst
  <2>7. CASE StopCloses
    <3>1. srv = "ended" /\ open = 0 /\ hPipe = FALSE
      BY <1>2, <2>7 DEF StopCloses, HInv, HandleClosedOnce, JoinedFirst
    <3>2. hPipe' = FALSE /\ open' = 0 /\ srv' = srv BY <2>7, <3>1 DEF StopCloses
    <3>3. open' \in 0 .. 1 /\ open' # 1 /\ open' = (IF srv' \in Idle THEN 0 ELSE 1)
      BY <3>1, <3>2 DEF Idle
    <3>4. (hPipe' <=> open' = 1) /\ hPipe' \in BOOLEAN BY <3>2, <3>3, Zenon
    <3>5. JoinedFirst' BY <3>1, <3>2 DEF JoinedFirst
    <3> QED BY <3>3, <3>4, <3>5, Zenon DEF HInv, HandleClosedOnce, Idle
  <2>8. CASE Connect \/ ConnectFails \/ Call \/ Client \/ TimesOut \/ Disconnect
    BY <1>2, <2>8 DEF Connect, ConnectFails, Call, Client, Receive, CallFails, TimesOut,
         Disconnect, HInv, HandleClosedOnce, JoinedFirst, serverVars, stopVars
  <2>9. CASE UNCHANGED ipcVars
    BY <1>2, <2>9 DEF ipcVars, HInv, HandleClosedOnce, JoinedFirst, serverVars, stopVars
  <2> QED
    BY <1>2, <2>1, <2>2, <2>3, <2>4, <2>5, <2>6, <2>7, <2>8, <2>9 DEF IpcNext, Thread, Stopper
<1> QED BY <1>1, <1>2, PTL DEF IpcSpec

\* The instance is closed exactly once, by the thread or by Stop.
THEOREM InstanceClosedOnce == IpcSpec => []HandleClosedOnce
<1>1. HInv => HandleClosedOnce BY DEF HInv
<1> QED BY <1>1, HandleInductive, PTL

-----------------------------------------------------------------------------
(* The answers                                                              *)

Increasing(s) == \A i, j \in 1 .. Len(s) : i < j => s[i] < s[j]

\* What is on the way - answers, the request being handled, requests - is in the
\* order of asking, belongs to calls made and is later than anything returned.
InOrder ==
    /\ Increasing(toClient) /\ Increasing(toServer)
    /\ \A i \in 1 .. Len(toClient) : \A j \in 1 .. Len(toServer) : toClient[i] < toServer[j]
    /\ srv = "handle" =>
          /\ \A i \in 1 .. Len(toClient) : toClient[i] < current
          /\ \A j \in 1 .. Len(toServer) : current < toServer[j]

Unreturned(n) == \A k \in 1 .. Len(got) : got[k] < n

NotReturned ==
    /\ \A i \in 1 .. Len(toClient) : toClient[i] <= calls /\ Unreturned(toClient[i])
    /\ \A j \in 1 .. Len(toServer) : toServer[j] <= calls /\ Unreturned(toServer[j])
    /\ srv = "handle" => current <= calls /\ Unreturned(current)

AInv ==
    /\ calls \in Nat /\ current \in Nat
    /\ toServer \in Seq(Nat \ {0}) /\ toClient \in Seq(Nat \ {0})
    /\ srv = "handle" => current # 0
    /\ got \in Seq(Nat) /\ Len(got) = calls
    /\ InOrder /\ NotReturned /\ AnswersInOrder

USE DEF Unreturned

\* The steps that leave calls and messages alone and do not begin to handle a
\* request.
LEMMA MessagesUntouched ==
    ASSUME AInv, UNCHANGED <<calls, current, toServer, toClient, got>>,
           srv' = "handle" => srv = "handle"
    PROVE  AInv'
BY DEF AInv, InOrder, NotReturned, AnswersInOrder, Increasing

\* A number put at the end of a queue of numbers.
LEMMA Appended ==
    ASSUME NEW s \in Seq(Nat \ {0}), NEW n \in Nat \ {0}
    PROVE  /\ Append(s, n) \in Seq(Nat \ {0}) /\ Len(Append(s, n)) = Len(s) + 1
           /\ Append(s, n)[Len(s) + 1] = n
           /\ \A i \in 1 .. Len(s) : Append(s, n)[i] = s[i]
           /\ Len(s) \in Nat
OBVIOUS

\* A number taken from the front of one.
LEMMA Taken ==
    ASSUME NEW s \in Seq(Nat \ {0}), s # <<>>
    PROVE  /\ Tail(s) \in Seq(Nat \ {0}) /\ Len(Tail(s)) = Len(s) - 1
           /\ Head(s) = s[1] /\ Head(s) \in Nat \ {0} /\ 1 \in 1 .. Len(s)
           /\ \A i \in 1 .. Len(Tail(s)) : Tail(s)[i] = s[i + 1] /\ i + 1 \in 1 .. Len(s)
           /\ Len(s) \in Nat
<1>1. Len(s) \in Nat /\ Len(s) # 0 BY EmptySeq
<1>2. /\ Tail(s) \in Seq(Nat \ {0}) /\ Len(Tail(s)) = Len(s) - 1
      /\ \A i \in 1 .. Len(Tail(s)) : Tail(s)[i] = s[i + 1]
  BY HeadTailProperties
<1>3. Head(s) = s[1] /\ s[1] \in Nat \ {0} BY <1>1
<1> QED BY <1>1, <1>2, <1>3

\* Messages are lost when a client connects and when the instance is closed.
LEMMA MessagesLost ==
    ASSUME AInv, toServer' = <<>>, toClient' = <<>>, UNCHANGED <<calls, current, got>>,
           srv' # "handle"
    PROVE  AInv'
<1>1. <<>> \in Seq(Nat \ {0}) /\ Len(<<>>) = 0 OBVIOUS
<1> QED BY <1>1 DEF AInv, InOrder, NotReturned, AnswersInOrder, Increasing

\* A new call has a higher number than all before it.
LEMMA CallOrdered == ASSUME AInv, Call PROVE AInv'
<1> USE DEF AInv
<1> DEFINE n == calls + 1
<1>0. UNCHANGED <<srv, current, toClient>> BY DEF Call, serverVars
<1>1. calls' = n /\ got' = Append(got, 0) /\ got' \in Seq(Nat) /\ Len(got') = n
  BY DEF Call
<1>2. \A k \in 1 .. Len(got) : got'[k] = got[k] BY <1>1
<1>3. got'[n] = 0 /\ n = Len(got) + 1 BY <1>1
<1>4. ASSUME NEW m \in Nat \ {0}, m <= calls, Unreturned(m)
      PROVE  m <= calls' /\ Unreturned(m)'
  <2>1. ASSUME NEW k \in 1 .. Len(got') PROVE got'[k] < m
    <3>1. k = n \/ k \in 1 .. Len(got) BY <1>1, <1>3
    <3> QED BY <1>2, <1>3, <1>4, <3>1
  <2>2. m <= calls' BY <1>1, <1>4
  <2> QED BY <2>1, <2>2, Zenon
<1>5. \A k \in 1 .. Len(got) : got[k] <= k BY DEF AnswersInOrder
<1>6. \A k \in 1 .. Len(got') : got'[k] < n BY <1>1, <1>2, <1>3, <1>5
<1>7. AnswersInOrder' BY <1>1, <1>2, <1>3 DEF AnswersInOrder
<1>8. CASE toServer' = toServer
  BY <1>0, <1>1, <1>4, <1>7, <1>8 DEF InOrder, NotReturned, Increasing
<1>9. CASE toServer' = Append(toServer, n)
  <2>1. /\ toServer' \in Seq(Nat \ {0}) /\ Len(toServer') = Len(toServer) + 1
        /\ toServer'[Len(toServer) + 1] = n /\ Len(toServer) \in Nat
        /\ \A i \in 1 .. Len(toServer) : toServer'[i] = toServer[i]
    BY <1>9, Appended
  <2>2. \A j \in 1 .. Len(toServer') : j = Len(toServer) + 1 \/ j \in 1 .. Len(toServer)
    BY <2>1
  <2>3. \A j \in 1 .. Len(toServer) : toServer[j] \in Nat \ {0} /\ toServer[j] < n
    BY DEF NotReturned
  <2>4. \A i \in 1 .. Len(toClient) : toClient[i] \in Nat \ {0} /\ toClient[i] < n
    BY DEF NotReturned
  <2>5. Increasing(toServer)'
    <3>1. ASSUME NEW i \in 1 .. Len(toServer'), NEW j \in 1 .. Len(toServer'), i < j
          PROVE  toServer'[i] < toServer'[j]
      <4>1. i \in 1 .. Len(toServer) BY <2>1, <3>1
      <4>2. CASE j = Len(toServer) + 1 BY <2>1, <2>3, <4>1, <4>2
      <4>3. CASE j \in 1 .. Len(toServer)
        BY <2>1, <3>1, <4>1, <4>3 DEF InOrder, Increasing
      <4> QED BY <2>2, <4>2, <4>3
    <3> QED BY <3>1 DEF Increasing
  <2>6. InOrder'
    <3>1. Increasing(toClient)' BY <1>0 DEF InOrder, Increasing
    <3>2. ASSUME NEW i \in 1 .. Len(toClient), NEW j \in 1 .. Len(toServer')
          PROVE  toClient[i] < toServer'[j]
      BY <2>1, <2>2, <2>4 DEF InOrder
    <3>3. srv = "handle" => current < n BY DEF NotReturned
    <3>4. srv = "handle" => \A j \in 1 .. Len(toServer') : current < toServer'[j]
      BY <2>1, <2>2, <3>3 DEF InOrder
    <3> QED BY <1>0, <2>5, <3>1, <3>2, <3>4 DEF InOrder
  <2>7. NotReturned'
    <3>1. ASSUME NEW j \in 1 .. Len(toServer')
          PROVE  toServer'[j] <= calls' /\ Unreturned(toServer[j])'
      <4>1. CASE j = Len(toServer) + 1 BY <1>1, <1>6, <2>1, <4>1
      <4>2. CASE j \in 1 .. Len(toServer) BY <1>4, <2>1, <2>3, <4>2 DEF NotReturned
      <4> QED BY <2>2, <4>1, <4>2
    <3>2. ASSUME NEW i \in 1 .. Len(toClient)
          PROVE  toClient[i] <= calls' /\ Unreturned(toClient[i])'
      BY <1>0, <1>4, <2>4 DEF NotReturned
    <3>3. srv = "handle" => current <= calls' /\ Unreturned(current)'
      BY <1>0, <1>4 DEF NotReturned
    <3> QED BY <1>0, <3>1, <3>2, <3>3 DEF NotReturned
  <2> QED BY <1>0, <1>1, <1>7, <2>1, <2>6, <2>7
<1> QED BY <1>8, <1>9 DEF Call

\* The server takes the first request.
LEMMA ReadOrdered == ASSUME AInv, ReadRequest PROVE AInv'
<1> USE DEF AInv
<1>0. UNCHANGED <<calls, got, toClient>> BY DEF ReadRequest, guiVars
<1>1. /\ toServer # <<>> /\ toServer' = Tail(toServer) /\ current' = Head(toServer)
      /\ srv' = "handle"
  BY DEF ReadRequest, Goto
<1>2. /\ toServer' \in Seq(Nat \ {0}) /\ Len(toServer') = Len(toServer) - 1
      /\ current' = toServer[1] /\ current' \in Nat \ {0} /\ 1 \in 1 .. Len(toServer)
      /\ \A i \in 1 .. Len(toServer') : toServer'[i] = toServer[i + 1] /\ i + 1 \in 1 .. Len(toServer)
  BY <1>1, Taken
<1>3. InOrder' BY <1>0, <1>1, <1>2 DEF InOrder, Increasing
<1>4. NotReturned' BY <1>0, <1>1, <1>2 DEF NotReturned
<1> QED BY <1>0, <1>2, <1>3, <1>4 DEF AnswersInOrder

\* An answer follows the answers to earlier requests.
LEMMA AnswerOrdered ==
    ASSUME AInv, WriteAnswer \/ WriteTooLarge \/ WriteParseError PROVE AInv'
<1> USE DEF AInv
<1>0. UNCHANGED <<calls, got, toServer, current>> /\ srv = "handle" /\ srv' # "handle"
  BY DEF WriteAnswer, WriteTooLarge, WriteParseError, guiVars, Goto
<1>1. CASE toClient' = toClient BY <1>0, <1>1, MessagesUntouched
<1>2. CASE toClient' = Append(toClient, current)
  <2>1. /\ toClient' \in Seq(Nat \ {0}) /\ Len(toClient') = Len(toClient) + 1
        /\ toClient'[Len(toClient) + 1] = current /\ Len(toClient) \in Nat
        /\ \A i \in 1 .. Len(toClient) : toClient'[i] = toClient[i]
    BY <1>0, <1>2, Appended
  <2>2. \A j \in 1 .. Len(toClient') : j = Len(toClient) + 1 \/ j \in 1 .. Len(toClient)
    BY <2>1
  <2>3. InOrder'
    <3>1. ASSUME NEW i \in 1 .. Len(toClient'), NEW j \in 1 .. Len(toClient'), i < j
          PROVE  toClient'[i] < toClient'[j]
      <4>1. i \in 1 .. Len(toClient) BY <2>1, <3>1
      <4>2. CASE j = Len(toClient) + 1 BY <1>0, <2>1, <4>1, <4>2 DEF InOrder
      <4>3. CASE j \in 1 .. Len(toClient)
        BY <2>1, <3>1, <4>1, <4>3 DEF InOrder, Increasing
      <4> QED BY <2>2, <4>2, <4>3
    <3>2. ASSUME NEW i \in 1 .. Len(toClient'), NEW j \in 1 .. Len(toServer)
          PROVE  toClient'[i] < toServer[j]
      BY <1>0, <2>1, <2>2 DEF InOrder
    <3> QED BY <1>0, <3>1, <3>2 DEF InOrder, Increasing
  <2>4. NotReturned' BY <1>0, <2>1, <2>2 DEF NotReturned
  <2> QED BY <1>0, <2>1, <2>3, <2>4 DEF AnswersInOrder
<1> QED BY <1>1, <1>2 DEF WriteAnswer, WriteTooLarge, WriteParseError

\* The GUI takes the first answer.
LEMMA ReceiveOrdered == ASSUME AInv, Receive PROVE AInv'
<1> USE DEF AInv
<1> DEFINE m == Head(toClient)
<1>0. UNCHANGED <<calls, srv, current, toServer>> BY DEF Receive, serverVars
<1>1. /\ toClient # <<>> /\ toClient' = Tail(toClient)
      /\ got' = [got EXCEPT ![calls] = m]
  BY DEF Receive
<1>2. /\ toClient' \in Seq(Nat \ {0}) /\ Len(toClient') = Len(toClient) - 1
      /\ m = toClient[1] /\ m \in Nat \ {0} /\ 1 \in 1 .. Len(toClient)
      /\ \A i \in 1 .. Len(toClient') : toClient'[i] = toClient[i + 1] /\ i + 1 \in 1 .. Len(toClient)
  BY <1>1, Taken
<1> HIDE DEF m
<1>3. got' \in Seq(Nat) /\ Len(got') = calls
  <2>1. got \in [1 .. calls -> Nat] BY LenProperties
  <2>2. got' \in [1 .. calls -> Nat] BY <1>1, <1>2, <2>1
  <2> QED BY <2>2, IsASeq
<1>4. \A k \in 1 .. calls : got'[k] = IF k = calls THEN m ELSE got[k] BY <1>1
<1>5. m <= calls /\ Unreturned(m) BY <1>2 DEF NotReturned
<1>6. ASSUME NEW n \in Nat, m < n, Unreturned(n) PROVE Unreturned(n)'
  BY <1>3, <1>4, <1>6
<1>7. AnswersInOrder'
  <2>1. ASSUME NEW k \in 1 .. calls PROVE got'[k] <= k BY <1>4, <1>5 DEF AnswersInOrder
  <2>2. ASSUME NEW k \in 1 .. calls, NEW j \in 1 .. k - 1, got'[k] # 0
        PROVE  got'[j] < got'[k]
    <3>1. j \in 1 .. calls /\ j # calls /\ got'[j] = got[j] BY <1>4
    <3>2. CASE k = calls BY <1>4, <1>5, <3>1, <3>2
    <3>3. CASE k # calls BY <1>4, <2>2, <3>1, <3>3 DEF AnswersInOrder
    <3> QED BY <3>2, <3>3
  <2> QED BY <1>3, <2>1, <2>2 DEF AnswersInOrder
<1>8. InOrder'
  <2>1. ASSUME NEW i \in 1 .. Len(toClient'), NEW j \in 1 .. Len(toClient'), i < j
        PROVE  toClient'[i] < toClient'[j]
    <3>1. i + 1 \in 1 .. Len(toClient) /\ j + 1 \in 1 .. Len(toClient) /\ i + 1 < j + 1
      BY <1>2, <2>1
    <3>2. toClient[i + 1] < toClient[j + 1] BY <3>1 DEF InOrder, Increasing
    <3> QED BY <1>2, <3>2
  <2> QED BY <1>0, <1>2, <2>1 DEF InOrder, Increasing
<1>9. NotReturned'
  <2>1. ASSUME NEW i \in 1 .. Len(toClient') PROVE m < toClient'[i]
    <3>1. 1 < i + 1 /\ i + 1 \in 1 .. Len(toClient) BY <1>2
    <3>2. toClient[1] < toClient[i + 1] BY <1>2, <3>1 DEF InOrder, Increasing
    <3> QED BY <1>2, <3>2
  <2>2. \A j \in 1 .. Len(toServer) : m < toServer[j] BY <1>2 DEF InOrder
  <2>3. srv = "handle" => m < current BY <1>2 DEF InOrder
  <2>4. ASSUME NEW i \in 1 .. Len(toClient')
        PROVE  toClient'[i] <= calls /\ Unreturned(toClient[i])'
    <3>1. /\ i + 1 \in 1 .. Len(toClient) /\ toClient'[i] = toClient[i + 1]
          /\ toClient'[i] \in Nat
      BY <1>2
    <3>2. toClient'[i] <= calls /\ Unreturned(toClient'[i]) BY <3>1 DEF NotReturned
    <3> QED BY <1>6, <2>1, <3>1, <3>2
  <2>5. ASSUME NEW j \in 1 .. Len(toServer)
        PROVE  toServer[j] <= calls /\ Unreturned(toServer[j])'
    BY <1>0, <1>6, <2>2 DEF NotReturned
  <2>6. srv = "handle" => current <= calls /\ Unreturned(current)'
    BY <1>0, <1>6, <2>3 DEF NotReturned
  <2> QED BY <1>0, <2>4, <2>5, <2>6 DEF NotReturned
<1> QED BY <1>0, <1>2, <1>3, <1>7, <1>8, <1>9

\* The invariant is inductive.
THEOREM AnswersInductive == IpcSpec => []AInv
<1>1. ASSUME IpcInit PROVE AInv
  <2>1. <<>> \in Seq(Nat \ {0}) /\ <<>> \in Seq(Nat) /\ Len(<<>>) = 0 OBVIOUS
  <2> QED BY <1>1, <2>1 DEF IpcInit, AInv, InOrder, NotReturned, AnswersInOrder, Increasing
<1>2. ASSUME AInv, [IpcNext]_ipcVars PROVE AInv'
  <2>1. CASE Call BY <1>2, <2>1, CallOrdered
  <2>2. CASE ReadRequest BY <1>2, <2>2, ReadOrdered
  <2>3. CASE WriteAnswer \/ WriteTooLarge \/ WriteParseError BY <1>2, <2>3, AnswerOrdered
  <2>4. CASE Receive BY <1>2, <2>4, ReceiveOrdered
  <2>5. CASE Connect \/ CleanUp
    BY <1>2, <2>5, MessagesLost DEF Connect, CleanUp, Goto, serverVars, guiVars
  <2>6. CASE \/ Start \/ CheckRunning \/ CreatePipe \/ CreateFails \/ EnterConnect
             \/ ClientConnected \/ CheckInLoop \/ EnterRead \/ ReadFails \/ Flushed
    <3>1. UNCHANGED <<calls, current, toServer, toClient, got>>
      BY <2>6 DEF Start, CheckRunning, CreatePipe, CreateFails, EnterConnect,
           ClientConnected, CheckInLoop, EnterRead, ReadFails, Flushed, pipeVars, guiVars
    <3>2. srv' # "handle"
      BY <2>6 DEF Start, CheckRunning, CreatePipe, CreateFails, EnterConnect,
           ClientConnected, CheckInLoop, EnterRead, ReadFails, Flushed, Goto
    <3> QED BY <1>2, <3>1, <3>2, MessagesUntouched
  <2>7. CASE \/ StopBegins \/ Stopper \/ ConnectFails \/ CallFails \/ TimesOut \/ Disconnect
             \/ UNCHANGED ipcVars
    <3>1. UNCHANGED <<calls, current, toServer, toClient, got>>
      BY <2>7 DEF StopBegins, Stopper, StopLooks, StopCancels, StopJoins, StopCloses,
           ProcessEnds, ConnectFails, CallFails, TimesOut, Disconnect, ipcVars, serverVars,
           pipeVars, guiVars
    <3>2. srv' = "handle" => srv = "handle"
      BY <2>7 DEF StopBegins, Stopper, StopLooks, StopCancels, StopJoins, StopCloses,
           ProcessEnds, ConnectFails, CallFails, TimesOut, Disconnect, ipcVars, serverVars
    <3> QED BY <1>2, <3>1, <3>2, MessagesUntouched
  <2> QED BY <1>2, <2>1, <2>2, <2>3, <2>4, <2>5, <2>6, <2>7 DEF IpcNext, Thread, Client
<1> QED BY <1>1, <1>2, PTL DEF IpcSpec

\* However late answers are and whoever is disconnected when, no Call returns an
\* answer that another Call has returned, and answers keep their order.
THEOREM IpcAnswersOrdered == IpcSpec => []AnswersInOrder
<1>1. AInv => AnswersInOrder BY DEF AInv
<1> QED BY <1>1, AnswersInductive, PTL

-----------------------------------------------------------------------------
(* The life of the process around the pipe (Lifecycle), for any number of   *)
(* connection threads: its order of starting, stopping and destroying is    *)
(* kept in every interleaving, but for the races it names.                  *)

\* Types, and the places of the threads.
Types ==
    /\ status \in {"start_pending", "running", "stop_pending", "stopped"}
    /\ main \in {"load", "relay", "open", "pipe", "failed", "report", "run", "loop",
                 "final", "ended"}
    /\ handler \in {"idle", "check", "capture", "pipe", "cancel", "join", "relay", "report"}
    /\ m_running \in BOOLEAN
    /\ capture \in [run : BOOLEAN, handle : {"none", "invalid", "open", "shut"},
                    thread : {"none", "run", "done"}]
    /\ closing \in [Closer -> {"none", "join", "close", "done"}]
    /\ ipc \in {"none", "check", "enter", "wait", "start", "stop", "reload", "answer", "flush",
                "ended"}
    /\ pipeRunning \in BOOLEAN
    /\ relay \in {"off", "on", "stopped"}
    /\ conn \in [ConnThread -> {-1, 0, 1}] /\ provider \in {0, 1}
    /\ exit \in {"no", "provider", "relay", "table", "pipe", "cancel", "join", "capture", "rest",
                 "gone"}
    /\ raced \subseteq {"early", "overlap", "missed", "lingering", "thrown"}
    /\ crashed \in BOOLEAN

\* Until RUNNING is reported nobody else is at work; and an Initialize that returned
\* false leaves nothing running but the relay.
Initializing == {"load", "relay", "open", "pipe", "failed", "report"}
Booting ==
    /\ main \in Initializing =>
          status = "start_pending" /\ handler = "idle" /\ exit = "no" /\ m_running = FALSE
    /\ main \in {"load", "relay", "open"} => capture.thread = "none" /\ NoConns
    /\ main \in {"load", "relay", "open", "pipe"} => ipc = "none"
    /\ main = "load" => provider = 0
    /\ main = "failed" /\ "thrown" \notin raced =>
          capture.thread = "none" /\ NoConns /\ ipc = "none"

\* The dispatcher returns after STOPPED, and the members go after Stop.
Exiting ==
    /\ exit # "no" => status = "stopped"
    /\ exit \notin {"no", "provider"} => handler = "idle"

\* Close runs only where it is called.
Places ==
    /\ closing["handler"] # "none" => handler = "capture"
    /\ closing["ipc"] # "none" => ipc = "stop"
    /\ closing["exit"] # "none" => exit = "capture"

\* A capture request beside a stop or the destructors has been noted.
Overlaps ==
    ipc \in {"start", "stop"} /\ (handler \notin {"idle", "check", "report"} \/ exit # "no")
        => "overlap" \in raced

\* Without one, a capture that is not running has no thread or somebody joins it, and
\* once joined there is none until Close has returned.
Calm ==
    "overlap" \notin raced =>
        /\ crashed = FALSE
        /\ capture.run = FALSE /\ capture.thread # "none" =>
              \E t \in Closer : closing[t] = "join"
        /\ \A t \in Closer : closing[t] \in {"close", "done"} => capture.thread = "none"

\* Stop is over, or will never be called.
Ended == handler = "report" \/ (handler = "idle" /\ status = "stopped")

\* Without the races: status, flag and threads agree, and what Stop has passed is over.
Ordered ==
    raced \cap {"early", "overlap", "thrown"} = {} =>
        /\ handler = "check" => m_running = TRUE /\ main = "loop"
        /\ handler \notin {"idle", "check"} =>
              m_running = FALSE /\ main \in {"loop", "final", "ended"}
        /\ status = "running" =>
              handler = "idle" /\ main \in {"run", "loop"} /\ m_running = (main = "loop")
        /\ main = "run" => status = "running"
        /\ handler = "idle" /\ status = "stopped" =>
              m_running = FALSE /\ main \in {"loop", "final", "ended"}
        /\ status = "stop_pending" => handler # "idle"
        /\ status = "start_pending" => handler = "idle" /\ main \in Initializing
        /\ exit # "no" => handler = "idle"
        /\ Ended \/ handler \in {"pipe", "cancel", "join", "relay"} => capture.thread # "run"
        /\ Ended \/ handler = "relay" => PipeJoined
        /\ relay = "stopped" => Ended

\* A Stop that did not give up waiting leaves no connection.
Drained ==
    raced \cap {"early", "overlap", "thrown", "lingering"} = {} /\ Ended => NoConns

\* The provider a connection calls is there until it is destroyed.
Lent == \A c \in ConnThread : conn[c] = 1 /\ exit \in {"no", "provider"} => provider = 1

LInv ==
    Types /\ Booting /\ Exiting /\ Places /\ Overlaps /\ Calm /\ Ordered /\ Drained /\ Lent

\* What follows what in Stop ...
LEMMA StopStages ==
    /\ StopOrder[1] = "capture" /\ After("capture") = "pipe"
    /\ After("pipe") = "relay" /\ After("relay") = "report"
<1> DEFINE s == StopOrder
<1>1. s = <<"capture", "pipe", "relay">> BY DEF StopOrder
<1>2. Len(s) = 3 /\ s[1] = "capture" /\ s[2] = "pipe" /\ s[3] = "relay" BY <1>1
<1> HIDE DEF s
<1>3. ASSUME NEW j \in 1 .. 3 PROVE (CHOOSE i \in 1 .. Len(s) : s[i] = s[j]) = j
  BY <1>2
<1>4. /\ (CHOOSE i \in 1 .. Len(s) : s[i] = "capture") = 1
      /\ (CHOOSE i \in 1 .. Len(s) : s[i] = "pipe") = 2
  BY <1>2, <1>3
<1>5. After("capture") = s[2] /\ After("pipe") = s[3] /\ After("relay") = "report"
  BY <1>2, <1>4 DEF After, s
<1> QED BY <1>2, <1>5 DEF s

\* ... and in the destruction.
LEMMA DestroyStages ==
    /\ Later("provider") = "relay" /\ Later("relay") = "table" /\ Later("table") = "pipe"
    /\ Later("pipe") = "cancel" /\ Later("cancel") = "join" /\ Later("join") = "capture"
    /\ Later("capture") = "rest" /\ Later("rest") = "gone"
<1> DEFINE s == DestroyOrder
<1>1. s = <<"provider", "relay", "table", "pipe", "cancel", "join", "capture", "rest", "gone">>
  BY DEF DestroyOrder
<1>2. /\ Len(s) = 9 /\ s[1] = "provider" /\ s[2] = "relay" /\ s[3] = "table" /\ s[4] = "pipe"
      /\ s[5] = "cancel" /\ s[6] = "join" /\ s[7] = "capture" /\ s[8] = "rest" /\ s[9] = "gone"
  BY <1>1
<1> HIDE DEF s
<1>3. ASSUME NEW j \in 1 .. 8 PROVE Later(s[j]) = s[1 + j]
  <2>1. (CHOOSE i \in 1 .. Len(s) : s[i] = s[j]) = j BY <1>2
  <2> QED BY <2>1 DEF Later, s
<1> QED BY <1>2, <1>3

\* What Open leaves.
LEMMA OpenTyped ==
    ASSUME Types, Open
    PROVE  /\ capture' \in [run : BOOLEAN, handle : {"none", "invalid", "open", "shut"},
                            thread : {"none", "run", "done"}]
           /\ crashed' \in BOOLEAN
<1>1. crashed' \in BOOLEAN BY Zenon DEF Types, Open, OpenFails, OpenSucceeds
<1>2. CASE UNCHANGED capture BY <1>1, <1>2 DEF Types
<1>3. CASE capture' = [capture EXCEPT !.handle = "invalid"] BY <1>1, <1>3 DEF Types
<1>4. CASE capture' = [run |-> TRUE, handle |-> "open", thread |-> "run"]
  BY <1>1, <1>4 DEF Types
<1> QED BY <1>2, <1>3, <1>4 DEF Open, OpenFails, OpenSucceeds

\* ServiceMain's own steps.
LEMMA MainKeeps == ASSUME LInv, ServiceMain PROVE LInv'
<1> USE DEF LInv, Types, Initializing, Booting, Exiting, Places, Overlaps, Calm, Ended, Ordered,
        Drained, Lent, Alive, NoConns, PipeJoined, Closer
<1>1. CASE Load BY <1>1 DEF Load
<1>2. CASE StartRelay BY <1>2 DEF StartRelay
<1>3. CASE OpenCapture
  <2>1. Types'
    <3>1. Open /\ main' \in {"pipe", "failed"} BY <1>3 DEF OpenCapture
    <3> QED BY <1>3, <3>1, OpenTyped DEF OpenCapture
  <2>2. Booting' BY <1>3 DEF OpenCapture, Open, OpenFails, OpenSucceeds
  <2>3. Exiting' /\ Places' /\ Overlaps' BY <1>3 DEF OpenCapture
  <2>4. Calm' BY <1>3 DEF OpenCapture, Open, OpenFails, OpenSucceeds
  <2>5. Ordered' BY <1>3 DEF OpenCapture, Open, OpenFails, OpenSucceeds
  <2>6. Drained' /\ Lent' BY <1>3 DEF OpenCapture
  <2> QED BY <2>1, <2>2, <2>3, <2>4, <2>5, <2>6
<1>4. CASE InitializeFails BY <1>4 DEF InitializeFails
<1>5. CASE StartPipe BY <1>5 DEF StartPipe
<1>6. CASE StartPipeThrows BY <1>6 DEF StartPipeThrows
<1>7. CASE ReportRunning BY <1>7 DEF ReportRunning
<1>8. CASE Run
  <2>1. Types' BY <1>8 DEF Run
  <2>2. Booting' BY <1>8 DEF Run
  <2>3. Exiting' /\ Places' /\ Overlaps' BY <1>8 DEF Run
  <2>4. Calm' BY <1>8 DEF Run
  <2>5. Ordered' BY <1>8 DEF Run
  <2>6. Drained' /\ Lent' BY <1>8 DEF Run
  <2> QED BY <2>1, <2>2, <2>3, <2>4, <2>5, <2>6
<1>9. CASE RunEnds BY <1>9 DEF RunEnds
<1>10. CASE ReportStopped BY <1>10 DEF ReportStopped
<1> QED BY <1>1, <1>2, <1>3, <1>4, <1>5, <1>6, <1>7, <1>8, <1>9, <1>10 DEF ServiceMain

\* The controls and Stop.
LEMMA HandlerKeeps == ASSUME LInv, Interrogate \/ ControlStop \/ Stop PROVE LInv'
<1> USE DEF LInv, Types, Initializing, Booting, Exiting, Places, Overlaps, Calm, Ended, Ordered,
        Drained, Lent, Alive, NoConns, PipeJoined, Closer
<1>1. CASE Interrogate BY <1>1 DEF Interrogate, Early
<1>2. CASE ControlStop BY <1>2 DEF ControlStop, Early
<1>3. CASE StopCheck
  <2>1. Types'
    <3>1. raced' \subseteq raced \cup {"overlap"} BY <1>3 DEF StopCheck, Overlap
    <3>2. handler' \in {"capture", "report"} /\ m_running' \in BOOLEAN
      BY <1>3, StopStages DEF StopCheck
    <3> QED BY <1>3, <3>1, <3>2 DEF StopCheck
  <2>2. Booting' BY <1>3, StopStages DEF StopCheck, Overlap
  <2>3. Exiting' /\ Places' /\ Overlaps' BY <1>3, StopStages DEF StopCheck, Overlap
  <2>4. Calm' BY <1>3, StopStages DEF StopCheck, Overlap
  <2>5. Ordered' BY <1>3, StopStages DEF StopCheck, Overlap
  <2>6. Drained' BY <1>3, StopStages DEF StopCheck, Overlap
  <2>7. Lent' BY <1>3, StopStages DEF StopCheck, Overlap
  <2> QED BY <2>1, <2>2, <2>3, <2>4, <2>5, <2>6, <2>7
<1>4. CASE StopCapture BY <1>4, StopStages DEF StopCapture, Returned
<1>5. CASE StopPipeCancel
  <2>1. Types'
    <3>1. raced' \subseteq raced \cup {"missed"} /\ ipc' \in {ipc, "check"}
      BY <1>5 DEF StopPipeCancel, CancelPipe
    <3>2. /\ raced' \subseteq {"early", "overlap", "missed", "lingering", "thrown"}
          /\ ipc' \in {"none", "check", "enter", "wait", "start", "stop", "reload", "answer",
                      "flush", "ended"}
      BY <3>1
    <3> QED BY <1>5, <3>2 DEF StopPipeCancel
  <2>2. Booting' BY <1>5 DEF StopPipeCancel, CancelPipe
  <2>3. Exiting' /\ Places' /\ Overlaps' BY <1>5 DEF StopPipeCancel, CancelPipe
  <2>4. Calm' BY <1>5 DEF StopPipeCancel, CancelPipe
  <2>5. Ordered' BY <1>5 DEF StopPipeCancel, CancelPipe
  <2>6. Drained' /\ Lent' BY <1>5 DEF StopPipeCancel, CancelPipe
  <2> QED BY <2>1, <2>2, <2>3, <2>4, <2>5, <2>6
<1>6. CASE StopPipeJoin BY <1>6, StopStages DEF StopPipeJoin
<1>7. CASE StopRelay BY <1>7, StopStages DEF StopRelay, RelayStops
<1>8. CASE StopReport BY <1>8 DEF StopReport
<1>9. CASE StopPipe
  <2>1. Types'
    <3>1. pipeRunning' \in BOOLEAN BY <1>9 DEF StopPipe
    <3> QED BY <1>9, <3>1 DEF StopPipe
  <2>2. Booting' BY <1>9 DEF StopPipe
  <2>3. Exiting' /\ Places' /\ Overlaps' BY <1>9 DEF StopPipe
  <2>4. Calm' BY <1>9 DEF StopPipe
  <2>5. Ordered' BY <1>9 DEF StopPipe
  <2>6. Drained' /\ Lent' BY <1>9 DEF StopPipe
  <2> QED BY <2>1, <2>2, <2>3, <2>4, <2>5, <2>6
<1> QED BY <1>1, <1>2, <1>3, <1>4, <1>5, <1>6, <1>7, <1>8, <1>9 DEF Stop

\* Close, called by Stop, by capture_stop or by the destructor.
LEMMA CloseKeeps == ASSUME LInv, NEW t \in Closer, Close(t) PROVE LInv'
<1> USE DEF LInv, Types, Initializing, Booting, Exiting, Places, Overlaps, Calm, Ended, Ordered,
        Drained, Lent, Alive, NoConns, PipeJoined, Closer
<1>1. CASE CloseShutdown(t)
  <2>1. Types'
    <3>1. capture' \in [run : BOOLEAN, handle : {"none", "invalid", "open", "shut"},
                        thread : {"none", "run", "done"}]
      BY <1>1 DEF CloseShutdown
    <3>2. closing' \in [Closer -> {"none", "join", "close", "done"}]
      BY <1>1 DEF CloseShutdown
    <3> QED BY <1>1, <3>1, <3>2 DEF CloseShutdown
  <2>2. Booting' BY <1>1 DEF CloseShutdown, Calls
  <2>3. Exiting' /\ Places' /\ Overlaps' BY <1>1 DEF CloseShutdown, Calls
  <2>4. Calm' BY <1>1 DEF CloseShutdown
  <2>5. Ordered' BY <1>1 DEF CloseShutdown
  <2>6. Drained' /\ Lent' BY <1>1 DEF CloseShutdown
  <2> QED BY <2>1, <2>2, <2>3, <2>4, <2>5, <2>6
<1>2. CASE CloseJoin(t)
  <2>1. Types' BY <1>2 DEF CloseJoin
  <2>2. Booting' BY <1>2 DEF CloseJoin
  <2>3. Exiting' /\ Places' /\ Overlaps' BY <1>2 DEF CloseJoin
  <2>4. Calm' BY <1>2 DEF CloseJoin
  <2>5. Ordered' BY <1>2 DEF CloseJoin
  <2>6. Drained' /\ Lent' BY <1>2 DEF CloseJoin
  <2> QED BY <2>1, <2>2, <2>3, <2>4, <2>5, <2>6
<1>3. CASE CloseHandle(t)
  <2>1. Types' BY <1>3 DEF CloseHandle
  <2>2. Booting' BY <1>3 DEF CloseHandle
  <2>3. Exiting' /\ Places' /\ Overlaps' BY <1>3 DEF CloseHandle
  <2>4. Calm' BY <1>3 DEF CloseHandle
  <2>5. Ordered' BY <1>3 DEF CloseHandle
  <2>6. Drained' /\ Lent' BY <1>3 DEF CloseHandle
  <2> QED BY <2>1, <2>2, <2>3, <2>4, <2>5, <2>6
<1> QED BY <1>1, <1>2, <1>3 DEF Close

\* The pipe's thread and the requests it is given.
LEMMA PipeKeeps ==
    ASSUME LInv, PipeThread \/ ClientReads \/ \E kind \in Kind : Request(kind)
    PROVE  LInv'
<1> USE DEF LInv, Types, Initializing, Booting, Exiting, Places, Overlaps, Calm, Ended, Ordered,
        Drained, Lent, Alive, NoConns, PipeJoined, Closer
<1>1. CASE PipeCheck BY <1>1 DEF PipeCheck
<1>2. CASE PipeWaits BY <1>2 DEF PipeWaits
<1>3. CASE CaptureStart
  <2>1. Types'
    <3>1. Open BY <1>3 DEF CaptureStart
    <3> QED BY <1>3, <3>1, OpenTyped DEF CaptureStart
  <2>2. Booting' BY <1>3 DEF CaptureStart, Open, OpenFails, OpenSucceeds
  <2>3. Exiting' /\ Places' /\ Overlaps' BY <1>3 DEF CaptureStart
  <2>4. Calm' BY <1>3 DEF CaptureStart, Open, OpenFails, OpenSucceeds
  <2>5. Ordered' BY <1>3 DEF CaptureStart, Open, OpenFails, OpenSucceeds
  <2>6. Drained' /\ Lent' BY <1>3 DEF CaptureStart
  <2> QED BY <2>1, <2>2, <2>3, <2>4, <2>5, <2>6
<1>4. CASE CaptureIsClosed BY <1>4 DEF CaptureIsClosed
<1>5. CASE CaptureStop BY <1>5 DEF CaptureStop, Returned
<1>6. CASE Reload BY <1>6 DEF Reload
<1>7. ASSUME NEW kind \in Kind, Request(kind) PROVE LInv'
  <2>1. raced' \subseteq raced \cup {"overlap"} /\ raced \subseteq raced'
    BY <1>7 DEF Request, Kind
  <2>2. Types' BY <1>7, <2>1 DEF Request, Kind
  <2>3. Booting' BY <1>7, <2>1 DEF Request, Kind
  <2>4. Exiting' /\ Places' BY <1>7 DEF Request, Kind
  <2>5. Overlaps' BY <1>7 DEF Request, Kind, Stopping
  <2>6. Calm' BY <1>7, <2>1 DEF Request, Kind
  <2>7. Ordered' BY <1>7, <2>1 DEF Request, Kind
  <2>8. Drained' /\ Lent' BY <1>7, <2>1 DEF Request, Kind
  <2> QED BY <2>2, <2>3, <2>4, <2>5, <2>6, <2>7, <2>8
<1>8. CASE PipeAnswers BY <1>8 DEF PipeAnswers
<1>9. CASE ClientReads BY <1>9 DEF ClientReads
<1> QED BY <1>1, <1>2, <1>3, <1>4, <1>5, <1>6, <1>7, <1>8, <1>9 DEF PipeThread

\* The capture's thread ends, connections begin and end.
LEMMA TrafficKeeps ==
    ASSUME LInv,
           CaptureLoopEnds \/ \E c \in ConnThread : ConnBegins(c) \/ ConnEnds(c)
    PROVE  LInv'
<1> USE DEF LInv, Types, Initializing, Booting, Exiting, Places, Overlaps, Calm, Ended, Ordered,
        Drained, Lent, Alive, NoConns, PipeJoined, Closer
<1>1. CASE CaptureLoopEnds BY <1>1 DEF CaptureLoopEnds
<1>2. ASSUME NEW c \in ConnThread, ConnBegins(c) PROVE LInv'
  <2>1. Types' /\ Exiting' /\ Places' /\ Overlaps' /\ Calm' /\ Ordered' BY <1>2 DEF ConnBegins
  <2>2. Booting' BY <1>2 DEF ConnBegins
  <2>3. Drained' BY <1>2 DEF ConnBegins
  <2>4. Lent' BY <1>2 DEF ConnBegins
  <2> QED BY <2>1, <2>2, <2>3, <2>4
<1>3. ASSUME NEW c \in ConnThread, ConnEnds(c) PROVE LInv'
  <2>1. Types' /\ Exiting' /\ Places' /\ Overlaps' /\ Calm' /\ Ordered' BY <1>3 DEF ConnEnds
  <2>2. Booting' BY <1>3 DEF ConnEnds
  <2>3. Drained' BY <1>3 DEF ConnEnds
  <2>4. Lent' BY <1>3 DEF ConnEnds
  <2> QED BY <2>1, <2>2, <2>3, <2>4
<1> QED BY <1>1, <1>2, <1>3

\* The destructors.
LEMMA DestroyKeeps == ASSUME LInv, Destroy PROVE LInv'
<1> USE DEF LInv, Types, Initializing, Booting, Exiting, Places, Overlaps, Calm, Ended, Ordered,
        Drained, Lent, Alive, NoConns, PipeJoined, Closer
<1>1. CASE DispatcherReturns
  <2>1. /\ raced' \subseteq raced \cup {"overlap"} /\ raced \subseteq raced'
        /\ handler' \in {"idle", "capture"} /\ (m_running = FALSE => handler' = "idle")
    BY <1>1, StopStages DEF DispatcherReturns, Overlap
  <2>2. Types'
    <3>1. /\ raced' \subseteq {"early", "overlap", "missed", "lingering", "thrown"}
          /\ m_running' \in BOOLEAN
      BY <1>1, <2>1 DEF DispatcherReturns
    <3> QED BY <1>1, <2>1, <3>1 DEF DispatcherReturns
  <2>3. Booting' /\ Exiting' /\ Places' BY <1>1, <2>1 DEF DispatcherReturns
  <2>4. Overlaps' BY <1>1, <2>1 DEF DispatcherReturns, Overlap
  <2>5. Calm' BY <1>1, <2>1 DEF DispatcherReturns
  <2>6. Ordered' BY <1>1, <2>1 DEF DispatcherReturns
  <2>7. Drained' /\ Lent' BY <1>1, <2>1 DEF DispatcherReturns
  <2> QED BY <2>2, <2>3, <2>4, <2>5, <2>6, <2>7
<1>2. CASE DestroyProvider BY <1>2, DestroyStages DEF DestroyProvider
<1>3. CASE DestroyRelay
  <2>1. raced' \subseteq raced \cup {"lingering"} /\ raced \subseteq raced'
    BY <1>3 DEF DestroyRelay, RelayStops
  <2>2. Types' BY <1>3, <2>1, DestroyStages DEF DestroyRelay, RelayStops
  <2>3. Booting' /\ Exiting' /\ Places' /\ Overlaps'
    BY <1>3, <2>1, DestroyStages DEF DestroyRelay
  <2>4. Calm' BY <1>3, <2>1 DEF DestroyRelay
  <2>5. Ordered' BY <1>3, <2>1, DestroyStages DEF DestroyRelay, RelayStops
  <2>6. Drained' BY <1>3, <2>1 DEF DestroyRelay
  <2>7. Lent' BY <1>3, DestroyStages DEF DestroyRelay
  <2> QED BY <2>2, <2>3, <2>4, <2>5, <2>6, <2>7
<1>4. CASE DestroyPipeCancel
  <2>1. /\ raced' \subseteq raced \cup {"missed"} /\ raced \subseteq raced'
        /\ ipc' \in {ipc, "check"} /\ (ipc # "wait" => ipc' = ipc)
        /\ exit' = "join"
    BY <1>4, DestroyStages DEF DestroyPipeCancel, CancelPipe
  <2>2. Types'
    <3>1. /\ raced' \subseteq {"early", "overlap", "missed", "lingering", "thrown"}
          /\ ipc' \in {"none", "check", "enter", "wait", "start", "stop", "reload", "answer",
                      "flush", "ended"}
      BY <2>1
    <3> QED BY <1>4, <2>1, <3>1 DEF DestroyPipeCancel
  <2>3. Booting' /\ Exiting' /\ Places' /\ Overlaps' BY <1>4, <2>1 DEF DestroyPipeCancel
  <2>4. Calm' BY <1>4, <2>1 DEF DestroyPipeCancel
  <2>5. Ordered' BY <1>4, <2>1 DEF DestroyPipeCancel
  <2>6. Drained' BY <1>4, <2>1 DEF DestroyPipeCancel
  <2>7. Lent' BY <1>4, <2>1 DEF DestroyPipeCancel
  <2> QED BY <2>2, <2>3, <2>4, <2>5, <2>6, <2>7
<1>5. CASE DestroyPart
  <2>1. exit' \in {"pipe", "capture", "gone"} /\ exit \in {"table", "join", "rest"}
    BY <1>5, DestroyStages DEF DestroyPart
  <2> QED BY <1>5, <2>1 DEF DestroyPart
<1>6. CASE DestroyCapture
  <2>1. exit' = "rest" /\ exit = "capture" BY <1>6, DestroyStages DEF DestroyCapture
  <2> QED BY <1>6, <2>1 DEF DestroyCapture, Returned
<1>7. CASE DestroyPipe
  <2>1. exit' = "cancel" /\ exit = "pipe" BY <1>7, DestroyStages DEF DestroyPipe
  <2>2. Types'
    <3>1. pipeRunning' \in BOOLEAN BY <1>7 DEF DestroyPipe
    <3> QED BY <1>7, <2>1, <3>1 DEF DestroyPipe
  <2>3. Booting' /\ Exiting' /\ Places' /\ Overlaps' BY <1>7, <2>1 DEF DestroyPipe
  <2>4. Calm' BY <1>7, <2>1 DEF DestroyPipe
  <2>5. Ordered' BY <1>7, <2>1 DEF DestroyPipe
  <2>6. Drained' /\ Lent' BY <1>7, <2>1 DEF DestroyPipe
  <2> QED BY <2>2, <2>3, <2>4, <2>5, <2>6
<1> QED BY <1>1, <1>2, <1>3, <1>4, <1>5, <1>6, <1>7 DEF Destroy

\* The order of the service's life is kept, by every thread and at every step.
THEOREM LifeInductive == Spec => []LInv
<1>1. ASSUME Init PROVE LInv
  <2>1. Types BY <1>1 DEF Init, Types
  <2>2. NoConns BY <1>1 DEF Init, NoConns
  <2> QED BY <1>1, <2>1, <2>2 DEF Init, LInv, Initializing, Booting, Exiting, Places, Overlaps, Calm,
            Ended, Ordered, Drained, Lent, Closer
<1>2. ASSUME LInv, [Next]_vars PROVE LInv'
  <2>1. CASE UNCHANGED vars
    BY <1>2, <2>1 DEF vars, LInv, Types, Initializing, Booting, Exiting, Places, Overlaps, Calm,
       Ended, Ordered, Drained, Lent, NoConns, PipeJoined
  <2> QED BY <1>2, <2>1, MainKeeps, HandlerKeeps, CloseKeeps, PipeKeeps, TrafficKeeps,
             DestroyKeeps DEF Next
<1> QED BY <1>1, <1>2, PTL DEF Spec

\* M11: packets go to the relay's port only while the relay has not been stopped,
\* unless a capture request overlaps the stop, a control comes too early, or
\* Initialize ends by an exception.
THEOREM RelayOutlivesCapture == Spec => []CaptureNeedsRelay
<1>1. LInv => CaptureNeedsRelay
  BY DEF LInv, Ordered, CaptureNeedsRelay
<1> QED BY <1>1, LifeInductive, PTL

\* No capture thread is overwritten or joined twice and the library is not unloaded
\* under one, unless a capture request overlaps the stop.
THEOREM CaptureCallsSound == Spec => []CaptureCallsMatch
<1>1. LInv => CaptureCallsMatch BY DEF LInv, Calm, CaptureCallsMatch
<1> QED BY <1>1, LifeInductive, PTL

\* What the destruction has reached when a part is gone.
LEMMA DestroyedIs ==
    ASSUME Types
    PROVE  /\ Destroyed("provider") <=> exit \notin {"no", "provider"}
           /\ Destroyed("relay") => exit \notin {"no", "provider"}
           /\ Destroyed("table") => exit \notin {"no", "provider"}
<1> DEFINE s == DestroyOrder
<1>1. s = <<"provider", "relay", "table", "pipe", "cancel", "join", "capture", "rest", "gone">>
  BY DEF DestroyOrder
<1>2. /\ Len(s) = 9 /\ s[1] = "provider" /\ s[2] = "relay" /\ s[3] = "table" /\ s[4] = "pipe"
      /\ s[5] = "cancel" /\ s[6] = "join" /\ s[7] = "capture" /\ s[8] = "rest" /\ s[9] = "gone"
  BY <1>1
<1> HIDE DEF s
<1>3. \A part : Destroyed(part) <=>
                   \E i, j \in 1 .. Len(s) : s[i] = part /\ s[j] = exit /\ i < j
  BY DEF Destroyed, s
<1>4. ASSUME NEW part, Destroyed(part) PROVE exit \notin {"no", "provider"}
  BY <1>2, <1>3, <1>4
<1>5. ASSUME exit \notin {"no", "provider"} PROVE Destroyed("provider")
  <2>1. \E j \in 1 .. 9 : s[j] = exit /\ 1 < j BY <1>2, <1>5 DEF Types
  <2> QED BY <1>2, <1>3, <2>1
<1> QED BY <1>4, <1>5

\* What is destroyed at exit is not in use, with any number of connections and unless
\* one of the races happened or Stop gave up waiting; and while it exists, the provider
\* a connection calls is not replaced, races or not.
THEOREM FreedIsUnused == Spec => []FreedUnused
<1>1. LInv => FreedUnused
  <2> SUFFICES ASSUME LInv PROVE FreedUnused OBVIOUS
  <2>1. Types /\ Exiting /\ Ordered /\ Drained /\ Lent BY DEF LInv
  <2>2. ASSUME NEW c \in ConnThread, conn[c] > 0, ~Destroyed("provider")
        PROVE  conn[c] = provider
    <3>1. conn[c] = 1 BY <2>1, <2>2 DEF Types
    <3>2. exit \in {"no", "provider"} BY <2>1, <2>2, DestroyedIs
    <3> QED BY <2>1, <3>1, <3>2 DEF Lent
  <2>3. ASSUME raced \cap {"early", "overlap", "lingering", "thrown"} = {},
               exit \notin {"no", "provider"}
        PROVE  /\ NoConns /\ capture.thread # "run" /\ ipc \in {"none", "ended"}
               /\ main \in {"loop", "final", "ended"}
    <3>1. /\ raced \cap {"early", "overlap", "thrown"} = {}
          /\ raced \cap {"early", "overlap", "thrown", "lingering"} = {}
      BY <2>3
    <3>2. handler = "idle" /\ status = "stopped" BY <2>1, <2>3 DEF Exiting
    <3>3. Ended BY <3>2 DEF Ended
    <3> QED BY <2>1, <3>1, <3>2, <3>3 DEF Ordered, Drained, PipeJoined
  <2> QED BY <2>1, <2>2, <2>3, DestroyedIs DEF FreedUnused
<1> QED BY <1>1, LifeInductive, PTL
=============================================================================
