-------------------------------- MODULE Ipc --------------------------------
(***************************************************************************)
(* The named pipe between the GUI and the service: PipeServer's thread and *)
(* Stop, and the GUI's IpcClient with the shell that shows whether the     *)
(* service is there.                                                       *)
(*                                                                         *)
(* The server thread handles one client at a time.  A blocking call        *)
(* (ConnectNamedPipe, ReadFile, FlushFileBuffers) is two steps, entering   *)
(* it and leaving it: CancelIoEx ends a call only if the thread is in it.  *)
(* A request is its number, an answer the number of the request it is for. *)
(* What a request does is in modules Settings and Lifecycle.               *)
(***************************************************************************)
EXTENDS Integers, Sequences

CONSTANTS
    MaxCalls,   \* bound: requests of the GUI
    MaxStarts,  \* bound: how often the service is started
    Timeouts,   \* may an answer take longer than the GUI waits (5 s)?
    Stops       \* may the service be stopped?

ASSUME IpcAssumption ==
    MaxCalls \in Nat /\ MaxStarts \in Nat /\ Timeouts \in BOOLEAN /\ Stops \in BOOLEAN

VARIABLES
    starts,    \* times the service was started
    running,   \* PipeServer::m_running
    srv,       \* where PipeThread is
    hPipe,     \* m_hPipe is valid
    open,      \* server handles open: 1 or 0 (below: closed twice)
    mutex,     \* m_pipeMutex: free, or held by the thread
    current,   \* the request being handled
    stop,      \* where Stop is
    saw,       \* pipeToCancel is valid
    link,      \* the client's end: off, up, cut (the server closed its end),
               \* gone (it left before the thread had seen it connect)
    toServer, toClient,  \* messages in the pipe
    calls,     \* number of the GUI's last request
    waiting,   \* a Call has written and is reading
    got,       \* what each Call returned: an answer, or 0 for null
    shown      \* what the shell shows: running or unavailable

serverVars == <<starts, running, srv, hPipe, open, mutex, current>>
stopVars   == <<stop, saw>>
pipeVars   == <<link, toServer, toClient>>
guiVars    == <<calls, waiting, got, shown>>
ipcVars == <<serverVars, stopVars, pipeVars, guiVars>>

IpcInit ==
    /\ starts = 0 /\ running = FALSE /\ srv = "none" /\ hPipe = FALSE /\ open = 0
    /\ mutex = "free" /\ current = 0
    /\ stop = "no" /\ saw = FALSE
    /\ link = "off" /\ toServer = <<>> /\ toClient = <<>>
    /\ calls = 0 /\ waiting = FALSE /\ got = <<>> /\ shown = "unavailable"

-----------------------------------------------------------------------------
(* PipeServer: the thread                                                   *)

Start ==
    /\ srv = "none" /\ starts < MaxStarts
    /\ starts' = starts + 1 /\ running' = TRUE /\ srv' = "check"
    /\ UNCHANGED <<hPipe, open, mutex, current, stopVars, pipeVars, guiVars>>

Goto(here, there) == srv = here /\ srv' = there

\* `while (m_running)', the outer loop.
CheckRunning ==
    /\ Goto("check", IF running THEN "create" ELSE "ended")
    /\ UNCHANGED <<starts, running, hPipe, open, mutex, current, stopVars, pipeVars, guiVars>>

\* CreateNamedPipe, then the swap of m_hPipe under the mutex; a handle that was
\* still there is closed.
CreatePipe ==
    /\ Goto("create", "connect") /\ mutex = "free"
    /\ hPipe' = TRUE /\ open' = IF hPipe THEN open ELSE open + 1
    /\ UNCHANGED <<starts, running, mutex, current, stopVars, pipeVars, guiVars>>

\* CreateNamedPipe failed: wait a second and try again.
\* Fault: the thread ends.
CreateFailsEnds ==
    /\ Goto("create", "ended")
    /\ UNCHANGED <<starts, running, hPipe, open, mutex, current, stopVars, pipeVars, guiVars>>
CreateFails ==
    /\ Goto("create", "check")
    /\ UNCHANGED <<starts, running, hPipe, open, mutex, current, stopVars, pipeVars, guiVars>>

\* ConnectNamedPipe blocks, unless a client is there already (ERROR_PIPE_CONNECTED)
\* or has been there (ERROR_NO_DATA, and the instance is given up).
EnterConnect ==
    /\ Goto("connect", CASE link = "up" -> "loop" [] link = "gone" -> "clean"
                         [] OTHER -> "connecting")
    /\ UNCHANGED <<starts, running, hPipe, open, mutex, current, stopVars, pipeVars, guiVars>>

ClientConnected ==
    /\ Goto("connecting", "loop") /\ link \in {"up", "gone"}
    /\ UNCHANGED <<starts, running, hPipe, open, mutex, current, stopVars, pipeVars, guiVars>>

\* The inner loop.
CheckInLoop ==
    /\ Goto("loop", IF running THEN "read" ELSE "clean")
    /\ UNCHANGED <<starts, running, hPipe, open, mutex, current, stopVars, pipeVars, guiVars>>

EnterRead ==
    /\ Goto("read", "reading")
    /\ UNCHANGED <<starts, running, hPipe, open, mutex, current, stopVars, pipeVars, guiVars>>

ReadRequest ==
    /\ Goto("reading", "handle") /\ toServer # <<>>
    /\ current' = Head(toServer) /\ toServer' = Tail(toServer)
    /\ UNCHANGED <<starts, running, hPipe, open, mutex, stopVars, link, toClient, guiVars>>

\* The client is gone, or its message is longer than the buffer and ReadFile
\* fails with ERROR_MORE_DATA.
ReadFails ==
    /\ Goto("reading", "clean") /\ (link # "up" \/ toServer # <<>>)
    /\ UNCHANGED <<starts, running, hPipe, open, mutex, current, stopVars, pipeVars, guiVars>>

\* The callback, then the answer under the mutex.  FlushFileBuffers returns when
\* the client has read everything, or is gone; the mutex is held meanwhile.
\* Fault: the exception handler falls through to the write of the answer.
WriteAnswerTwice ==
    /\ Goto("handle", "flush") /\ mutex = "free"
    /\ mutex' = "thread"
    /\ toClient' = IF link = "up" THEN toClient \o <<current, current>> ELSE toClient
    /\ UNCHANGED <<starts, running, hPipe, open, current, stopVars, link, toServer, guiVars>>
WriteAnswer ==
    /\ Goto("handle", "flush") /\ mutex = "free"
    /\ mutex' = "thread"
    /\ toClient' = IF link = "up" THEN Append(toClient, current) ELSE toClient
    /\ UNCHANGED <<starts, running, hPipe, open, current, stopVars, link, toServer, guiVars>>

Flushed ==
    /\ Goto("flush", "loop") /\ (toClient = <<>> \/ link # "up")
    /\ mutex' = "free"
    /\ UNCHANGED <<starts, running, hPipe, open, current, stopVars, pipeVars, guiVars>>

\* A message that fills the buffer is refused; the answer is not flushed.
WriteTooLarge ==
    /\ Goto("handle", "loop") /\ mutex = "free"
    /\ toClient' = IF link = "up" THEN Append(toClient, current) ELSE toClient
    /\ UNCHANGED <<starts, running, hPipe, open, mutex, current, stopVars, link, toServer, guiVars>>

\* A request that is no JSON is answered without the mutex and without a flush.
WriteParseError ==
    /\ Goto("handle", "loop")
    /\ toClient' = IF link = "up" THEN Append(toClient, current) ELSE toClient
    /\ UNCHANGED <<starts, running, hPipe, open, mutex, current, stopVars, link, toServer, guiVars>>

\* The end of a client, and of a ConnectNamedPipe that failed: m_hPipe is cleared
\* under the mutex, the instance is disconnected (what is in it is lost) and closed.
\* Fault: m_hPipe keeps the closed handle.
CleanUpKeeps ==
    /\ Goto("clean", "check") /\ mutex = "free"
    /\ open' = open - 1
    /\ link' = IF link = "up" THEN "cut" ELSE IF link = "gone" THEN "off" ELSE link
    /\ toServer' = <<>> /\ toClient' = <<>>
    /\ UNCHANGED <<starts, running, hPipe, mutex, current, stopVars, guiVars>>
CleanUp ==
    /\ Goto("clean", "check") /\ mutex = "free"
    /\ hPipe' = FALSE /\ open' = open - 1
    /\ link' = IF link = "up" THEN "cut" ELSE IF link = "gone" THEN "off" ELSE link
    /\ toServer' = <<>> /\ toClient' = <<>>
    /\ UNCHANGED <<starts, running, mutex, current, stopVars, guiVars>>

-----------------------------------------------------------------------------
(* PipeServer::Stop, called while the service stops                         *)

StopBegins ==
    /\ Stops /\ stop = "no" /\ srv # "none"
    /\ running' = FALSE /\ stop' = "look"
    /\ UNCHANGED <<starts, srv, hPipe, open, mutex, current, saw, pipeVars, guiVars>>

StopLooks ==
    /\ stop = "look" /\ mutex = "free"
    /\ saw' = hPipe /\ stop' = "cancel"
    /\ UNCHANGED <<serverVars, pipeVars, guiVars>>

\* CancelIoEx: a blocking call the thread is in returns an error.
StopCancels ==
    /\ stop = "cancel" /\ stop' = "join"
    /\ srv' = CASE saw /\ srv \in {"connecting", "reading"} -> "clean"
                [] saw /\ srv = "flush" -> "loop"
                [] OTHER -> srv
    /\ mutex' = IF saw /\ srv = "flush" THEN "free" ELSE mutex
    /\ UNCHANGED <<starts, running, hPipe, open, current, saw, pipeVars, guiVars>>

StopJoins ==
    /\ stop = "join" /\ srv = "ended" /\ stop' = "close"
    /\ UNCHANGED <<serverVars, saw, pipeVars, guiVars>>

StopCloses ==
    /\ stop = "close" /\ mutex = "free"
    /\ hPipe' = FALSE /\ open' = IF hPipe THEN open - 1 ELSE open
    /\ stop' = "done"
    /\ UNCHANGED <<starts, running, srv, mutex, current, saw, pipeVars, guiVars>>

\* The process ends: Windows closes what is left.
ProcessEnds ==
    /\ stop = "done" /\ srv = "ended"
    /\ srv' = "none" /\ stop' = "no"
    /\ UNCHANGED <<starts, running, hPipe, open, mutex, current, saw, pipeVars, guiVars>>

-----------------------------------------------------------------------------
(* The GUI                                                                  *)

\* ConnectToServiceAsync: at the start of the GUI and by a button; the client can
\* open the pipe as soon as the instance exists.
Connect ==
    /\ link \in {"off", "cut"} /\ ~waiting /\ srv \in {"connect", "connecting"}
    /\ link' = "up" /\ toServer' = <<>> /\ toClient' = <<>>
    /\ shown' = "running"
    /\ UNCHANGED <<serverVars, stopVars, calls, waiting, got>>

ConnectFails ==
    /\ link # "up" /\ ~waiting /\ (link = "gone" \/ srv \notin {"connect", "connecting"})
    /\ link' = (IF link = "gone" THEN link ELSE "off") /\ shown' = "unavailable"
    /\ UNCHANGED <<serverVars, stopVars, toServer, toClient, calls, waiting, got>>

\* Call, for a poll or a command; the semaphore admits one at a time.  Without a
\* connection it returns null at once.
Call ==
    /\ ~waiting /\ calls < MaxCalls
    /\ calls' = calls + 1 /\ got' = Append(got, 0)
    /\ toServer' = IF link = "up" THEN Append(toServer, calls + 1) ELSE toServer
    /\ waiting' = (link = "up")
    /\ UNCHANGED <<serverVars, stopVars, link, toClient, shown>>

\* ReadMessageAsync returns whatever the pipe holds; the id in it is not looked at.
Receive ==
    /\ waiting /\ link = "up" /\ toClient # <<>>
    /\ got' = [got EXCEPT ![calls] = Head(toClient)]
    /\ toClient' = Tail(toClient)
    /\ waiting' = FALSE
    /\ UNCHANGED <<serverVars, stopVars, link, toServer, calls, shown>>

\* After 5 s Call returns null.  The pipe stays open.
TimesOut ==
    /\ Timeouts /\ waiting /\ link = "up" /\ toClient = <<>>
    /\ waiting' = FALSE
    /\ UNCHANGED <<serverVars, stopVars, pipeVars, calls, got, shown>>

\* The pipe is broken: Call returns null, and so does every later one, but the
\* event that tells the shell is raised by ConnectAsync and Disconnect only.
CallFails ==
    /\ waiting /\ link = "cut"
    /\ waiting' = FALSE
    /\ UNCHANGED <<serverVars, stopVars, pipeVars, calls, got, shown>>

\* Disconnect, when the GUI closes; it does not take the semaphore.
Disconnect ==
    /\ link \in {"up", "cut"}
    /\ link' = IF link = "up" /\ srv \in {"connect", "connecting"} THEN "gone" ELSE "off"
    /\ shown' = "unavailable" /\ waiting' = FALSE
    /\ UNCHANGED <<serverVars, stopVars, toServer, toClient, calls, got>>

-----------------------------------------------------------------------------
Thread == \/ CheckRunning \/ CreatePipe \/ EnterConnect \/ ClientConnected
          \/ CheckInLoop \/ EnterRead \/ ReadRequest \/ WriteAnswer \/ Flushed
          \/ CleanUp \/ (link # "up" /\ ReadFails)

Stopper == StopLooks \/ StopCancels \/ StopJoins \/ StopCloses \/ ProcessEnds

Client == Receive \/ CallFails

IpcNext ==
    \/ Start \/ Thread \/ CreateFails \/ ReadFails \/ WriteTooLarge \/ WriteParseError
    \/ StopBegins \/ Stopper
    \/ Connect \/ ConnectFails \/ Call \/ Client \/ TimesOut \/ Disconnect

IpcSpec == IpcInit /\ [][IpcNext]_ipcVars

\* Every thread that can run does run, and a client that waits reads.  Nothing
\* makes a client connect, send or leave, or CreateNamedPipe fail for ever.
IpcFairSpec ==
    /\ IpcSpec /\ WF_ipcVars(Thread) /\ SF_ipcVars(CreatePipe)
    /\ WF_ipcVars(Stopper) /\ WF_ipcVars(Client)

-----------------------------------------------------------------------------
(* Properties                                                               *)

TypeOK ==
    /\ starts \in 0 .. MaxStarts /\ running \in BOOLEAN
    /\ srv \in {"none", "check", "create", "connect", "connecting", "loop", "read",
                "reading", "handle", "flush", "clean", "ended"}
    /\ hPipe \in BOOLEAN /\ open \in 0 .. 1
    /\ mutex \in {"free", "thread"} /\ current \in 0 .. MaxCalls
    /\ stop \in {"no", "look", "cancel", "join", "close", "done"} /\ saw \in BOOLEAN
    /\ link \in {"off", "up", "cut", "gone"}
    /\ toServer \in Seq(1 .. MaxCalls) /\ toClient \in Seq(1 .. MaxCalls)
    /\ calls \in 0 .. MaxCalls /\ waiting \in BOOLEAN
    /\ got \in Seq(0 .. MaxCalls) /\ Len(got) = calls
    /\ shown \in {"running", "unavailable"}

\* The instance is closed exactly once, by the thread or by Stop, in whatever
\* order client, thread and Stop come to it: the handle in m_hPipe is one that
\* is open, and none is left when Stop is done.
HandleClosedOnce ==
    /\ open = (IF srv \in {"none", "check", "create", "ended"} THEN 0 ELSE 1)
    /\ hPipe <=> open = 1

\* However late an answer is, a Call never returns one that another Call has
\* returned already, nor do answers change their order.
AnswersInOrder ==
    \A k \in 1 .. Len(got) :
        /\ got[k] <= k
        /\ \A j \in 1 .. k - 1 : got[k] # 0 => got[j] < got[k]

\* Each Call returns the answer to its own request, or null.
AnswersMatch == \A k \in 1 .. Len(got) : got[k] \in {0, k}

\* "after a client disconnects, a new pipe instance is created automatically so
\* the GUI can reconnect".
ServesNextClient ==
    (srv \notin {"none", "ended"} /\ link # "up")
        ~> ((srv \in {"connect", "connecting"} /\ link # "gone") \/ link = "up" \/ ~running)

\* "Cancel any pending I/O on the pipe handle so PipeThread can exit": Stop
\* returns.
StopReturns == stop # "no" ~> stop = "no"

\* The smoke test: when the service has been stopped the GUI shows that it is
\* unavailable.
LossIsShown == link = "cut" ~> (link # "cut" \/ shown = "unavailable")
=============================================================================
