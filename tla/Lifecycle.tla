----------------------------- MODULE Lifecycle -----------------------------
(***************************************************************************)
(* The life of the service process: ServiceMain's thread (Initialize, Run),*)
(* the control handler on the dispatcher's thread (Stop), the pipe's       *)
(* thread (capture_start, capture_stop, reload_config), the capture's      *)
(* thread, the connections' threads, and the destruction of the service    *)
(* object after main has returned.                                         *)
(*                                                                         *)
(* Relay, pipe and capture loop are modelled in detail elsewhere; here     *)
(* they are what the life cycle starts, stops and destroys.  The service   *)
(* control manager delivers a control only while the service's status is   *)
(* RUNNING, on the dispatcher's thread, and StartServiceCtrlDispatcher     *)
(* returns once the status is STOPPED (external).                          *)
(***************************************************************************)
EXTENDS Integers, Sequences

CONSTANT
    ConnThread   \* connection threads; one that has ended may stand for a new one

\* Whoever may call WinDivertCapture::Close.
Closer == {"handler", "ipc", "exit"}

VARIABLES
    status,      \* the status last reported to the control manager
    main,        \* ServiceMain's thread
    handler,     \* ServiceControlHandlerEx
    m_running,   \* TcpRedirectorService: Run goes on
    capture,     \* m_capture: its m_running, its handle, its thread
    closing,     \* where each caller of Close is
    ipc,         \* the pipe's thread
    pipeRunning, \* PipeServer::m_running
    relay,       \* the relay server: off, on, stopped
    conn,        \* the provider each connection thread calls (-1: it does not run)
    provider,    \* m_authProvider (0: none)
    exit,        \* the part whose destructor runs next
    raced,       \* history: the races that have happened
    crashed      \* history: std::terminate, or a call through a null pointer

vars == <<status, main, handler, m_running, capture, closing, ipc, pipeRunning,
          relay, conn, provider, exit, raced, crashed>>

Init ==
    /\ status = "start_pending" /\ main = "load" /\ handler = "idle"
    /\ m_running = FALSE
    /\ capture = [run |-> FALSE, handle |-> "none", thread |-> "none"]
    /\ closing = [t \in Closer |-> "none"]
    /\ ipc = "none" /\ pipeRunning = FALSE
    /\ relay = "off" /\ conn = [c \in ConnThread |-> -1] /\ provider = 0
    /\ exit = "no" /\ raced = {} /\ crashed = FALSE

\* The process exists: every step of a thread needs it.
Alive == exit # "gone" /\ ~crashed

-----------------------------------------------------------------------------
(* WinDivertCapture::Open and Close, and the end of CaptureLoop             *)

\* Returns true at once while m_running is set.  It may fail without the library,
\* or with INVALID_HANDLE_VALUE in m_handle.  Assigning to a std::thread that is
\* joinable terminates the process.
OpenFails ==
    /\ capture' \in {capture, [capture EXCEPT !.handle = "invalid"]}
    /\ UNCHANGED crashed
OpenSucceeds ==
    /\ capture' = [run |-> TRUE, handle |-> "open", thread |-> "run"]
    /\ crashed' = (crashed \/ capture.thread # "none")
\* Fault: Open looks at the handle and not at m_running, after WinDivertShutdown.
OpenUnguarded == OpenFails \/ OpenSucceeds
Open ==
    \/ capture.run /\ UNCHANGED <<capture, crashed>>
    \/ ~capture.run /\ (OpenFails \/ OpenSucceeds)

\* The callers of Close: Stop, capture_stop if IsOpen, and the destructor.
Calls(t) ==
    CASE t = "handler" -> handler = "capture"
      [] t = "ipc"     -> ipc = "stop" /\ capture.run
      [] t = "exit"    -> exit = "capture"

Returned(t) == closing[t] = "done" /\ closing' = [closing EXCEPT ![t] = "none"]

\* m_running = false and WinDivertShutdown ...
\* Fault: the handle is only closed, after the join.
CloseShutdownNot(t) ==
    /\ Alive /\ Calls(t) /\ closing[t] = "none"
    /\ capture' = [capture EXCEPT !.run = FALSE]
    /\ closing' = [closing EXCEPT ![t] = "join"]
    /\ UNCHANGED <<status, main, handler, m_running, ipc, pipeRunning, relay, conn,
                   provider, exit, raced, crashed>>
CloseShutdown(t) ==
    /\ Alive /\ Calls(t) /\ closing[t] = "none"
    /\ capture' = [capture EXCEPT !.run = FALSE,
                                  !.handle = IF @ = "open" THEN "shut" ELSE @]
    /\ closing' = [closing EXCEPT ![t] = "join"]
    /\ UNCHANGED <<status, main, handler, m_running, ipc, pipeRunning, relay, conn,
                   provider, exit, raced, crashed>>

\* ... then the thread is joined if it is joinable (two joins of one thread are
\* undefined) ...
CloseJoin(t) ==
    /\ Alive /\ closing[t] = "join" /\ capture.thread # "run"
    /\ capture' = [capture EXCEPT !.thread = "none"]
    /\ crashed' = \/ crashed
                  \/ capture.thread # "none" /\ \E u \in Closer \ {t} : closing[u] = "join"
    /\ closing' = [closing EXCEPT ![t] = "close"]
    /\ UNCHANGED <<status, main, handler, m_running, ipc, pipeRunning, relay, conn,
                   provider, exit, raced>>

\* ... and the handle closed and the library unloaded, under a capture thread
\* if there is one again.
CloseHandle(t) ==
    /\ Alive /\ closing[t] = "close"
    /\ capture' = [capture EXCEPT !.handle = "none"]
    /\ crashed' = (crashed \/ capture.thread = "run")
    /\ closing' = [closing EXCEPT ![t] = "done"]
    /\ UNCHANGED <<status, main, handler, m_running, ipc, pipeRunning, relay, conn,
                   provider, exit, raced>>

\* WinDivertRecv returns when a packet comes or the handle was shut down; the
\* loop is left when m_running is false, when the queue is shut down, and
\* without memory for the packet.  m_running stays as it is.
CaptureLoopEnds ==
    /\ Alive /\ capture.thread = "run"
    /\ capture' = [capture EXCEPT !.thread = "done"]
    /\ UNCHANGED <<status, main, handler, m_running, closing, ipc, pipeRunning, relay,
                   conn, provider, exit, raced, crashed>>

-----------------------------------------------------------------------------
(* ServiceMain: Initialize and Run                                          *)

\* The configuration, and a Kerberos provider if authentication is enabled:
\* authMode is never read from the file and stays KerberosPreferred.
Load ==
    /\ Alive /\ main = "load"
    /\ main' = "relay"
    /\ provider' \in {0, 1}
    /\ UNCHANGED <<status, handler, m_running, capture, closing, ipc, pipeRunning,
                   relay, conn, exit, raced, crashed>>

\* A relay that does not start is logged, no more.
StartRelay ==
    /\ Alive /\ main = "relay"
    /\ main' = "open"
    /\ relay' \in {"on", "off"}
    /\ UNCHANGED <<status, handler, m_running, capture, closing, ipc, pipeRunning,
                   conn, provider, exit, raced, crashed>>

OpenCapture ==
    /\ Alive /\ main = "open"
    /\ Open
    /\ main' = IF capture'.run THEN "pipe" ELSE "failed"
    /\ UNCHANGED <<status, handler, m_running, closing, ipc, pipeRunning, relay,
                   conn, provider, exit, raced>>

\* ServiceMain reports STOPPED and returns; nothing is stopped.
InitializeFails ==
    /\ Alive /\ main = "failed"
    /\ main' = "ended" /\ status' = "stopped"
    /\ UNCHANGED <<handler, m_running, capture, closing, ipc, pipeRunning, relay,
                   conn, provider, exit, raced, crashed>>

StartPipe ==
    /\ Alive /\ main = "pipe"
    /\ main' = "report"
    /\ ipc' = "check" /\ pipeRunning' = TRUE
    /\ UNCHANGED <<status, handler, m_running, capture, closing, relay, conn,
                   provider, exit, raced, crashed>>

\* The thread cannot be created: the exception is caught in ServiceMain.
StartPipeThrows ==
    /\ Alive /\ main = "pipe"
    /\ main' = "failed"
    /\ pipeRunning' = TRUE
    /\ raced' = raced \cup {"thrown"}
    /\ UNCHANGED <<status, handler, m_running, capture, closing, ipc, relay, conn,
                   provider, exit, crashed>>

ReportRunning ==
    /\ Alive /\ main = "report"
    /\ main' = "run" /\ status' = "running"
    /\ UNCHANGED <<handler, m_running, capture, closing, ipc, pipeRunning, relay,
                   conn, provider, exit, raced, crashed>>

Run ==
    /\ Alive /\ main = "run"
    /\ main' = "loop" /\ m_running' = TRUE
    /\ UNCHANGED <<status, handler, capture, closing, ipc, pipeRunning, relay,
                   conn, provider, exit, raced, crashed>>

\* The loop polls m_running once a second.
RunEnds ==
    /\ Alive /\ main = "loop" /\ ~m_running
    /\ main' = "final"
    /\ UNCHANGED <<status, handler, m_running, capture, closing, ipc, pipeRunning,
                   relay, conn, provider, exit, raced, crashed>>

ReportStopped ==
    /\ Alive /\ main = "final"
    /\ main' = "ended" /\ status' = "stopped"
    /\ UNCHANGED <<handler, m_running, capture, closing, ipc, pipeRunning, relay,
                   conn, provider, exit, raced, crashed>>

-----------------------------------------------------------------------------
(* ServiceControlHandlerEx and Stop                                         *)

Early == IF main = "run" THEN {"early"} ELSE {}

\* SERVICE_CONTROL_INTERROGATE answers from m_running.
Interrogate ==
    /\ Alive /\ status = "running" /\ handler = "idle"
    /\ status' = IF m_running THEN "running" ELSE "stopped"
    /\ raced' = raced \cup Early
    /\ UNCHANGED <<main, handler, m_running, capture, closing, ipc, pipeRunning,
                   relay, conn, provider, exit, crashed>>

ControlStop ==
    /\ Alive /\ status = "running" /\ handler = "idle"
    /\ handler' = "check" /\ status' = "stop_pending"
    /\ raced' = raced \cup Early
    /\ UNCHANGED <<main, m_running, capture, closing, ipc, pipeRunning, relay, conn,
                   provider, exit, crashed>>

\* The order of Stop (M11).
\* Fault: the order before M11, capture last.
StopOrderOld == <<"pipe", "relay", "capture">>
StopOrder == <<"capture", "pipe", "relay">>

After(stage) ==
    IF stage = StopOrder[Len(StopOrder)] THEN "report"
    ELSE LET i == CHOOSE i \in 1 .. Len(StopOrder) : StopOrder[i] = stage
         IN  StopOrder[i + 1]

Overlap == IF ipc \in {"start", "stop"} THEN {"overlap"} ELSE {}

\* if (!m_running) return; m_running = false.
StopCheck ==
    /\ Alive /\ handler = "check"
    /\ IF m_running
       THEN /\ handler' = StopOrder[1] /\ m_running' = FALSE
            /\ raced' = raced \cup Overlap
       ELSE handler' = "report" /\ UNCHANGED <<m_running, raced>>
    /\ UNCHANGED <<status, main, capture, closing, ipc, pipeRunning, relay, conn,
                   provider, exit, crashed>>

StopCapture ==
    /\ Alive /\ handler = "capture" /\ Returned("handler")
    /\ handler' = After("capture")
    /\ UNCHANGED <<status, main, m_running, capture, ipc, pipeRunning, relay, conn,
                   provider, exit, raced, crashed>>

\* PipeServer::Stop: the flag ...
StopPipe ==
    /\ Alive /\ handler = "pipe"
    /\ handler' = "cancel" /\ pipeRunning' = FALSE
    /\ UNCHANGED <<status, main, m_running, capture, closing, ipc, relay, conn,
                   provider, exit, raced, crashed>>

\* ... m_pipeMutex, which the pipe's thread holds until the client has read its
\* answer, and CancelIoEx, which reaches the thread only if it waits already ...
CancelPipe ==
    /\ ipc # "flush"
    /\ ipc' = IF ipc = "wait" THEN "check" ELSE ipc
    /\ raced' = raced \cup (IF ipc = "enter" THEN {"missed"} ELSE {})

StopPipeCancel ==
    /\ Alive /\ handler = "cancel"
    /\ handler' = "join"
    /\ CancelPipe
    /\ UNCHANGED <<status, main, m_running, capture, closing, pipeRunning, relay, conn,
                   provider, exit, crashed>>

\* ... and the join.
PipeJoined == ipc \in {"none", "ended"}

\* Fault: the pipe's thread is detached.
StopPipeDetach ==
    /\ Alive /\ handler = "join"
    /\ handler' = After("pipe")
    /\ UNCHANGED <<status, main, m_running, capture, closing, ipc, pipeRunning, relay,
                   conn, provider, exit, raced, crashed>>
StopPipeJoin ==
    /\ Alive /\ handler = "join" /\ PipeJoined
    /\ handler' = After("pipe")
    /\ UNCHANGED <<status, main, m_running, capture, closing, ipc, pipeRunning, relay,
                   conn, provider, exit, raced, crashed>>

\* No connection thread runs.
NoConns == \A c \in ConnThread : conn[c] = -1

\* TcpRelayServer::Stop waits five seconds for connections to end.
RelayStops ==
    /\ relay' = IF relay = "on" THEN "stopped" ELSE relay
    /\ raced' = raced \cup (IF NoConns THEN {} ELSE {"lingering"})

\* Relay, connection table, proxy engine, logger.
StopRelay ==
    /\ Alive /\ handler = "relay"
    /\ handler' = After("relay")
    /\ RelayStops
    /\ UNCHANGED <<status, main, m_running, capture, closing, ipc, pipeRunning, conn,
                   provider, exit, crashed>>

StopReport ==
    /\ Alive /\ handler = "report"
    /\ handler' = "idle" /\ status' = "stopped"
    /\ UNCHANGED <<main, m_running, capture, closing, ipc, pipeRunning, relay, conn,
                   provider, exit, raced, crashed>>

-----------------------------------------------------------------------------
(* The pipe's thread                                                        *)

\* while (m_running) ...
PipeCheck ==
    /\ Alive /\ ipc = "check"
    /\ ipc' = IF pipeRunning THEN "enter" ELSE "ended"
    /\ UNCHANGED <<status, main, handler, m_running, capture, closing, pipeRunning,
                   relay, conn, provider, exit, raced, crashed>>

\* ... ConnectNamedPipe or ReadFile begins to wait.
PipeWaits ==
    /\ Alive /\ ipc = "enter"
    /\ ipc' = "wait"
    /\ UNCHANGED <<status, main, handler, m_running, capture, closing, pipeRunning,
                   relay, conn, provider, exit, raced, crashed>>

Stopping == handler # "idle" \/ exit # "no"

\* One of the three requests that change something here, or another one, which is
\* answered at once.
Kind == {"start", "stop", "reload", "answer"}
Request(kind) ==
    /\ Alive /\ ipc = "wait"
    /\ ipc' = kind
    /\ raced' = raced \cup (IF Stopping /\ kind \in {"start", "stop"} THEN {"overlap"} ELSE {})
    /\ UNCHANGED <<status, main, handler, m_running, capture, closing, pipeRunning,
                   relay, conn, provider, exit, crashed>>

\* capture_start: `already open' is a success.
CaptureStart ==
    /\ Alive /\ ipc = "start"
    /\ Open
    /\ ipc' = "answer"
    /\ UNCHANGED <<status, main, handler, m_running, closing, pipeRunning, relay,
                   conn, provider, exit, raced>>

\* capture_stop: Close is called if the capture is open ...
CaptureIsClosed ==
    /\ Alive /\ ipc = "stop" /\ closing["ipc"] = "none" /\ ~capture.run
    /\ ipc' = "answer"
    /\ UNCHANGED <<status, main, handler, m_running, capture, closing, pipeRunning,
                   relay, conn, provider, exit, raced, crashed>>

\* ... and returns.
CaptureStop ==
    /\ Alive /\ ipc = "stop" /\ Returned("ipc")
    /\ ipc' = "answer"
    /\ UNCHANGED <<status, main, handler, m_running, capture, pipeRunning, relay,
                   conn, provider, exit, raced, crashed>>

\* reload_config: a provider is made if the configuration enables authentication
\* and there is none of the Kerberos kind.
Reload ==
    /\ Alive /\ ipc = "reload"
    /\ provider' \in IF provider = 0 THEN {0, 1} ELSE {provider}
    /\ ipc' = "answer"
    /\ UNCHANGED <<status, main, handler, m_running, capture, closing, pipeRunning,
                   relay, conn, exit, raced, crashed>>

\* The answer is written and flushed under m_pipeMutex ...
PipeAnswers ==
    /\ Alive /\ ipc = "answer"
    /\ ipc' = "flush"
    /\ UNCHANGED <<status, main, handler, m_running, capture, closing, pipeRunning,
                   relay, conn, provider, exit, raced, crashed>>

\* ... until the client has read it or is gone.
ClientReads ==
    /\ Alive /\ ipc = "flush"
    /\ ipc' = "check"
    /\ UNCHANGED <<status, main, handler, m_running, capture, closing, pipeRunning,
                   relay, conn, provider, exit, raced, crashed>>

-----------------------------------------------------------------------------
(* The connections' threads                                                 *)

\* The relay accepts only what the capture has redirected; a thread calls the
\* provider it finds.
ConnBegins(c) ==
    /\ Alive /\ conn[c] = -1 /\ relay = "on" /\ capture.thread = "run"
    /\ conn' = [conn EXCEPT ![c] = provider]
    /\ UNCHANGED <<status, main, handler, m_running, capture, closing, ipc,
                   pipeRunning, relay, provider, exit, raced, crashed>>

ConnEnds(c) ==
    /\ Alive /\ conn[c] # -1
    /\ conn' = [conn EXCEPT ![c] = -1]
    /\ UNCHANGED <<status, main, handler, m_running, capture, closing, ipc,
                   pipeRunning, relay, provider, exit, raced, crashed>>

-----------------------------------------------------------------------------
(* main returns: ~TcpRedirectorService                                      *)

\* The members are destroyed, last declared first.
DestroyOrder ==
    <<"provider", "relay", "table", "pipe", "cancel", "join", "capture", "rest", "gone">>

Later(part) ==
    DestroyOrder[1 + CHOOSE i \in 1 .. Len(DestroyOrder) : DestroyOrder[i] = part]

\* Stop, if m_running is set after all ...
DispatcherReturns ==
    /\ Alive /\ exit = "no" /\ status = "stopped" /\ handler = "idle"
    /\ exit' = "provider"
    /\ handler' = IF m_running THEN StopOrder[1] ELSE handler
    /\ m_running' = FALSE
    /\ raced' = raced \cup Overlap
    /\ UNCHANGED <<status, main, capture, closing, ipc, pipeRunning, relay, conn,
                   provider, crashed>>

\* ... and the members.
DestroyProvider ==
    /\ Alive /\ exit = "provider" /\ handler = "idle"
    /\ exit' = Later(exit) /\ provider' = 0
    /\ UNCHANGED <<status, main, handler, m_running, capture, closing, ipc,
                   pipeRunning, relay, conn, raced, crashed>>

\* ~TcpRelayServer calls Stop, ~PipeServer and ~WinDivertCapture theirs.
DestroyRelay ==
    /\ Alive /\ exit = "relay"
    /\ exit' = Later(exit)
    /\ RelayStops
    /\ UNCHANGED <<status, main, handler, m_running, capture, closing, ipc,
                   pipeRunning, conn, provider, crashed>>

DestroyPipe ==
    /\ Alive /\ exit = "pipe"
    /\ exit' = Later(exit) /\ pipeRunning' = FALSE
    /\ UNCHANGED <<status, main, handler, m_running, capture, closing, ipc, relay, conn,
                   provider, raced, crashed>>

DestroyPipeCancel ==
    /\ Alive /\ exit = "cancel"
    /\ exit' = Later(exit)
    /\ CancelPipe
    /\ UNCHANGED <<status, main, handler, m_running, capture, closing, pipeRunning,
                   relay, conn, provider, crashed>>

DestroyPart ==
    /\ Alive /\ exit \in {"table", "join", "rest"}
    /\ exit = "join" => PipeJoined
    /\ exit' = Later(exit)
    /\ UNCHANGED <<status, main, handler, m_running, capture, closing, ipc,
                   pipeRunning, relay, conn, provider, raced, crashed>>

DestroyCapture ==
    /\ Alive /\ exit = "capture" /\ Returned("exit")
    /\ exit' = Later(exit)
    /\ UNCHANGED <<status, main, handler, m_running, capture, ipc, pipeRunning, relay,
                   conn, provider, raced, crashed>>

-----------------------------------------------------------------------------
ServiceMain ==
    \/ Load \/ StartRelay \/ OpenCapture \/ InitializeFails \/ StartPipe
    \/ StartPipeThrows \/ ReportRunning \/ Run \/ RunEnds \/ ReportStopped

Stop ==
    \/ StopCheck \/ StopCapture \/ StopPipe \/ StopPipeCancel \/ StopPipeJoin
    \/ StopRelay \/ StopReport

Close(t) == CloseShutdown(t) \/ CloseJoin(t) \/ CloseHandle(t)

PipeThread ==
    \/ PipeCheck \/ PipeWaits \/ CaptureStart \/ CaptureIsClosed \/ CaptureStop \/ Reload
    \/ PipeAnswers

Destroy ==
    \/ DispatcherReturns \/ DestroyProvider \/ DestroyRelay \/ DestroyPipe
    \/ DestroyPipeCancel \/ DestroyPart \/ DestroyCapture

Next ==
    \/ ServiceMain \/ Interrogate \/ ControlStop \/ Stop
    \/ \E t \in Closer : Close(t)
    \/ PipeThread \/ ClientReads \/ \E kind \in Kind : Request(kind)
    \/ CaptureLoopEnds
    \/ \E c \in ConnThread : ConnBegins(c) \/ ConnEnds(c)
    \/ Destroy

Spec == Init /\ [][Next]_vars

\* Threads that are not blocked go on; a capture thread blocked in WinDivertRecv
\* goes on once the handle was shut down.  Nobody has to send a control, a
\* request or a packet, no client has to read, and no connection has to end.
Fairness ==
    /\ WF_vars(ServiceMain) /\ WF_vars(Stop)
    /\ \A t \in Closer : WF_vars(Close(t))
    /\ WF_vars(PipeThread) /\ WF_vars(Destroy)
    /\ WF_vars(capture.handle # "open" /\ CaptureLoopEnds)

FairSpec == Spec /\ Fairness

-----------------------------------------------------------------------------
(* Properties                                                               *)

\* Packets are redirected to the relay's port only while the relay has not been
\* stopped (the order of Stop, M11), unless capture requests overlap the stop or
\* Initialize ended by an exception.
CaptureNeedsRelay ==
    relay = "stopped" /\ raced \cap {"early", "overlap", "thrown"} = {} => capture.thread # "run"

\* No joinable capture thread is overwritten, none is joined twice and the library
\* is not unloaded under one, whatever requests and failures come before the stop.
CaptureCallsMatch == "overlap" \notin raced => ~crashed

\* What is destroyed at exit is not in use: no connection still calls the provider,
\* the capture no longer writes the table, the pipe's thread no longer calls the
\* relay, and ServiceMain no longer initializes.  Also after an Initialize that
\* returned false, which stops nothing.  And no reload frees the provider a
\* connection calls by making another one in its place.
Destroyed(part) ==
    \E i, j \in 1 .. Len(DestroyOrder) :
        DestroyOrder[i] = part /\ DestroyOrder[j] = exit /\ i < j
FreedUnused ==
    /\ \A c \in ConnThread : conn[c] > 0 /\ ~Destroyed("provider") => conn[c] = provider
    /\ raced \cap {"early", "overlap", "lingering", "thrown"} = {} =>
        /\ Destroyed("provider") => NoConns
        /\ Destroyed("table") => NoConns /\ capture.thread # "run"
        /\ Destroyed("relay") => ipc \in {"none", "ended"}
        /\ Destroyed("provider") => main \in {"loop", "final", "ended"}

\* A stop ends the process, whatever state the capture is in, even if no packet
\* arrives any more and however many requests come - if every client reads its
\* answers or leaves: Stop waits for m_pipeMutex, and an answer nobody reads is
\* flushed under it for ever.  Two races can also keep it from ending:
\* PipeServer::Stop misses its thread (module Ipc), and a capture_start between the
\* first and the second step of Close, which then joins a thread nobody stops.
StopEnds ==
    []<>(ipc # "flush") =>
        (status = "stop_pending" ~> exit = "gone" \/ raced \cap {"missed", "overlap"} # {})

\* "Cancel any pending I/O on the pipe handle so PipeThread can exit" (PipeServer.h):
\* the same, whatever the client does.
StopAlwaysEnds ==
    status = "stop_pending" ~> exit = "gone" \/ raced \cap {"missed", "overlap"} # {}

\* "1. Stop packet capture (no new packets will be processed)": after it the
\* capture stays closed.
CaptureStaysClosed ==
    handler \in {"pipe", "cancel", "join", "relay", "report"} => ~capture.run

\* A service whose status is STOPPED has stopped: the next process finds the
\* relay's port and the pipe free.
StoppedMeansStopped ==
    status = "stopped" /\ main # "failed" => relay # "on" /\ ipc \in {"none", "ended"}

\* A control that arrives as soon as RUNNING is reported stops the service.
StopIsFinal == status = "stopped" => ~m_running
=============================================================================
