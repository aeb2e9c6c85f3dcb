# TcpRedirector: TLA+ models, checks and proofs

TcpRedirector sends the TCP connections of chosen Windows processes through an
HTTP proxy. A service captures packets with WinDivert, redirects the chosen ones
to a relay in the same process, and the relay opens an HTTP CONNECT tunnel to the
proxy, with Basic or Kerberos authentication. Kerberos tokens come from an agent
process in the user's session. A GUI configures the service over a named pipe. A
kernel driver and a hook DLL are alternative ways to redirect.

Paths below are relative to `src/service/TcpRedirectorService/` unless they name
another top directory of the repository's `src/`.

## 1. Inventory

| component | state | operations | talks to |
|---|---|---|---|
| Packet capture, `infrastructure/capture/WinDivertCapture.{h,cpp}` | bitmaps of decided and direct ports, PID cache, target PID, running flag | `Open`, `Close`, `CaptureLoop` (4 steps per packet), `CheckProcessRule`, `SetProxyConfig` | connection table, monitor, rule engine |
| Connection table, `infrastructure/relay/ConnectionTable.h` | hash table by source port, count of entries | `Add`, `Get`, `IsTracked`, `Remove`, `SetProcessInfo`, `AddBytes` | written by the capture thread, read by the relay's accept thread |
| Relay, `infrastructure/relay/TcpRelayServer.h` | listening sockets, running flag, `m_activePairs`, byte counters, `m_lastAuthToken`; per connection two sockets, a context, a reference-counted pair | `Start`, `AcceptLoop`, `HandleNewConnection`, `ConnectionHandler`, `StartBridge`, `OneWayRelay`, `Stop` | table, authentication provider, monitor, proxy |
| Kerberos provider, `infrastructure/auth/KerberosAgentProvider.cpp` | pipe handle, `m_connected`, mutex, launch flag and time | `CreateContext`, `ContinueContext`, `CloseContext`, keepalive, connect, launch | agent, over a message pipe |
| Basic provider, `infrastructure/auth/BasicAuthenticationProvider.cpp` | the encoded password | `CreateContext` | relay |
| Agent, `auth-agent/TcpRedirectorAuthAgent/` | store of SSPI contexts by id | `create_context`, `continue_context`, `close_context`, `ping`, expiry | provider, SSPI |
| Rule engine, `domain/services/RuleEngine.h` | sorted rules | `SetRules`, `Match` | capture, life cycle |
| Monitor, `domain/services/ConnectionTracker.h` | records by id, error count | add, update, remove | capture, relay, IPC |
| Life cycle, `adapters/driving/ServiceMain.h`, `main.cpp` | status, running flag, the provider; owns the rest | `Initialize`, `Run`, `Stop`, control handler, capture control, reload, destruction | everything |
| IPC, `infrastructure/ipc/PipeServer.h`, `adapters/driving/IpcHandler.h` | one pipe instance, its mutex, running flag | accept, read, dispatch, answer, `Stop` | GUI, life cycle, configuration |
| Configuration, `infrastructure/config/ConfigManager.cpp` | configuration and rules, a JSON file | load, set, save by temporary file and rename | IPC, life cycle |
| Logger and rotation, `infrastructure/logging/` | queue, writer thread, file and backups, ring | `Log`, `WriterLoop`, rotation by size and schedule, `GetRecentEntries`, `Shutdown` | everything |
| Driver, `driver/TcpRedirectorDriver/` | redirect queue, rule list, counters, event | load, unload, classify callout, device requests | programs that open its device; nothing in the repository does |
| GUI, `gui/TcpRedirectorGUI/` | form, connection state | `Call`, load, save, reload | IPC, the JSON file |

What is hard here:

* **ports are reused.** The capture knows a connection by its source port only, in
  four places (bitmaps, table, PID cache, monitor) with four lifetimes, while the
  system reuses ports and lists sockets late.
* **many exits.** A connection thread has a dozen ways out of the negotiation, two
  nested retry loops, and up to five things to give back at each exit.
* **two threads, one pair.** Each bridge's threads end in either order, by FIN,
  reset or error, and the last one frees what both use; `Stop` runs beside them.
* **another process.** The agent can die between any two steps of the provider, or
  drop the service and keep what it stored.
* **peers that do nothing.** A bridge has no send timeout and an answer on the GUI's
  pipe is flushed under a mutex: a peer that does not read blocks whoever writes.
* **stopping.** Control handler, pipe thread, capture thread and connection threads
  are all running when `Stop` is called, and the members are destroyed afterwards;
  `CancelIoEx` ends only a call that has begun; a wake-up between a test and a wait
  is lost unless both are under the lock.
* **four copies of the settings.** File, service memory, parts in use and form are
  updated in separate steps, each of which may fail or be the last before a crash.
* **kernel concurrency.** The callout runs on every processor while programs read
  the queue and replace the rules, and loading may fail at each of its steps.

`PROJECT.json` lists these as hazards, each at its line.

## 2. Modules

| module | models | lines |
|---|---|---|
| `ConnectionTable` | the table as a value: buckets are sequences, the head is searched first | `ConnectionTable.h` |
| `Redirection` | abstract: what the capture promises to a connection | |
| `Capture` | the packet loop, one action for each way a packet can take through the four steps; the sockets, the system's TCP table and the relay's end are the environment; `KeepsItsWay` says that it implements `Redirection` | `WinDivertCapture.{h,cpp}` |
| `ConnectHandler` | a connection thread from accept to bridge; steps end where the thread blocks or touches shared state | `TcpRelayServer.h` 211-570 |
| `RelayServer` | start, accept loop, bridges, stop; the negotiation is one step that succeeds or fails | `TcpRelayServer.h` 78-242, 572-711, `ProxyEngine.h` 368-390 |
| `KerberosAgent` | the provider's threads, the pipe, the agent's store and requests | `KerberosAgentProvider.cpp`, agent's `main.cpp`, `ContextStore.cpp` |
| `Lifecycle` | the service process: `Initialize` and its failures, `Run`, `Stop` on the dispatcher's thread, capture control and reload on the pipe's thread, the destructors in member order | `ServiceMain.h`, `main.cpp`, `Open` and `Close` of the capture |
| `Ipc` | the pipe's thread, its `Stop`, and the GUI's calls with their 5 s limit | `PipeServer.h`, `IpcHandler.h`, `IpcClient.cs` |
| `Settings` | the four copies of the settings, the steps of a save, reload, death and restart of the service | `ConfigManager.cpp`, `IpcHandler.h`, `SettingsViewModel.cs`, `JsonConfigRepository.cs` |
| `Logger` | callers, writer, both kinds of rotation, ring, shutdown | `Logger.cpp`, `LogRotator.cpp` |
| `RedirectFifo` | abstract: what the driver's queue promises to its readers | |
| `Driver` | loading, the callout, the queue, the rules, the device requests; `QueueIsFifo` says that it implements `RedirectFifo` | `driver/TcpRedirectorDriver/` |
| `MCCapture`, `MCConnectHandler`, `MCDriver`, `MCSettings` | constants for TLC: a process tree, rule sets, which thread finds which provider | |
| `CaptureProofs`, `ConnectHandlerProofs`, `RelayServerProofs`, `KerberosAgentProofs`, `ServiceProofs` (about `Ipc` and `Lifecycle`), `SettingsProofs`, `LoggerProofs`, `DriverProofs` | theorems and proofs | |

Variables carry the name of the member or local they stand for in a comment;
actions carry the name of the method, or of the method and the branch. Operators
commented `Fault:` are plausible mistakes, one for each property: put in the place
of the definition that follows them they make that property fail.

`Lifecycle` is the composition: capture, relay, pipe and connection are in it with
the states that starting, stopping and destroying them distinguish, and what they
do in between is in their own modules. `Ipc` delivers requests; what the requests
do is in `Settings` and `Lifecycle`.

Abstractions that matter:

* *Capture.* A packet is a port and whether it has FIN or RST. Rewriting its header
  is "goes to the relay" or "is restored". The rules are what `Match` answers for
  each process. A row of the system's TCP table may be missing, owned, or a
  TIME_WAIT row with PID 0. The environment forgets a connection when its port is
  released; the relay may send at any time while it has a socket.
* *ConnectHandler.* An answer of the proxy is the branch it selects. A thread finds
  the same provider throughout its life; that no reload replaces one under a
  connection is `FreedUnused` of `Lifecycle`. Contexts are named by thread and
  gateway attempt. `CloseContext` returns nothing and may fail without a word
  (`KerberosAgentProvider.cpp:112-122`); `asked` records the calls, and a context left
  behind goes when the agent's time limit comes.
* *RelayServer.* What one `recv` returns is a chunk of two parts, so that a `send`
  can be partial. A peer may stop reading for good with its connection open; a `send` to
  it does not return. `winsock` counts the references: `Start` takes one and, in a
  service that initialised its proxy engine, the engine holds another until
  `ProxyEngine::Shutdown` (`ServiceMain.h:352`); only when the last one is given up does
  every blocked call fail. An exception in the UP thread would end the process and is
  left out; one in DN is an action.
* *KerberosAgent.* The agent dies, and its store with it, or an exception outside the
  `try` of `HandleRequest` makes it drop its client and listen again with the store kept
  (`main.cpp:183-196`). Otherwise it answers (the pipe read has no timeout), and
  `ConnectToAgent`, which retries for five seconds, finds a listening agent. SSPI
  may fail at any call. Agents launched in excess wait as spares. `left` records the
  ids of the contexts whose closing or returning call failed.
* *Lifecycle.* The control manager delivers a control only in status RUNNING, on the
  dispatcher's thread, and `StartServiceCtrlDispatcher` returns after STOPPED
  (external). `raced` records which of the code's races has happened; the properties
  name the ones they exclude, and section 3 says what they do. The connection threads
  are the only constant, and there are no bounds: threads end and begin again. Every
  request ends in an answer that is flushed under `m_pipeMutex` until the client has
  read it or left, and `Stop` and the destructor need that mutex to cancel.
* *Ipc.* A blocking call is two steps, entering and leaving. A request is its number,
  an answer the number of the request it answers.
* *Settings.* Port, password, level and rules stand for the sections they are read
  and written with. A file is missing, blank (`{ }`), empty (no bytes), garbled, full or
  torn. A death of the service keeps what was renamed and loses what was in memory.
  Requests and answers are two queues, and a call takes the first answer it finds; one
  that gives up after 5 s leaves its answer for the next. The form stays editable during
  a save. Left out: a second `SaveAsync` that `AddRule` or `DeleteRule` starts while one
  waits, the `set_log_level` of the level filter, which nobody waits for
  (`SettingsViewModel.cs:88`), and calls of other pages. The page's fields are read from
  the file one by one; the model reads them in one step.
* *Logger.* An entry is its number; sizes count entries. Any of the renames and removals
  of a rotation may fail (the code ignores their errors), and the scheduled one may also
  delete numbered backups (`DeleteOldArchives`).
* *Driver.* A section under a spin lock is one step, but for `Enqueue`, whose two
  increments are read without the lock and are two steps. A rule's pattern is the set of
  processes in whose name or path it occurs. A lookup finds the name or the path of a
  process or leaves it empty, with success (`RedirectService.c:312-320`); it may also fail
  altogether. That unloading waits for running
  callouts and open handles is the platform's (external).

## 3. Runs

Bounds are constants of the modules, named in their comments.

| run | result | shows |
|---|---|---|
| `capture_reuse` | holds | one port, two connections from it by any of four processes (the service, one with a rule, the target, an unreadable child of it) to two addresses, lagging TCP table, rules and proxy changing, one restart. `OneEntryPerPort`: `Add` keys by port and address, all lookups by port; still no port ever has two entries. `DirectIsUntracked`: bitmap and table never disagree. `CountExact`. `KeepsItsWay` (the refinement): a connection stays on the way chosen for it. |
| `capture_steady` | holds | two ports in one bucket, each used once, TCP table up to date: `OwnTrafficDirect`, `OpenRelayedIsTracked`, `RulesFollowed`. |
| `capture_dest` | violated | `OpenRelayedIsTracked` once a port is used again, see finding 1. |
| `handler_mixed` | holds | a Kerberos and a Basic thread, two gateway retries and six requests for each attempt, failing `recv`, closes that fail silently: `HandlesBalanced`, `ContextsClosed` (a context still at the agent is in use, or `CloseContext` was called for it), `AttemptsBounded`, `BasicSentOnce`, and `EveryClientServed` under fairness. |
| `relay` | holds | one connection, two chunks from each peer, partial sends, half-close, reset, a peer that stops reading, an exception in DN, `Stop` at any time, with and without the proxy engine's reference to Winsock: `HalfCloseLosesNothing`, `BytesAccounted`, `NothingLeaks` (unless DN threw), `NoUseAfterClose`, `BridgeEnds` (if its peers read), `StopReturns` (and what it leaves blocked ends with the last reference). |
| `agent` | holds | one connection thread, the keepalive thread, an agent that twice dies or drops its client: `AnswersMatch`, `NoOrphans` (a context is forgotten only by the call that failed to close or to return it), `CallsReturn`. |
| `agent_reconnect` | violated | finding 2 |
| `life` | holds | two connection threads, every interleaving of start, failures, requests, answers, stop and destruction: `CaptureNeedsRelay`, `CaptureCallsMatch`, `FreedUnused`, `StopEnds` (if the clients read). |
| `ipc_calls` | holds | three calls, late answers, two starts, stop and disconnection at any step: `HandleClosedOnce`, `AnswersInOrder`, `ServesNextClient`. |
| `settings_save` | holds | one save or reload, calls that time out, typing meanwhile, one edit of the file, the GUI's creation and reset of it, two faults (failed write or open, cut file, exception in a reload, death): `FileIsWhole` (but for a cut file, and the GUI creating it), `SavedSurvives` (on a pipe without late answers). |
| `logger` | holds | two callers, four entries, a file of two, a ring of three, rotations whose renames may fail, one scheduled rotation that may delete backups, `Shutdown` at any time: `EntriesAccounted`, `FileUsedOpen`, `RecentIsLast`, `ShutdownReturns`, `QueueDrains`. |
| `driver` | holds | three connections, two programs, a queue and a batch of two, a path that is found or not, one load and unload: `QueueIsFifo` (the refinement), `RecordsOwned`, `StatsConsistent` (at most one record apart), `ExemptStaysExempt` (by what was found of the process), `UnloadedHoldsNothing`. |

*Why the bounds are enough.* Ports interact only through a shared bucket: two
ports suffice, and reuse is a matter of one port and two connections. Connection
threads interact through one variable each, so two show every interference. The
bridges of different connections share only `m_activePairs` and Winsock; what one
may do to another is covered by the theorems, so `relay` spends its states on the
data of one; one poll of its limited wait shows both outcomes. The code's gateway limit
is 3 (`TcpRelayServer.h:294`); with 2 the loop is entered, repeated and left by its
limit, and the theorems have any limit. Two deaths or drops of the agent let one hit the
recovery from the other, and the theorems cover any number of threads and of either. In `ipc_calls` a late answer
needs one call to be late for and one to be misread by; the third follows both. The
logger's file, ring and backups each fill and wrap within four entries. The driver's
queue is full with two records and a third connection is refused; with two readers
each may get part of it. One process suffices: with its path it is exempt, without it it
is one the wildcard covers. `MaxLoads = 1`: nothing outlives an unload but the counters
of the previous load, which `UnloadedHoldsNothing` shows to be gone. In
`settings_save` two faults let the second hit the recovery from the first, and of the two
ports one is the page's default and the other the service's.

Deadlock is not checked: all of these systems may come to rest (no more clients, no
more packets, service stopped).

*Fairness.* `ConnectHandler`: a thread in a call goes on; connect and the 30 s
socket timeouts bound each one. `RelayServer`: a thread that can go on does, and a
`send` can while its peer reads; `select` has a timeout; peers need not read, close or
send, and `Stop` need not be called, but once it has returned `ServiceMain` goes on to
`ProxyEngine::Shutdown`. `KerberosAgent`: threads run and the agent answers or drops its
client; strong fairness only for
taking the mutex, which its holders give up between exchanges for 15 s or a round
trip to the proxy. `Ipc`: the pipe's thread runs, a client that waits
reads, and `CreateNamedPipe` does not fail for ever; no client has to connect, send or
leave.
`Lifecycle`: threads run, and the capture's `recv` returns once its handle is shut;
no packet and no request has to arrive and no client has to read. `StopEnds` states as
its hypothesis that no answer stays unread for ever. `Logger`: the threads run; nobody has to log
and no rotation has to come. Invariants need no fairness; `Settings` and `Driver`
have none.

### Findings

1. *A reused port gets the old destination* (`capture_dest`). The client's FIN
   drops the entry; its last ACK is then an untracked packet, is judged and files
   the port again. The next connection from this port is found in the table, against
   the comment at `ConnectionTable.h:67`.
2. *No reconnect* (`agent_reconnect`). A failed read clears `m_connected` and
   keeps `m_pipe`; `ConnectToAgent` takes the handle for a connection, and the
   keepalive thread pings, and so cleans up, only while `m_connected` is set.
   `KerberosAgentProvider.h:27` promises an automatic reconnect.

TLC refutes more statements; no run is kept for these. Each is a definition of the
module named, to be put in the place of the properties of that module's run, with
the change of constants given, if any.

Capture and relay:

* `OwnTrafficDirect` with `MaxConns = 2`: the PID cache still names the port's
  former process, and the service's own connection is redirected.
* `RulesFollowed` with `TableLag = TRUE`: a PID of 0 decides the port DIRECT for
  good, although a comment (`WinDivertCapture.cpp:527`) counts on the next packet.
* `DirectPassed`: the bits are cleared before they are read for a FIN.
* `HalfOpenIsRestored`: after the client's FIN the relay's packets are not
  restored.
* `OwnToken` (`ConnectHandler`, two Kerberos threads): `m_lastAuthToken` is one
  member for all connection threads and is overwritten between its assignment
  (`TcpRelayServer.h:485`) and its use (382).
* `ErrorClosesContext`: `CloseContext` returns silently when the agent is not connected
  and swallows errors, and a failed `recv` builds `std::string(resp_buf, -1)` for a log
  line (402) before the result is tested, which ends the process; either way the context
  stays in the agent. `docs/SECURITY_EN.md:51` says that it is destroyed at once after
  every error; the comments in `CloseContext` leave it to the agent's time limit.
* `BridgeAlwaysEnds` (`RelayServer`): `SO_SNDTIMEO` is reset to 0 for a bridge
  (`TcpRelayServer.h:439-442`) and the client's socket never has one, so a bridge to a
  peer that does not read has no end of its own.
* `CleanupWhenIdle` (`RelayServer`): negotiating threads are not in `m_activePairs`, the
  wait for bridges is limited and a blocked one outlasts it, so Winsock goes under them:
  at `WSACleanup` in `Stop` (169), or at the proxy engine's where that has a reference.
* An exception in DN leaves its reference behind, and the pair is never closed: the
  exception `NothingLeaks` names.

Kerberos:

* `ClearedOnBreak`: an agent that drops its client keeps its store, against the comment
  at `KerberosAgentProvider.cpp:126-127`.
* `OwnContext` with two threads: ids start at 1 with each agent.
* `LaunchedOnce`: the flag is released before the time is stored.

Life cycle:

* `CaptureStaysClosed`: a `capture_start` that passed its test before `Stop` opens
  the capture after `Stop` closed it.
* `StoppedMeansStopped`, `StopIsFinal`: a stop between the report of RUNNING and
  `m_running = true` finds nothing to stop; `Run` then sets the flag and goes on.
* An exception after `Open` in `Initialize` is reported as STOPPED and closes
  nothing: relay and table are destroyed with the capture running (`thrown`).
* `StopAlwaysEnds`: `Stop` takes `m_pipeMutex` (`PipeServer.h:74`) before it cancels, and
  an answer that the client does not read is flushed under it for ever (295-306).

IPC:

* `AnswersMatch` (`Ipc`): after 5 s a call gives up and leaves the pipe open; the
  late answer is read by the next call as its own (`IpcClient.cs:342`).
* `StopReturns` (`Ipc`): a thread that has tested `m_running` but not yet entered its
  blocking call is missed by `CancelIoEx` (`PipeServer.h:78`), and `join` waits for
  the next client. `StopEnds` of `Lifecycle` excludes this (`missed`).
* `LossIsShown` with `Stops = TRUE`: a call on a broken pipe returns null and raises
  no event, against `docs/SMOKE_TEST.md:58`.
* `PipeServer.h:32` says "only Administrators"; the descriptor at 148 lets everyone
  in.

Settings:

* `PortKept`: `ReadString` of a number gives the default 3128, and the next save of
  anything sends it (`SettingsViewModel.cs:113`).
* `RejectedIsNotStored`: memory changes before the save, and `SetConfig` saves twice
  (`ConfigManager.cpp:81`).
* `AtomicWrite`: `good()` is asked before the stream is closed, so an error of the
  last flush goes unnoticed and a cut file is renamed over `config.json`
  (`ConfigManager.cpp:326`); and the GUI creates the file in place
  (`JsonConfigRepository.cs:139`).
* `SavedIsStored`: after a timeout `set_config` takes the late success of `set_rules` for
  its own, and "All settings saved" is shown for a save that failed (`IpcClient.cs:341`).
* `FailedReloadNotApplied`: an exception after the rules and the proxy were applied
  (`ServiceMain.h:273-281`) is answered with an error (`IpcHandler.h:118-121`).

Logger:

* `NothingLeftBehind`: the writer leaves its loop with entries queued, against the
  comment at `Logger.cpp:278`.
* `ClosedAfterShutdown`: the rotator may reopen the file after `Shutdown` closed it.
* `RecentIsFilled`: the slot is fetched before its lock is taken.
* `SizeKept`: where a rename fails the log is opened to append and grows past its limit;
  `docs/SECURITY_EN.md:105` gives 10 MB as the maximum.
* Entries written while the rotator archives (up to 30 s) have no file and are
  dropped; with `m_maxFiles = 0` the loop of `RotateFiles` underflows (the model
  assumes at least 2); `docs/LOGGER_DESIGN.md:88` calls the push lock-free.

Driver:

* `RefusedIsNotRedirected`: the redirect handle is set before `Enqueue` and applied
  whether or not the record was accepted (`WfpCallout.c:109`).
* `ExemptByRule`: a process exempted by its path, which was not found, is redirected by
  the wildcard (`RedirectService.c:312-320`).
* `StatsAgree`: `QueueCount` is incremented before `TotalRedirects` (107, 108), and
  GET_STATS, which takes no lock, can read one record waiting and none accepted.
* `ExemptStaysExempt` without the exclusion of two programs that send rules at once.
* Noticed and not modelled: `METHOD_OUT_DIRECT` requests are read from `SystemBuffer`,
  and `Cleanup` frees with the tag `rDrT` what was allocated with `nDrT`.

Also, `docs/ANALYSIS.md` speaks of three SSPI rounds where the code allows six
requests.

## 4. Proofs

`CaptureProofs` shows, for any sets of ports, processes and rules, any process
tree, table size and bounds, that `IInv` is inductive: types, `OneEntryPerPort`,
`DirectIsUntracked`, `TrackedIsMonitored`, `CountExact`. The parts need each other:
`Remove` makes a port untracked only if it has one entry; it has one because step 4
adds only after a failed lookup, which rests on the table alone, not on the
bitmaps; the count follows from both. The lemmas on the table say what `Add`,
`Remove` and `SetProcessInfo` do to the set of tracked ports, whatever else is in
the bucket. Assumptions: finitely many ports, which are numbers; a positive table
size.

`CaptureImplementsRedirection` is the refinement, without further hypotheses: ports are
used again, the TCP table lags, rules and proxy change, the capture is restarted. The
way of a connection is read off its last packet and the direct bit, its destination off
the table (`Way`, `Redirected`): a judged packet is `Choose`, a FIN or RST of either side
`Close`, `Close` and `Open` of the capture are `Stop` and `Start`, a packet that passes by
the stopped capture is `Stray`, and all other packets and all reconfiguration are
stutters. On top of `IInv` it needs only `Entered`: an open connection whose last packet
went to the relay has an entry, which may be one that an earlier connection left. So what
finding 1 shows is that the destination may be wrong from the first packet on; the theorem
shows that it does not change under way. `DirectIsUntracked` is what keeps a redirected
connection off the fast path, and `OneEntryPerPort` what keeps its destination the same
when other ports come into its bucket and leave it.

Two properties of `Capture` do not survive the reuse of a port (finding 1 and the list
after it), so their theorems have the hypothesis `MaxConns <= 1`: no port is used twice.
`OwnTrafficNotRelayed` and `RelayedIsTracked` assume nothing else: the TCP table may lag,
rules and proxy may change, the capture may be restarted. Both follow from `PortInv`,
which is about one port: unused, it has no records (`Unused`, where the hypothesis
enters); the service's own port is in no entry and its cached PID is the service's or
none (`Own`); an entry names the destination of the port's connection and goes only when
a side closes (`Filed`). `SteadyRulesFollowed` needs four more hypotheses, those of run
`capture_steady`: an up-to-date TCP table, no reconfiguration, no restart (a decision
once filed is not revised, so each of these lets an old one outlive its reason), and
`NoHeirs`: no process is treated as the target because of its parents. Without the last,
a packet judged before `m_targetPid` is learned and one judged after are treated
differently. Its invariant says that bitmap, table and cache of a port agree with the
rule for its process (`Ruled`).

`ConnectHandlerProofs` shows the same for `HInv`, for any finite number of threads,
any mix of providers and any limits (at least one round): types; what a thread
holds is a function of where it is (`Holdings`, the strengthening `HandlesBalanced`
needs); a context still at the agent belongs to a thread in its negotiation, or its
thread has called `CloseContext` for it (`ContextsClosed`); the sends so far
are bounded by attempts and rounds so far (`SendsCounted`, needed because
`AttemptsBounded` alone says nothing of a single attempt); the error count
(`ErrorsExact`). `BasicNotRepeated` adds `BasicSends`: between two CONNECTs of a Basic
thread there is a gateway error, because the thread is under a context from its first
CONNECT on a connection, and with one a 407 ends it.

`RelayServerProofs` shows it for `RInv`, for any finite number of connections:
types (no socket is closed twice); what exists before and after a bridge
(`Outside`); a running relay thread finds the pair and both sockets (`Alive`); a
thread that has yet to release is counted in `refs`, two are counted as two, and
the thread that closes is alone (`Counted`); `ActivePairsExact`. `Alive` is what
`NoUseAfterClose` says, and it needs `Counted`: the thread that closes must know
that the other has ended. `Counted` gives lower bounds, because an exception in DN
leaves its reference behind; `Exact` adds the exact count for a connection that did
not throw, and from it follows `NothingLeaks`. A connection's step leaves every other
connection's part as it was, which is lemma `OthersKept`.

On top of `RInv`, `FInv` follows the data, for any number of connections and chunks.
`Flow` says for a direction what has been passed on, compared with the thread's local
total, at each place of its loop: equal between two `recv`s, one part ahead inside a
partial send, less than a chunk ahead after a failed one, and equal to all that was sent
when the loop was left by the peer's FIN; and that a FIN is sent on only after that.
`HalfCloseSafe` and `BytesExact` are read off it. `Served` is needed because both speak
of Winsock: a connection exists only after `Start`, which comes once, so that a reference
that `Stop` or the proxy engine gives up does not come back.

`KerberosAgentProofs` shows it for `KInv`, for any finite number of threads and any
number of deaths of the agent and of clients it drops. `AnswersMatch` needs `Locking`: the mutex is held exactly between
write and read, and the pipe is empty while it is free. `NoOrphans` needs most of the
rest: the request in the pipe is what its thread asked for (`Asked`); an answer on its
way agrees with the store, but for contexts in `left` (`Fresh`); a thread that asks for a
context has none (`Ops`); and without a good pipe nothing is on the way (`Down`). So when
a pipe breaks, whether or not the store is lost with it, the only contexts that can be
forgotten are the one whose closing failed and the one whose id was not returned, and
both go into `left` in that step.

`ServiceProofs` extends both modules of the service process (hence the names `IpcSpec`, `IpcNext` in `Ipc`). It has two invariants about `Ipc`, for any number of calls and starts.
`HandleInductive`: `m_hPipe` is set exactly while an instance is open, and which of the two
threads may still close it is a function of where both are (`HandleClosedOnce`).
`AnswersInductive`: requests and answers in the pipe, the one in the thread's hand and
the ones returned are in order without repetition (`AnswersInOrder`).

Its second part is about `Lifecycle`, for any set of
connection threads and without assumptions. `LInv` first says who can be where: nobody
else is at work before RUNNING is reported (`Booting`), the members go after STOPPED and
after `Stop` (`Exiting`), `Close` runs only where it is called (`Places`). Then what is true
unless a race was noted. `Overlaps`: a capture request beside `Stop` or the destructors
has been noted, because `Request` tests for the stop and the stop for the request. `Calm`
(without such a request): a capture that is not running has no thread or is being joined,
and a joined one stays away until `Close` returns; this is what makes the test of
`m_running` in `Open` enough, and gives `CaptureCallsMatch`. `Ordered` (also without an
early control and an exception in `Initialize`): status, flag and threads agree, and what
`Stop` has passed is over; `CaptureNeedsRelay` is read off it. `Drained` adds the
connections, if `Stop` did not give up waiting: none begins after the capture's thread has
ended, and the wait saw none. `Lent` is about the provider and needs no exception. The
last two give `FreedUnused`.

`SettingsProofs` shows that `SInv` is inductive, for any ports, passwords, levels and
rules and any number of saves, edits, failures, timeouts and deaths. `SavedSurvives` is
read off its last part, `OnDisk`, which has the hypothesis of that property: no call has
given up on this pipe (`SavedIsStored` shows that it is needed). The chain before it: as
long as none has, there is one call at a time, in the pipe, in work, answered, or lost
with the pipe (`OneCall`), so a success is the success of this request; the service saves
for a request or its own start, and a service that is down has lost the pipe (`Working`);
while it saves, its memory holds what was sent (`InMemory`), also when the answer to
`set_rules` was an error the GUI ignores, because the next save writes rules and proxy
together; and the temporary file is an image of that memory when it is renamed
(`TmpWritten`). `Places` keeps the GUI's own writes apart from this: it resets only an
empty file, which a cut must have left. A death between any two steps loses the pipe and
so the request, and never a file that was renamed. `FileIsWhole` is a part of its own.
Assumption: rule lists are sequences.

`LoggerProofs`, for any number of callers, entries and rotations and any sizes: the
file is open where the writer is about to write and no open handle is lost, though the
rotator reopens without the mutex (`FileUsedOpen`); types; a file with a smaller number
has only newer entries, the log the newest, whichever renames and deletions fail and
whatever the rotator deletes (`FilesInOrder`, by `MovedOrdered`: a file moves onto the
next number only). Assumption: at least two files. `LoggerAccounts`: written entries, the rest of the batch
and the queue, one after the other, and the dropped ones have each entry once and in
order; each step appends at the end, moves the head of one part to the end of the part
before it, or takes it out (`Accounted` and its lemmas). `RecentExact`: of the last
`RingSize` entries each is in its slot or in the hands of the one adder that fetched this
slot (`InSlots`). It needs two facts about remainders, proved from quotients: entries less
than a ring apart have different slots, entries a ring apart the same. `lapped` excludes
that a slot is fetched twice before it is stored.

`DriverProofs`, for any finite set of connections, any number of programs, rules and
loads, and any capacity of queue and batch. `CInv`: types; the two counters are the
lengths of their lists, and no more records wait than were accepted, but for one while a
callout holds `QueueLock` between its two increments (`CountersExact`, `QueueLockFree`);
callouts and requests run only in a loaded driver, since it is unloaded when none does
(`Running`); what GET_STATS has read so far agrees with what it has still to read
(`StatsSoFar`). `StatsConsistent` needs all of it: the number waiting is read first, one
record too early at most; `total` only grows while a request runs (a load would reset it,
and `Running` excludes one), so what is read later is not smaller. From `CInv` follows the refinement,
`QueueImplementsFifo`: `Enqueue` is `Accept`, a full queue `Refuse`, `PeekBatch`
`HandOut`, loading and unloading `Discard`, and every other step a stutter. It needs
`CountersExact` because the code tests the counter where `RedirectFifo` tests the
length.

`RecordsHaveOneOwner` rests on `Owners`: queue and batches are without repetition and
pairwise disjoint, hold only records their callouts are done with (`Shelved`), and every
record in memory is in one of them or with its callout (`Held`). What an unloaded driver
holds (`Unloaded`) gives `UnloadedLeavesNothing`. `ExemptNotRedirected` rests on
`RulesFrom`: until two programs change the rules at once, the list in force is the
beginning of one that was sent, and in every beginning of a list the first rule that
covers an exempt process, by what was found of it, does not redirect it; `Chosen` keeps that for a callout between
its decision and its effect.

Only model-checked: the liveness properties (`EveryClientServed`, `BridgeEnds`,
`StopReturns`, `CallsReturn`, `ServesNextClient`, `StopEnds`, `ShutdownReturns`,
`QueueDrains`), since the proof system has neither fairness nor `ENABLED`. Every other
property of a run that holds is also a theorem.

## 5. Not modelled, and the plan

Next, in this order:

1. `Rules`: `Match` with priorities and wildcards as operators, against a reference
   definition; at present a rule is what it answers for a process.
2. `SteadyRulesFollowed` without `NoHeirs`, for a property that compares a packet with the
   verdict at the time it was judged.

Left out for good: header rewriting and checksums; SSPI, Winsock, WinDivert, the
filtering platform and the control manager themselves; the hook DLL (code patching);
presentation in the GUI; the statistics collector, which copies counters; encryption
of the stored password; the code no one calls (the sessions of `ProxyEngine.h`, of which
the service uses only `Initialize` and `Shutdown`, `TcpIpcServer.h`, most
of `auth_sspi.cpp`, `Dequeue` and `Acknowledge` of the driver, the push methods of the
pipe server).
