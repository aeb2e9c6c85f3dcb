------------------------------ MODULE Settings ------------------------------
(***************************************************************************)
(* The settings and the four places that hold a copy of them: config.json, *)
(* the service's ConfigManager, the parts in use (rule engine, relay and   *)
(* capture) and the form of the GUI.  The service handles one IPC request  *)
(* at a time (IpcHandler, ConfigManager, the reload of ServiceMain); the   *)
(* GUI (SettingsViewModel, JsonConfigRepository) reads the file directly   *)
(* and writes through requests; an administrator edits or deletes the      *)
(* file; the service may die at any step and is started again.             *)
(*                                                                         *)
(* A call gives up after 5 s and leaves the pipe as it is: the answer that *)
(* comes late is read by the next call.                                    *)
(*                                                                         *)
(* Of the settings the model keeps the proxy's port, the password, the log *)
(* level and the rule list.  The other values of a section are read and    *)
(* written together with these.                                            *)
(***************************************************************************)
EXTENDS Integers, Sequences

CONSTANTS
    Port,         \* proxy ports
    GuiPort,      \* the form's default port (3128)
    DefaultPort,  \* CreateDefaultConfig's port (8888)
    Password,     \* passwords; the stored one is encrypted for this machine
    Level,        \* log levels
    Rules,        \* rule lists
    DefaultRule,  \* the rule CreateDefaultConfig adds
    MaxSaves,     \* bound: how often the user saves or reloads
    MaxEdits,     \* bound: how often the administrator touches the file
    MaxFaults     \* bound: failed writes and opens, timeouts, deaths of the service

NoPassword == "no password"
Stored == Password \cup {NoPassword}
RuleName == {DefaultRule} \cup UNION {{r[i] : i \in 1 .. Len(r)} : r \in Rules}

ASSUME SettingsAssumption ==
    /\ GuiPort \in Port /\ DefaultPort \in Port
    /\ NoPassword \notin Password
    /\ Rules \subseteq Seq(RuleName)
    /\ MaxSaves \in Nat /\ MaxEdits \in Nat /\ MaxFaults \in Nat

VARIABLES
    file,    \* config.json
    tmp,     \* config.json.tmp
    config,  \* ConfigManager::m_config
    rules,   \* ConfigManager::m_rules
    engine,  \* RuleEngine's rules
    inUse,   \* the proxy settings of relay and capture: the port
    step,    \* SaveImpl: none, open, write, rename; or down: no service
    job,     \* what the service is saving for
    calls,   \* requests in the pipe
    answers, \* answers in the pipe
    linked,  \* the GUI's pipe to the service is up
    gui,     \* where the GUI is
    form,    \* the fields of the settings page
    sent,    \* what SaveAsync has sent of them; it copies the password first
    msg,     \* the message under them
    saves, edits, faults,
    known,   \* history: the file's port when the form was loaded
    touched, \* history: somebody else changed the file since the last save began
    blind,   \* history: a service started since then could not open the file
    late,    \* history: a call on this pipe has given up
    cut      \* history: the disk was full when a temporary file was closed

fileVars == <<file, tmp>>
svcVars  == <<config, rules, engine, inUse, step, job, linked>>
pipeVars == <<calls, answers, late>>
guiVars  == <<gui, form, sent, msg, saves, known, touched>>
vars == <<fileVars, svcVars, pipeVars, guiVars, edits, faults, blind, cut>>

\* What a file can hold: nothing, `{ }', a part of a text or none of it, text that is
\* no JSON, or all sections;
\* `typo': the auth section has a value of a wrong type.
Image(c, r) == [kind |-> "full", port |-> c.port, pwd |-> c.pwd, level |-> c.level,
                rules |-> r, typo |-> FALSE]
Missing == [kind |-> "missing"]
Blank   == [kind |-> "blank"]
Empty   == [kind |-> "empty"]
Torn    == [kind |-> "torn"]
Garbled == [kind |-> "garbled"]

DefaultConfig == [port |-> DefaultPort, pwd |-> NoPassword, level |-> 2]
EmptyForm == [port |-> GuiPort, pwd |-> NoPassword, level |-> 2, rules |-> <<>>,
              edited |-> FALSE]
Nothing == [port |-> GuiPort, pwd |-> NoPassword, rules |-> <<>>]

Init ==
    /\ \E p \in Port, w \in Stored, r \in Rules :
          LET c == [port |-> p, pwd |-> w, level |-> 2] IN
          /\ file = Image(c, r)
          /\ config = c /\ rules = r /\ engine = r /\ inUse = p
    /\ tmp = Missing /\ step = "none" /\ job = "none"
    /\ linked = FALSE /\ calls = <<>> /\ answers = <<>> /\ late = FALSE
    /\ gui = "load" /\ form = EmptyForm /\ sent = Nothing /\ msg = ""
    /\ known = GuiPort /\ touched = FALSE /\ blind = FALSE
    /\ saves = 0 /\ edits = 0 /\ faults = 0 /\ cut = FALSE

-----------------------------------------------------------------------------
(* The service: saving                                                      *)

\* Every save is for a handler that goes on with its result.  set_config saves
\* twice and reports a failure of either; set_rules and set_log_level (twice)
\* report success whatever happened; a reload or a start that found no file
\* saves the default configuration.
Answer(r) == answers' = Append(answers, r) /\ step' = "none" /\ job' = "none"
SaveAgain(j) == step' = "open" /\ job' = j /\ UNCHANGED answers
Apply == engine' = rules /\ inUse' = config.port

\* The reload of ServiceMain may still fail when the rules and the proxy are in use:
\* an exception while the authentication provider is made.
AnswerReload(ok) == \E r \in IF ok THEN {"success", "error"} ELSE {"error"} : Answer(r)

GoOn(ok) ==
    LET status == IF ok THEN "success" ELSE "error" IN
    \/ /\ job = "set_rules" /\ Answer("success") /\ UNCHANGED <<engine, inUse>>
    \/ /\ job = "set_config" /\ UNCHANGED <<engine, inUse>>
       /\ IF ok THEN SaveAgain("set_config again") ELSE Answer("error")
    \/ /\ job = "set_config again" /\ Answer(status) /\ UNCHANGED <<engine, inUse>>
    \/ /\ job = "set_log_level" /\ SaveAgain("set_log_level again")
       /\ UNCHANGED <<engine, inUse>>
    \/ /\ job = "set_log_level again" /\ Answer("success") /\ UNCHANGED <<engine, inUse>>
    \/ /\ job = "reload" /\ AnswerReload(ok)
       /\ IF ok THEN Apply ELSE UNCHANGED <<engine, inUse>>
    \/ /\ job = "start" /\ step' = "none" /\ job' = "none" /\ UNCHANGED answers /\ Apply

\* SaveImpl: open the temporary file (which empties it), write it, rename it.
\* Fault: the file itself is opened.
OpenFile ==
    /\ step = "open" /\ step' = "write" /\ file' = Empty
    /\ UNCHANGED <<tmp, config, rules, engine, inUse, job, linked, pipeVars, guiVars, edits,
                   faults, blind, cut>>
OpenTmp ==
    /\ step = "open" /\ step' = "write" /\ tmp' = Empty
    /\ UNCHANGED <<file, config, rules, engine, inUse, job, linked, pipeVars, guiVars, edits,
                   faults, blind, cut>>

WriteTmp ==
    /\ step = "write" /\ step' = "rename" /\ tmp' = Image(config, rules)
    /\ UNCHANGED <<file, config, rules, engine, inUse, job, linked, pipeVars, guiVars, edits,
                   faults, blind, cut>>

\* good() is asked while the last part of the text, or all of it, is still in the
\* stream's buffer; it reaches the disk in the destructor, and nobody asks after that.
CutTmp ==
    /\ step = "write" /\ faults < MaxFaults
    /\ faults' = faults + 1
    /\ step' = "rename" /\ tmp' \in {Empty, Torn} /\ cut' = TRUE
    /\ UNCHANGED <<file, config, rules, engine, inUse, job, linked, pipeVars, guiVars, edits,
                   blind>>

\* The GUI may have moved the temporary file away, or have config.json open.
CanRename == tmp.kind # "missing" /\ gui # "write"

Rename ==
    /\ step = "rename" /\ CanRename
    /\ file' = tmp /\ tmp' = Missing
    /\ GoOn(TRUE)
    /\ UNCHANGED <<config, rules, linked, calls, late, guiVars, edits, faults, blind, cut>>

\* Any of the three fails; the exception or the early return leaves the rest.
SaveFails ==
    /\ step \in {"open", "write", "rename"}
    /\ \/ faults < MaxFaults /\ faults' = faults + 1
       \/ step = "rename" /\ ~CanRename /\ UNCHANGED faults
    /\ GoOn(FALSE)
    /\ UNCHANGED <<fileVars, config, rules, linked, calls, late, guiVars, edits, blind, cut>>

-----------------------------------------------------------------------------
(* The service: loading, requests, death and start                          *)

\* LoadImpl.  The file may not open.  The sections are assigned one by one: a wrong
\* type in auth ends it with the proxy section taken over and nothing else; a section
\* that is not there leaves what was in memory.
Opens(opened) ==
    \/ opened /\ UNCHANGED faults
    \/ ~opened /\ faults < MaxFaults /\ faults' = faults + 1
LoadFile(opened) ==
    CASE opened /\ file.kind = "full" /\ ~file.typo ->
            config' = [port |-> file.port, pwd |-> file.pwd, level |-> file.level]
            /\ rules' = file.rules
      [] opened /\ file.kind = "full" /\ file.typo ->
            config' = [config EXCEPT !.port = file.port] /\ UNCHANGED rules
      [] OTHER -> UNCHANGED <<config, rules>>
Loads(opened) == opened /\ (file.kind = "blank" \/ (file.kind = "full" /\ ~file.typo))

\* CreateDefaultConfig: a new configuration, but one more rule.
CreateDefaultConfig(j) ==
    /\ config' = DefaultConfig /\ rules' = Append(rules, DefaultRule)
    /\ step' = "open" /\ job' = j
    /\ UNCHANGED <<engine, inUse, faults>>

\* The service takes the next request when it has answered the one before.
Takes(op) == step = "none" /\ calls # <<>> /\ Head(calls).op = op /\ calls' = Tail(calls)

\* The reload of ServiceMain: rules to the engine, proxy to capture and relay,
\* only if the load succeeded.
ReloadConfig ==
    /\ Takes("reload")
    /\ IF file.kind = "missing" THEN CreateDefaultConfig("reload") /\ UNCHANGED answers
       ELSE \E opened \in BOOLEAN :
            /\ Opens(opened) /\ LoadFile(opened) /\ AnswerReload(Loads(opened))
            /\ IF Loads(opened) THEN engine' = rules' /\ inUse' = config'.port
                                ELSE UNCHANGED <<engine, inUse>>
    /\ UNCHANGED <<fileVars, linked, late, guiVars, edits, blind, cut>>

\* IpcHandler::SetRules.
SetRules ==
    /\ Takes("set_rules")
    /\ engine' = Head(calls).rules /\ rules' = Head(calls).rules
    /\ step' = "open" /\ job' = "set_rules"
    /\ UNCHANGED <<fileVars, config, inUse, linked, answers, late, guiVars, edits, faults,
                   blind, cut>>

\* IpcHandler::SetConfig and ConfigManager::SetProxyConfig: memory first.
\* EncryptPassword returns an empty text when it fails.  Relay and capture are
\* not told.
SetConfig ==
    LET request == Head(calls) IN
    /\ Takes("set_config")
    /\ \E w \in IF request.pwd = NoPassword THEN {config.pwd} ELSE {request.pwd, NoPassword} :
          config' = [config EXCEPT !.port = request.port, !.pwd = w]
    /\ step' = "open" /\ job' = "set_config"
    /\ UNCHANGED <<fileVars, rules, engine, inUse, linked, answers, late, guiVars, edits,
                   faults, blind, cut>>

SetLogLevel ==
    /\ Takes("set_log_level")
    /\ config' = [config EXCEPT !.level = Head(calls).level]
    /\ step' = "open" /\ job' = "set_log_level"
    /\ UNCHANGED <<fileVars, rules, engine, inUse, linked, answers, late, guiVars, edits,
                   faults, blind, cut>>

\* The service dies: its memory is gone and the pipe breaks; a call that waits may
\* still read what was answered.
Waiting == gui \in {"rules", "config", "level", "reload"}
Die ==
    /\ step # "down" /\ faults < MaxFaults
    /\ faults' = faults + 1
    /\ step' = "down" /\ job' = "none"
    /\ calls' = <<>> /\ answers' = IF Waiting THEN answers ELSE <<>>
    /\ config' = DefaultConfig /\ rules' = <<>> /\ engine' = <<>> /\ inUse' = DefaultPort
    /\ linked' = FALSE
    /\ UNCHANGED <<fileVars, late, guiVars, edits, blind, cut>>

\* Initialize loads and goes on with what it has if that fails.
Start ==
    /\ step = "down"
    /\ IF file.kind = "missing" THEN CreateDefaultConfig("start") /\ UNCHANGED blind
       ELSE \E opened \in BOOLEAN :
            /\ Opens(opened) /\ LoadFile(opened) /\ engine' = rules' /\ inUse' = config'.port
            /\ step' = "none" /\ job' = "none" /\ blind' = (blind \/ ~opened)
    /\ UNCHANGED <<fileVars, linked, pipeVars, guiVars, edits, cut>>

-----------------------------------------------------------------------------
(* The GUI                                                                  *)

\* LoadFromConfig, when the GUI starts, on connecting and after a reload.  ReadString asks for the
\* port as a text, but it is stored as a number: the exception it catches yields
\* the default.  A file without rules, or none at all, yields an empty list; the
\* password field is emptied.
FormOf(f) ==
    IF f.kind # "full" THEN EmptyForm
    ELSE [EmptyForm EXCEPT !.level = f.level, !.rules = f.rules]

PortOf(f) == IF f.kind = "full" THEN f.port ELSE GuiPort

\* ConnectToServiceAsync; once the pipe is up the form is loaded.
Connect ==
    /\ gui = "ready" /\ ~linked /\ step # "down"
    /\ linked' = TRUE /\ late' = FALSE /\ gui' = "load" /\ msg' = ""
    /\ UNCHANGED <<fileVars, config, rules, engine, inUse, step, job, calls, answers,
                   form, sent, saves, known, touched, edits, faults, blind, cut>>

Shown(f) == form' = FormOf(f) /\ known' = PortOf(f) /\ gui' = "ready" /\ msg' = ""

\* An empty file is reset first, unless the service has the temporary file open:
\* that exception, too, yields the defaults.
MayReset == file.kind = "empty" /\ step # "write"
LoadFromConfig ==
    /\ gui = "load" /\ file.kind # "missing" /\ ~MayReset
    /\ Shown(file)
    /\ UNCHANGED <<fileVars, svcVars, pipeVars, sent, saves, touched, edits, faults, blind, cut>>

\* EnsureFileExists: it looks, then opens the file, which empties it, and writes `{ }'.
FileIsMissing ==
    /\ gui = "load" /\ file.kind = "missing"
    /\ gui' = "create"
    /\ UNCHANGED <<fileVars, svcVars, pipeVars, form, sent, msg, saves, known, touched, edits,
                   faults, blind, cut>>

EnsureFileExists ==
    /\ \/ gui = "create" /\ file' = Empty /\ gui' = "write"
       \/ gui = "write" /\ file' = Blank /\ gui' = "load"
    /\ UNCHANGED <<tmp, svcVars, pipeVars, form, sent, msg, saves, known, touched, edits,
                   faults, blind, cut>>

\* ResetToEmpty writes `{}' to the temporary file, the one the service uses, and moves
\* it over config.json.  (Nobody can open or move a file while it is being written.)
ResetToEmpty ==
    /\ gui = "load" /\ MayReset
    /\ tmp' = Blank /\ gui' = "reset"
    /\ UNCHANGED <<file, svcVars, pipeVars, form, sent, msg, saves, known, touched, edits,
                   faults, blind, cut>>

MoveReset ==
    /\ gui = "reset"
    /\ IF tmp.kind # "missing" /\ step # "write" THEN file' = tmp /\ tmp' = Missing
                                                ELSE UNCHANGED fileVars
    /\ Shown(Blank)
    /\ UNCHANGED <<svcVars, pipeVars, sent, saves, touched, edits, faults, blind, cut>>

\* The user edits the fields, also while a save waits for an answer (what nobody can
\* save any more is left out).
EditForm(p, w, l, r) ==
    /\ (gui = "ready" /\ saves < MaxSaves) \/ Waiting
    /\ form' = [port |-> p, pwd |-> w, level |-> l, rules |-> r,
                edited |-> form.edited \/ p # form.port]
    /\ UNCHANGED <<fileVars, svcVars, pipeVars, gui, sent, msg, saves, known, touched, edits,
                   faults, blind, cut>>

\* IpcClient::Call.  On a broken pipe nothing is sent.
Send(r) == calls' = IF linked THEN Append(calls, r) ELSE calls

\* It returns the first answer in the pipe, whatever that answers; nothing on a broken
\* pipe; and nothing after 5 s, with the pipe left open.
Returns(r) ==
    \/ /\ answers # <<>> /\ r = Head(answers)
       /\ answers' = IF linked THEN Tail(answers) ELSE <<>>
       /\ UNCHANGED <<late, faults>>
    \/ answers = <<>> /\ ~linked /\ r = "lost" /\ UNCHANGED <<answers, late, faults>>
    \/ /\ answers = <<>> /\ linked /\ r = "lost" /\ faults < MaxFaults
       /\ late' = TRUE /\ faults' = faults + 1 /\ UNCHANGED answers
Results == {"success", "error", "lost"}

\* SaveAsync copies the password and sends the rules; the result is not looked at ...
SaveAsync ==
    /\ gui = "ready" /\ saves < MaxSaves
    /\ saves' = saves + 1 /\ gui' = "rules" /\ msg' = ""
    /\ touched' = FALSE /\ blind' = FALSE
    /\ sent' = [sent EXCEPT !.rules = form.rules, !.pwd = form.pwd]
    /\ Send([op |-> "set_rules", rules |-> form.rules])
    /\ UNCHANGED <<fileVars, svcVars, answers, late, form, known, edits, faults, cut>>

\* ... then set_config, with the fields as they are by then ...
SaveProxy ==
    /\ gui = "rules" /\ \E r \in Results : Returns(r)
    /\ gui' = "config"
    /\ sent' = [sent EXCEPT !.port = form.port]
    /\ Send([op |-> "set_config", port |-> form.port, pwd |-> sent.pwd])
    /\ UNCHANGED <<fileVars, svcVars, form, msg, saves, known, touched, edits, blind, cut>>

\* ... which may be refused ...
SaveRefused ==
    /\ gui = "config" /\ \E r \in {"error", "lost"} : Returns(r)
    /\ gui' = "ready" /\ msg' = "rejected"
    /\ UNCHANGED <<fileVars, svcVars, calls, form, sent, saves, known, touched, edits, blind, cut>>

\* ... then set_log_level, whose result is not looked at either.
\* Fault: nor is that of set_config.
SaveLevelAnyway ==
    /\ gui = "config" /\ \E r \in Results : Returns(r)
    /\ gui' = "level"
    /\ Send([op |-> "set_log_level", level |-> form.level])
    /\ UNCHANGED <<fileVars, svcVars, form, sent, msg, saves, known, touched, edits, blind, cut>>
SaveLevel ==
    /\ gui = "config" /\ Returns("success")
    /\ gui' = "level"
    /\ Send([op |-> "set_log_level", level |-> form.level])
    /\ UNCHANGED <<fileVars, svcVars, form, sent, msg, saves, known, touched, edits, blind, cut>>

SaveDone ==
    /\ gui = "level" /\ \E r \in Results : Returns(r)
    /\ gui' = "ready" /\ msg' = "saved"
    /\ form' = [form EXCEPT !.pwd = NoPassword]
    /\ UNCHANGED <<fileVars, svcVars, calls, sent, saves, known, touched, edits, blind, cut>>

\* ReloadConfigAsync of the shell; after a success the form is loaded again.
GuiReload ==
    /\ gui = "ready" /\ saves < MaxSaves
    /\ saves' = saves + 1 /\ gui' = "reload" /\ msg' = ""
    /\ Send([op |-> "reload"])
    /\ UNCHANGED <<fileVars, svcVars, answers, late, form, sent, known, touched, edits, faults,
                   blind, cut>>

GuiReloaded ==
    /\ gui = "reload"
    /\ \E r \in Results : Returns(r) /\ gui' = IF r = "success" THEN "load" ELSE "ready"
    /\ UNCHANGED <<fileVars, svcVars, calls, form, sent, msg, saves, known, touched, edits,
                   blind, cut>>

-----------------------------------------------------------------------------
(* The administrator, in an editor                                          *)

Edit(f) ==
    /\ edits < MaxEdits /\ edits' = edits + 1 /\ gui # "write"
    /\ file' = f /\ touched' = TRUE
    /\ UNCHANGED <<tmp, svcVars, pipeVars, gui, form, sent, msg, saves, known, faults, blind, cut>>

AdminEdits ==
    \/ Edit(Missing)
    \/ Edit(Garbled)
    \/ file.kind = "full" /\ \E p \in Port, t \in BOOLEAN :
          Edit([file EXCEPT !.port = p, !.typo = t])

-----------------------------------------------------------------------------
Service == OpenTmp \/ WriteTmp \/ Rename \/ ReloadConfig \/ SetRules \/ SetConfig
           \/ SetLogLevel \/ Start

GuiSteps == SaveProxy \/ SaveRefused \/ SaveLevel \/ SaveDone \/ GuiReloaded

Next ==
    \/ Service \/ SaveFails \/ CutTmp \/ Die
    \/ GuiSteps \/ Connect \/ LoadFromConfig \/ FileIsMissing \/ EnsureFileExists
    \/ ResetToEmpty \/ MoveReset \/ SaveAsync \/ GuiReload
    \/ \E p \in Port, w \in Stored, l \in Level, r \in Rules : EditForm(p, w, l, r)
    \/ AdminEdits

Spec == Init /\ [][Next]_vars

-----------------------------------------------------------------------------
(* Properties                                                               *)

Levels == Level \cup {2}
Files ==
    {Missing, Blank, Empty, Torn, Garbled}
      \cup [kind : {"full"}, port : Port, pwd : Stored, level : Levels,
            rules : Seq(RuleName), typo : BOOLEAN]
Requests ==
    {[op |-> "reload"]}
      \cup [op : {"set_rules"}, rules : Seq(RuleName)]
      \cup [op : {"set_config"}, port : Port, pwd : Stored]
      \cup [op : {"set_log_level"}, level : Levels]
Configs == [port : Port, pwd : Stored, level : Levels]
Forms == [port : Port, pwd : Stored, level : Levels, rules : Seq(RuleName),
          edited : BOOLEAN]

TypeOK ==
    /\ file \in Files /\ tmp \in Files
    /\ config \in Configs
    /\ rules \in Seq(RuleName) /\ engine \in Seq(RuleName) /\ inUse \in Port
    /\ step \in {"none", "open", "write", "rename", "down"}
    /\ job \in {"none", "set_rules", "set_config", "set_config again", "set_log_level",
               "set_log_level again", "reload", "start"}
    /\ calls \in Seq(Requests) /\ answers \in Seq({"success", "error"})
    /\ linked \in BOOLEAN /\ touched \in BOOLEAN /\ cut \in BOOLEAN
    /\ late \in BOOLEAN /\ blind \in BOOLEAN
    /\ gui \in {"load", "create", "write", "reset", "ready", "rules", "config", "level",
                "reload"}
    /\ form \in Forms /\ sent \in [port : Port, pwd : Stored, rules : Seq(RuleName)]
    /\ msg \in {"", "rejected", "saved"} /\ known \in Port
    /\ saves \in 0 .. MaxSaves /\ edits \in 0 .. MaxEdits /\ faults \in 0 .. MaxFaults

\* A death of the service, or a failure it notices, at any step of a save leaves a
\* whole config.json.  Only a full disk at the close of the temporary file does not,
\* and the GUI while it creates the file in place.
FileIsWhole == file.kind \in {"torn", "empty"} => cut \/ gui = "write"

\* "Atomic write: write to temp file, then rename": the file is whole, always.
AtomicWrite == file.kind \notin {"torn", "empty"}

\* `All settings saved' is true of the rules and the proxy even though the result
\* of set_rules is ignored, either of the service's saves may fail, the service may
\* die and the user go on typing: until somebody touches the file it holds what was
\* sent, and so does a service started from it, if it could open it.  Only a call that
\* gave up on this pipe can make the GUI take one answer for another.
SavedSurvives ==
    (msg = "saved" /\ ~touched /\ ~cut /\ ~late) =>
        /\ file.kind = "full" /\ file.port = sent.port /\ file.rules = sent.rules
        /\ step = "none" /\ ~blind => config.port = sent.port /\ rules = sent.rules

\* Without that: `saved' also after a timeout.
SavedIsStored ==
    (msg = "saved" /\ ~touched /\ ~cut) =>
        file.kind = "full" /\ file.port = sent.port /\ file.rules = sent.rules

\* A reload that is answered with an error has changed nothing that is in use.
FailedReloadNotApplied ==
    [][answers' = Append(answers, "error") => UNCHANGED <<engine, inUse>>]_vars

\* "Load settings from config.json": saving a form in which the user did not
\* touch the port leaves the stored port as it was.
PortKept == (msg = "saved" /\ ~form.edited /\ ~touched /\ ~cut) => file.port = known

\* "service rejected config": what the GUI reports as rejected is not stored.
RejectedIsNotStored ==
    (msg = "rejected" /\ file.kind = "full" /\ sent.port # known) => file.port # sent.port
=============================================================================
